---------------------------- MODULE TTThreadProofs ----------------------------
(***************************************************************************)
(* Inv is an invariant of TTThread!Spec, and the safety properties follow  *)
(* from it.  One lemma per part of Inv says that a step preserves it.  In  *)
(* each of them a step is one of the table's functions (TableFrame: it     *)
(* moves its own thread only, and touches no structure), one of another    *)
(* call that has begun (OutsideTable and OutsideFrame: it touches neither  *)
(* the table nor the mutex), a new call, or the end of a thread: these are *)
(* the steps of Act, and a right that changes hands (HandOffInv) is apart. *)
(* The parts about the table rest on LockInv: whoever writes the table is  *)
(* the only thread in a critical section (OneHolder, WriterHolds), so that *)
(* what a scan has seen stays true until the scan ends.                    *)
(***************************************************************************)
EXTENDS TTThreadInv, TLAPS

\* The first slot exists and no slot is before it.
LEMMA ZeroSlot == 0 \in Slots /\ \A i \in Slots : ~(i < 0)
  BY TableAssumption, SMT DEF Slots

\* The loop variable stays in the range of the slots.
LEMMA NextSlotType ==
  ASSUME NEW p \in Procs, NEW l \in Labels,
         idx \in [Procs -> Slots], pc \in [Procs -> Labels],
         NextSlot(p, l)
  PROVE  idx' \in [Procs -> Slots] /\ pc' \in [Procs -> Labels]
<1>2. CASE idx[p] + 1 \in Slots
  BY <1>2 DEF NextSlot
<1>3. CASE ~(idx[p] + 1 \in Slots)
  BY ZeroSlot, <1>3 DEF NextSlot, Goto
<1> QED
  BY <1>2, <1>3

\* Types: a thread that exits was running, and a scan stays in the table.
LEMMA TypeStep ==
  ASSUME TypeOK, \A h \in Handles : pc[h] \in FindLabels \cup {"idle"}, Act
  PROVE  TypeOK'
<1> USE TableAssumption, ThreadAssumption
    DEF TypeOK, MutexTypeOK, Labels, TableLabels, Holding, Goto, Return,
        ForgetLocals, threadVars, rightVars, mutexVars
<1>1. ASSUME NEW p \in Procs, TableStep(p) PROVE TypeOK'
  <2> USE DEF LockTable, UnlockTable, MutexLock, MutexUnlock, Acquire
  <2>1. CASE InitMutex(p)
    BY <1>1, <2>1 DEF TableStep, InitMutex, MutexInit
  <2>2. CASE InitNoMutex(p)
    BY <1>1, <2>2 DEF TableStep, InitNoMutex
  <2>3. CASE InitLock(p) \/ InitUnlock(p)
    BY <1>1, <2>3 DEF TableStep, InitLock, InitUnlock
  <2>4. CASE InitClear(p)
    BY <1>1, <2>4 DEF TableStep, InitClear
  <2>5. CASE RegLock(p) \/ RegUnlock(p)
    BY <1>1, <2>5 DEF TableStep, RegLock, RegUnlock
  <2>6. CASE RegPass(p)
    BY <1>1, <2>6, NextSlotType DEF TableStep, RegPass
  <2>7. CASE RegTake(p)
    BY <1>1, <2>7 DEF TableStep, RegTake
  <2>8. CASE RegFill(p)
    BY <1>1, <2>8 DEF TableStep, RegFill, Slots
  <2>9. CASE UnregLock(p) \/ UnregUnlock(p)
    BY <1>1, <2>9 DEF TableStep, UnregLock, UnregUnlock
  <2>10. CASE UnregPass(p)
    BY <1>1, <2>10, NextSlotType DEF TableStep, UnregPass
  <2>11. CASE UnregClear(p)
    BY <1>1, <2>11 DEF TableStep, UnregClear, Slots
  <2>12. CASE FindLock(p) \/ FindUnlock(p)
    BY <1>1, <2>12 DEF TableStep, FindLock, FindUnlock
  <2>13. CASE FindPass(p)
    BY <1>1, <2>13, NextSlotType DEF TableStep, FindPass
  <2>14. CASE FindHit(p)
    BY <1>1, <2>14 DEF TableStep, FindHit, Slots
  <2> QED
    BY <1>1, <2>1, <2>2, <2>3, <2>4, <2>5, <2>6, <2>7, <2>8, <2>9, <2>10,
       <2>11, <2>12, <2>13, <2>14 DEF TableStep
<1>2. ASSUME NEW p \in Procs, Step(p), ~TableStep(p) PROVE TypeOK'
  <2> USE DEF States, OsStates, tableVars, Free
  <2>1. CASE CreateSpawn(p)
    <3>1. PICK h \in Handles :
            /\ os' = [os EXCEPT ![h] = "running"]
            /\ handle' = [handle EXCEPT ![arg[p]] = h]
      BY <2>1 DEF CreateSpawn
    <3> QED
      BY <2>1, <3>1 DEF CreateSpawn
  <2>2. CASE CreateNoThread(p) \/ CreateRollback(p) \/ DestroyFree(p)
    <3>1. CASE CreateNoThread(p)
      BY ZeroSlot, <3>1 DEF CreateNoThread
    <3>2. CASE CreateRollback(p)
      BY ZeroSlot, <3>2 DEF CreateRollback
    <3>3. CASE DestroyFree(p)
      BY ZeroSlot, <3>3 DEF DestroyFree
    <3> QED
      BY <2>2, <3>1, <3>2, <3>3
  <2>3. CASE CreateDone(p)
    <3>1. p \in Callers
      BY <2>3 DEF CreateDone, FindLabels
    <3> QED
      BY ZeroSlot, <2>3, <3>1 DEF CreateDone
  <2>4. CASE JoinWait(p)
    BY <2>4 DEF JoinWait
  <2>5. CASE JoinFails(p) \/ DestroyNotFound(p) \/ DestroyNoDetach(p)
             \/ SelfReturn(p)
    BY ZeroSlot, <2>5 DEF JoinFails, DestroyNotFound, DestroyNoDetach, SelfReturn
  <2>6. CASE JoinState(p)
    BY <2>6 DEF JoinState
  <2>7. CASE JoinActive(p)
    BY ZeroSlot, <2>7 DEF JoinActive
  <2>8. CASE DestroyLook(p) \/ DestroyDetach(p)
    BY <2>8 DEF DestroyLook, DestroyDetach
  <2> QED
    BY <1>2, <2>1, <2>2, <2>3, <2>4, <2>5, <2>6, <2>7, <2>8 DEF Step
<1>3. ASSUME NEW p \in Procs, Call(p) PROVE TypeOK'
  <2>1. CASE SelfCall(p)
    BY <2>1 DEF SelfCall
  <2>2. CASE CreateCall(p)
    BY <2>2 DEF CreateCall, Malloc, States
  <2>3. ASSUME NEW t \in Threads, JoinCall(p, t) \/ DestroyCall(p, t)
        PROVE  TypeOK'
    BY <2>3 DEF JoinCall, DestroyCall
  <2> QED
    BY <1>3, <2>1, <2>2, <2>3 DEF Call
<1>4. ASSUME NEW p \in Callers, InitCall(p) \/ CleanupCall(p) PROVE TypeOK'
  BY <1>4 DEF InitCall, CleanupCall
<1>5. ASSUME NEW h \in Handles, Exit(h) PROVE TypeOK'
  BY <1>5 DEF Exit, OsStates, tableVars
<1> QED
  BY <1>1, <1>2, <1>3, <1>4, <1>5 DEF Act, Proceed, Step

\* Outside the functions of the table nothing touches the mutex, the table or
\* the loop variable of another thread, and no thread enters a critical section.
LEMMA OutsideTable ==
  ASSUME TypeOK, NEW p \in Procs,
         \/ Step(p) /\ ~TableStep(p)
         \/ Call(p) \/ InitCall(p) \/ CleanupCall(p)
  PROVE  /\ UNCHANGED <<lock, initialized, owner, table>>
         /\ pc[p] \notin Holding
         /\ \E l \in Labels \ Holding : pc' = [pc EXCEPT ![p] = l]
<1> USE DEF mutexVars, Goto, Return, ForgetLocals, Labels, TableLabels, Holding
<1>1. CASE Step(p) /\ ~TableStep(p)
  <2>1. CASE CreateSpawn(p) \/ CreateNoThread(p) \/ CreateDone(p)
             \/ CreateRollback(p)
    BY <2>1 DEF CreateSpawn, CreateNoThread, CreateDone, CreateRollback
  <2>2. CASE JoinWait(p) \/ JoinFails(p) \/ JoinState(p) \/ JoinActive(p)
             \/ SelfReturn(p)
    BY <2>2 DEF JoinWait, JoinFails, JoinState, JoinActive, SelfReturn
  <2>3. CASE DestroyNotFound(p) \/ DestroyLook(p) \/ DestroyDetach(p)
             \/ DestroyNoDetach(p) \/ DestroyFree(p)
    BY <2>3 DEF DestroyNotFound, DestroyLook, DestroyDetach, DestroyNoDetach,
                DestroyFree
  <2> QED
    BY <1>1, <2>1, <2>2, <2>3 DEF Step
<1>2. CASE Call(p)
  BY <1>2 DEF Call, SelfCall, InUserCode, CreateCall, JoinCall, DestroyCall
<1>3. CASE InitCall(p) \/ CleanupCall(p)
  BY <1>3 DEF InitCall, CleanupCall
<1> QED
  BY <1>1, <1>2, <1>3

\* Such a step changes the locals of its own thread only, and leaves or resets
\* the loop variable and the result.
LEMMA OutsideFrame ==
  ASSUME TypeOK, NEW p \in Procs,
         \/ Step(p) /\ ~TableStep(p)
         \/ Call(p) \/ InitCall(p) \/ CleanupCall(p)
  PROVE  /\ idx'[p] \in {idx[p], 0}
         /\ \A q \in Procs \ {p} : /\ pc'[q] = pc[q]
                                   /\ arg'[q] = arg[q]
                                   /\ idx'[q] = idx[q]
                                   /\ result'[q] = result[q]
<1> USE DEF TypeOK, Goto, Return, ForgetLocals
<1>1. CASE Step(p) /\ ~TableStep(p)
  <2>1. CASE CreateSpawn(p) \/ CreateNoThread(p) \/ CreateDone(p)
             \/ CreateRollback(p)
    BY <2>1 DEF CreateSpawn, CreateNoThread, CreateDone, CreateRollback
  <2>2. CASE JoinWait(p) \/ JoinFails(p) \/ JoinState(p) \/ JoinActive(p)
             \/ SelfReturn(p)
    BY <2>2 DEF JoinWait, JoinFails, JoinState, JoinActive, SelfReturn
  <2>3. CASE DestroyNotFound(p) \/ DestroyLook(p) \/ DestroyDetach(p)
             \/ DestroyNoDetach(p) \/ DestroyFree(p)
    BY <2>3 DEF DestroyNotFound, DestroyLook, DestroyDetach, DestroyNoDetach,
                DestroyFree
  <2> QED
    BY <1>1, <2>1, <2>2, <2>3 DEF Step
<1>2. CASE Call(p)
  <2>1. CASE SelfCall(p) \/ CreateCall(p)
    BY <2>1 DEF SelfCall, CreateCall
  <2>2. CASE \E t \in Threads : JoinCall(p, t) \/ DestroyCall(p, t)
    BY <2>2 DEF JoinCall, DestroyCall
  <2> QED
    BY <1>2, <2>1, <2>2 DEF Call
<1>3. CASE InitCall(p) \/ CleanupCall(p)
  BY <1>3 DEF InitCall, CleanupCall
<1> QED
  BY <1>1, <1>2, <1>3

\* The holder changes only where nobody holds the mutex.
LEMMA LockStep ==
  ASSUME TypeOK, LockInv, InitAlone, Act
  PROVE  LockInv'
<1> USE TableAssumption DEF TypeOK, MutexTypeOK, LockInv
<1>1. ASSUME NEW p \in Procs, TableStep(p) PROVE LockInv'
  <2> USE DEF Goto, mutexVars
  <2>1. CASE InitMutex(p)
    BY <2>1 DEF InitMutex, MutexInit, InitAlone, InitLabels, Holding
  <2>2. CASE InitLock(p) \/ RegLock(p) \/ UnregLock(p) \/ FindLock(p)
    BY <2>2 DEF InitLock, RegLock, UnregLock, FindLock, LockTable, MutexLock,
                Acquire, Holding
  <2>3. CASE InitUnlock(p) \/ RegUnlock(p) \/ UnregUnlock(p) \/ FindUnlock(p)
    BY <2>3 DEF InitUnlock, RegUnlock, UnregUnlock, FindUnlock, UnlockTable,
                MutexUnlock, Holding
  <2>4. CASE InitNoMutex(p) \/ InitClear(p)
    BY <2>4 DEF InitNoMutex, InitClear, Holding
  <2>5. CASE RegPass(p) \/ UnregPass(p) \/ FindPass(p)
    BY <2>5 DEF RegPass, UnregPass, FindPass, NextSlot, Holding
  <2>6. CASE RegTake(p) \/ RegFill(p) \/ UnregClear(p) \/ FindHit(p)
    BY <2>6 DEF RegTake, RegFill, UnregClear, FindHit, Holding
  <2> QED
    BY <1>1, <2>1, <2>2, <2>3, <2>4, <2>5, <2>6 DEF TableStep
<1>2. ASSUME NEW p \in Procs,
             \/ Step(p) /\ ~TableStep(p)
             \/ Call(p) \/ InitCall(p) \/ CleanupCall(p)
      PROVE  LockInv'
  BY <1>2, OutsideTable
<1>3. ASSUME NEW h \in Handles, Exit(h) PROVE LockInv'
  BY <1>3 DEF Exit, tableVars, mutexVars
<1> QED
  BY <1>1, <1>2, <1>3, ThreadAssumption DEF Act, Proceed

\* tt_thread_init stays alone: no call begins before it has returned.
LEMMA InitAloneStep ==
  ASSUME TypeOK, InitAlone, Act
  PROVE  InitAlone'
<1> USE TableAssumption, ThreadAssumption
    DEF TypeOK, InitAlone, InitLabels, Goto, Return
<1>1. ASSUME NEW p \in Procs, TableStep(p) PROVE InitAlone'
  <2>0. UNCHANGED os
    BY <1>1 DEF TableStep
  <2> USE <2>0
  <2>1. CASE InitMutex(p) \/ InitNoMutex(p)
    BY <2>1 DEF InitMutex, InitNoMutex
  <2>2. CASE InitLock(p) \/ InitClear(p) \/ InitUnlock(p)
    BY <2>2 DEF InitLock, InitClear, InitUnlock, LockTable, UnlockTable
  <2>3. CASE RegLock(p) \/ UnregLock(p) \/ FindLock(p) \/ RegUnlock(p)
             \/ UnregUnlock(p) \/ FindUnlock(p)
    BY <2>3 DEF RegLock, UnregLock, FindLock, RegUnlock, UnregUnlock,
                FindUnlock, LockTable, UnlockTable
  <2>4. CASE RegPass(p) \/ UnregPass(p) \/ FindPass(p)
    BY <2>4 DEF RegPass, UnregPass, FindPass, NextSlot
  <2>5. CASE RegTake(p) \/ RegFill(p) \/ UnregClear(p) \/ FindHit(p)
    BY <2>5 DEF RegTake, RegFill, UnregClear, FindHit
  <2> QED
    BY <1>1, <2>1, <2>2, <2>3, <2>4, <2>5 DEF TableStep
<1>2. ASSUME NEW p \in Procs, Step(p), ~TableStep(p) PROVE InitAlone'
  <2>1. /\ pc[p] \notin InitLabels \cup {"idle"}
        /\ \E l \in Labels \ InitLabels : pc' = [pc EXCEPT ![p] = l]
    BY <1>2 DEF Step, CreateSpawn, CreateNoThread, CreateDone, CreateRollback,
                JoinWait, JoinFails, JoinState, JoinActive, DestroyNotFound,
                DestroyLook, DestroyDetach, DestroyNoDetach, DestroyFree,
                SelfReturn, Labels, TableLabels
  <2>2. \A q \in Procs : pc[q] \notin InitLabels
    BY <2>1
  <2> QED
    BY <2>1, <2>2
<1>3. ASSUME NEW p \in Procs, Ready, Call(p) PROVE InitAlone'
  <2>1. \A q \in Procs : pc'[q] \notin InitLabels
    BY <1>3 DEF Ready, Call, SelfCall, InUserCode, CreateCall, JoinCall,
                DestroyCall
  <2> QED
    BY <2>1
<1>4. ASSUME NEW p \in Callers, Quiescent, InitCall(p) \/ CleanupCall(p)
      PROVE  InitAlone'
  BY <1>4 DEF Quiescent, InitCall, CleanupCall
<1>5. ASSUME NEW h \in Handles, Exit(h) PROVE InitAlone'
  BY <1>5 DEF Exit, InUserCode, tableVars
<1> QED
  BY <1>1, <1>2, <1>3, <1>4, <1>5 DEF Act, Proceed

\* Threads of the library only look themselves up, and exit outside of it.
LEMMA WorkerStep == Inv /\ Act => WorkerInv'
<1> SUFFICES ASSUME Inv, Act PROVE WorkerInv'
  OBVIOUS
<1> USE ThreadAssumption
    DEF TypeOK, WorkerInv, FindLabels, Goto, Return, OsStates
<1>0. TypeOK /\ WorkerInv
  BY DEF Inv
<1> USE <1>0
<1>1. ASSUME NEW p \in Procs, TableStep(p) PROVE WorkerInv'
  <2>0. UNCHANGED os
    BY <1>1 DEF TableStep
  <2> USE <2>0
  <2>1. CASE InitMutex(p) \/ InitNoMutex(p)
    BY <2>1 DEF InitMutex, InitNoMutex
  <2>2. CASE InitLock(p) \/ InitClear(p) \/ InitUnlock(p)
    BY <2>2 DEF InitLock, InitClear, InitUnlock, LockTable, UnlockTable
  <2>3. CASE RegLock(p) \/ UnregLock(p) \/ FindLock(p) \/ RegUnlock(p)
             \/ UnregUnlock(p) \/ FindUnlock(p)
    BY <2>3 DEF RegLock, UnregLock, FindLock, RegUnlock, UnregUnlock,
                FindUnlock, LockTable, UnlockTable
  <2>4. CASE RegPass(p) \/ UnregPass(p) \/ FindPass(p)
    BY <2>4 DEF RegPass, UnregPass, FindPass, NextSlot
  <2>5. CASE RegTake(p) \/ RegFill(p) \/ UnregClear(p) \/ FindHit(p)
    BY <2>5 DEF RegTake, RegFill, UnregClear, FindHit
  <2> QED
    BY <1>1, <2>1, <2>2, <2>3, <2>4, <2>5 DEF TableStep
<1>2. ASSUME NEW p \in Procs, Step(p), ~TableStep(p) PROVE WorkerInv'
  <2>1. CASE CreateSpawn(p)
    BY <2>1 DEF CreateSpawn
  <2>2. CASE CreateNoThread(p) \/ CreateDone(p) \/ CreateRollback(p)
    BY <2>2 DEF CreateNoThread, CreateDone, CreateRollback
  <2>3. CASE JoinWait(p)
    BY <2>3 DEF JoinWait
  <2>4. CASE JoinFails(p) \/ JoinState(p) \/ JoinActive(p) \/ SelfReturn(p)
    BY <2>4 DEF JoinFails, JoinState, JoinActive, SelfReturn
  <2>5. CASE DestroyNotFound(p) \/ DestroyLook(p) \/ DestroyNoDetach(p)
             \/ DestroyFree(p)
    BY <2>5 DEF DestroyNotFound, DestroyLook, DestroyNoDetach, DestroyFree
  <2>6. ~DestroyDetach(p)
    BY DEF Inv, CallInv, CallOf, DestroyDetach
  <2> QED
    BY <1>2, <2>1, <2>2, <2>3, <2>4, <2>5, <2>6 DEF Step
<1>3. ASSUME NEW p \in Procs, Call(p) PROVE WorkerInv'
  BY <1>3 DEF Call, SelfCall, InUserCode, CreateCall, JoinCall, DestroyCall
<1>4. ASSUME NEW p \in Callers, InitCall(p) \/ CleanupCall(p) PROVE WorkerInv'
  BY <1>4 DEF InitCall, CleanupCall
<1>5. ASSUME NEW h \in Handles, Exit(h) PROVE WorkerInv'
  BY <1>5 DEF Exit, InUserCode, tableVars
<1> QED
  BY <1>1, <1>2, <1>3, <1>4, <1>5 DEF Act, Proceed

\* A step of the table's functions changes the locals of its own thread only,
\* and none of the structures.
LEMMA TableFrame ==
  ASSUME TypeOK, NEW p \in Procs, TableStep(p)
  PROVE  /\ pc[p] \in TableLabels \ {"idle", "reg_ret", "unreg_ret", "find_ret"}
         /\ pc'[p] \in TableLabels
         /\ ~FindHit(p) => UNCHANGED arg
         /\ \A q \in Procs \ {p} : /\ pc'[q] = pc[q]
                                   /\ arg'[q] = arg[q]
                                   /\ idx'[q] = idx[q]
                                   /\ result'[q] = result[q]
         /\ UNCHANGED <<handle, allocated, state, active, os, mayJoin, mayDestroy>>
<1> USE DEF TypeOK, Goto, TableLabels, Holding
<1>0. UNCHANGED <<allocated, state, active, os, mayJoin, mayDestroy>>
  BY DEF TableStep, threadVars, rightVars
<1> USE <1>0
<1>1. CASE InitMutex(p) \/ InitNoMutex(p)
  BY <1>1 DEF InitMutex, InitNoMutex, FindHit
<1>2. CASE InitLock(p) \/ InitClear(p) \/ InitUnlock(p)
  BY <1>2 DEF InitLock, InitClear, InitUnlock, LockTable, UnlockTable
<1>3. CASE RegLock(p) \/ UnregLock(p) \/ FindLock(p) \/ RegUnlock(p)
           \/ UnregUnlock(p) \/ FindUnlock(p)
  BY <1>3 DEF RegLock, UnregLock, FindLock, RegUnlock, UnregUnlock,
              FindUnlock, LockTable, UnlockTable
<1>4. CASE RegPass(p) \/ UnregPass(p) \/ FindPass(p)
  BY <1>4 DEF RegPass, UnregPass, FindPass, NextSlot
<1>5. CASE RegTake(p) \/ RegFill(p) \/ UnregClear(p) \/ FindHit(p)
  BY <1>5 DEF RegTake, RegFill, UnregClear, FindHit
<1> QED
  BY <1>1, <1>2, <1>3, <1>4, <1>5 DEF TableStep

\* Three steps write the table.
LEMMA TableWriters ==
  ASSUME NEW p \in Procs, TableStep(p),
         ~(InitClear(p) \/ RegFill(p) \/ UnregClear(p))
  PROVE  UNCHANGED table
BY DEF TableStep, InitMutex, InitNoMutex, InitLock, InitUnlock, RegLock,
       RegPass, RegTake, RegUnlock, UnregLock, UnregPass, UnregUnlock,
       FindLock, FindPass, FindHit, FindUnlock, LockTable, UnlockTable

\* A caller goes on storing the end of its join until it has stored is_active.
LEMMA StoringStays ==
  ASSUME TypeOK, NEW p \in Procs, pc[p] # "join_active",
         Step(p) \/ Call(p) \/ InitCall(p) \/ CleanupCall(p)
  PROVE  \A t \in Threads : Storing(t) => Storing(t)'
BY TableFrame, OutsideFrame, ThreadAssumption DEF Storing

\* A structure is used between its allocation and its release.
LEMMA StructStep == Inv /\ Act => StructInv'
<1> SUFFICES ASSUME Inv, Act PROVE StructInv'
  OBVIOUS
<1> USE TableAssumption, ThreadAssumption
    DEF TypeOK, StructInv, States, Goto, Return, ForgetLocals
<1>0. TypeOK /\ StructInv /\ CallInv /\ WorkerInv
  BY DEF Inv
<1> USE <1>0
<1>1. ASSUME NEW p \in Procs, TableStep(p) PROVE StructInv'
  <2>1. UNCHANGED <<handle, allocated, state, active, mayJoin, mayDestroy>>
    BY <1>1, TableFrame
  <2>2. \A t \in Threads : Storing(t) => Storing(t)'
    BY <1>1, StoringStays, TableFrame DEF Step, TableLabels, Holding
  <2> QED
    BY <2>1, <2>2
<1>2. ASSUME NEW p \in Procs, Step(p), ~TableStep(p) PROVE StructInv'
  <2>0. pc[p] # "join_active" => \A t \in Threads : Storing(t) => Storing(t)'
    BY <1>2, StoringStays
  <2>1. CASE CreateSpawn(p)
    <3>1. PICK h \in Handles : handle' = [handle EXCEPT ![arg[p]] = h]
      BY <2>1 DEF CreateSpawn
    <3>2. /\ pc[p] = "create" /\ arg[p] \in allocated
          /\ UNCHANGED <<allocated, state, active, mayJoin, mayDestroy>>
      BY <2>1 DEF CreateSpawn, CallInv, CallOf, Works, threadVars, rightVars
    <3> QED
      BY <2>0, <3>1, <3>2
  <2>2. CASE CreateNoThread(p) \/ CreateRollback(p) \/ DestroyFree(p)
    <3>1. pc[p] # "join_active" /\ Free(arg[p])
      BY <2>2 DEF CreateNoThread, CreateRollback, DestroyFree
    <3> QED
      BY <2>0, <3>1 DEF Free
  <2>3. CASE CreateDone(p)
    <3>1. /\ pc[p] = "reg_ret"
          /\ mayJoin' = [mayJoin EXCEPT ![arg[p]] = p]
          /\ mayDestroy' = [mayDestroy EXCEPT ![arg[p]] = p]
          /\ UNCHANGED <<handle, allocated, state, active>>
      BY <2>3 DEF CreateDone, threadVars
    <3>2. /\ arg[p] \in allocated /\ handle[arg[p]] # NULL
          /\ mayDestroy[arg[p]] = NULL
      BY <3>1 DEF CallInv, CallOf, Works, Creates, RegLabels
    <3> QED
      BY <2>0, <3>1, <3>2
  <2>4. CASE JoinWait(p)
    <3>1. /\ pc[p] = "join_wait"
          /\ mayJoin' = [mayJoin EXCEPT ![arg[p]] = NULL]
          /\ UNCHANGED <<handle, allocated, state, active, mayDestroy>>
      BY <2>4 DEF JoinWait, threadVars
    <3> QED
      BY <2>0, <3>1
  <2>5. CASE JoinState(p)
    <3>1. /\ pc[p] = "join_state"
          /\ state' = [state EXCEPT ![arg[p]] = "TERMINATED"]
          /\ pc'[p] = "join_active" /\ UNCHANGED arg
          /\ UNCHANGED <<handle, allocated, active, mayJoin, mayDestroy>>
      BY <2>5 DEF JoinState, rightVars
    <3>2. mayJoin[arg[p]] = NULL /\ mayDestroy[arg[p]] # NULL
      BY <3>1 DEF CallInv, CallOf, JoinLabels
    <3>3. Storing(arg[p])'
      BY <3>1 DEF Storing, WorkerInv, FindLabels
    <3> QED
      BY <2>0, <3>1, <3>2, <3>3
  <2>6. CASE JoinActive(p)
    <3>1. /\ active' = active \ {arg[p]}
          /\ state[arg[p]] = "TERMINATED"
          /\ UNCHANGED <<handle, allocated, state, mayJoin, mayDestroy>>
      BY <2>6 DEF JoinActive, CallInv, CallOf, rightVars
    <3>2. \A t \in Threads \ {arg[p]} : Storing(t) => Storing(t)'
      BY <1>2, OutsideFrame DEF Storing
    <3> QED
      BY <3>1, <3>2
  <2>7. CASE JoinFails(p) \/ SelfReturn(p) \/ DestroyNotFound(p)
             \/ DestroyLook(p) \/ DestroyDetach(p) \/ DestroyNoDetach(p)
    <3>1. /\ pc[p] # "join_active"
          /\ UNCHANGED <<handle, allocated, state, active, mayJoin, mayDestroy>>
      BY <2>7 DEF JoinFails, SelfReturn, DestroyNotFound, DestroyLook,
                  DestroyDetach, DestroyNoDetach, threadVars, rightVars
    <3> QED
      BY <2>0, <3>1
  <2> QED
    BY <1>2, <2>1, <2>2, <2>3, <2>4, <2>5, <2>6, <2>7 DEF Step
<1>3. ASSUME NEW p \in Procs, Call(p) \/ InitCall(p) \/ CleanupCall(p)
      PROVE  StructInv'
  <2>0. \A t \in Threads : Storing(t) => Storing(t)'
    <3>1. pc[p] # "join_active"
      BY <1>3 DEF Call, SelfCall, InUserCode, CreateCall, JoinCall, DestroyCall,
                  InitCall, CleanupCall
    <3> QED
      BY <1>3, <3>1, StoringStays
  <2>1. CASE CreateCall(p)
    <3>1. UNCHANGED <<handle, mayJoin, mayDestroy>> /\ \E t \in Threads : Malloc(t)
      BY <2>1 DEF CreateCall, rightVars
    <3> QED
      BY <2>0, <3>1 DEF Malloc
  <2>2. CASE ~CreateCall(p)
    <3>1. UNCHANGED <<handle, allocated, state, active, mayJoin, mayDestroy>>
      BY <1>3, <2>2 DEF Call, SelfCall, JoinCall, DestroyCall, InitCall,
                        CleanupCall, threadVars, rightVars
    <3> QED
      BY <2>0, <3>1
  <2> QED
    BY <2>1, <2>2
<1>4. ASSUME NEW h \in Handles, Exit(h) PROVE StructInv'
  BY <1>4 DEF Exit, Storing, tableVars, threadVars, rightVars
<1> QED
  BY <1>1, <1>2, <1>3, <1>4 DEF Act, Proceed

\* The structure of a call stays its own until the call ends.
LEMMA CallStep == Inv /\ Act /\ (Proceed \/ Ordered) => CallInv'
<1> SUFFICES ASSUME Inv, Act, Proceed \/ Ordered PROVE CallInv'
  OBVIOUS
<1> USE TableAssumption, ThreadAssumption
    DEF TypeOK, CallInv, CallOf, Works, Creates, RegLabels, DestroyLabels, JoinLabels,
        Goto, Return, ForgetLocals
<1>0. TypeOK /\ StructInv /\ CallInv /\ CreateAlone /\ JoinAlone /\ WorkerInv
  BY DEF Inv
<1> USE <1>0
<1>1. ASSUME NEW p \in Procs, TableStep(p) PROVE CallInv'
  <2> USE <1>1, TableFrame
  <2>1. CASE InitMutex(p) \/ InitNoMutex(p)
    BY <2>1 DEF InitMutex, InitNoMutex, FindHit
  <2>2. CASE InitLock(p) \/ InitClear(p) \/ InitUnlock(p)
    BY <2>2 DEF InitLock, InitClear, InitUnlock, LockTable, UnlockTable
  <2>3. CASE RegLock(p) \/ UnregLock(p) \/ FindLock(p) \/ RegUnlock(p)
             \/ UnregUnlock(p) \/ FindUnlock(p)
    BY <2>3 DEF RegLock, UnregLock, FindLock, RegUnlock, UnregUnlock,
                FindUnlock, LockTable, UnlockTable
  <2>4. CASE RegPass(p) \/ UnregPass(p) \/ FindPass(p)
    BY <2>4 DEF RegPass, UnregPass, FindPass, NextSlot
  <2>5. CASE RegTake(p) \/ RegFill(p) \/ UnregClear(p)
    BY <2>5 DEF RegTake, RegFill, UnregClear
  <2>6. CASE FindHit(p)
    <3>1. pc'[p] = "find_unlock"
      BY <2>6 DEF FindHit
    <3> QED
      BY <3>1
  <2> QED
    BY <1>1, <2>1, <2>2, <2>3, <2>4, <2>5, <2>6 DEF TableStep
<1>2. ASSUME NEW p \in Procs, Step(p), ~TableStep(p) PROVE CallInv'
  <2>1. CASE CreateSpawn(p)
    <3>1. PICK h \in Handles : handle' = [handle EXCEPT ![arg[p]] = h]
      BY <2>1 DEF CreateSpawn
    <3>2. \A q \in Procs : q # p /\ Creates(q) => arg[q] # arg[p]
      BY <2>1 DEF CreateSpawn, CreateAlone
    <3> QED
      BY <2>1, <3>1, <3>2 DEF CreateSpawn, threadVars, rightVars
  <2>2. CASE CreateNoThread(p) \/ CreateRollback(p)
    <3>1. /\ Creates(p) /\ Free(arg[p])
          /\ pc' = [pc EXCEPT ![p] = "idle"]
          /\ arg' = [arg EXCEPT ![p] = NULL]
      BY <2>2 DEF CreateNoThread, CreateRollback
    <3>2. \A q \in Procs : q # p /\ Works(q) => arg[q] \in Threads \ {arg[p]}
      BY <3>1 DEF CreateAlone
    <3> QED
      BY <3>1, <3>2 DEF Free
  <2>3. CASE CreateDone(p)
    <3>1. /\ pc[p] = "reg_ret"
          /\ mayJoin' = [mayJoin EXCEPT ![arg[p]] = p]
          /\ mayDestroy' = [mayDestroy EXCEPT ![arg[p]] = p]
          /\ pc' = [pc EXCEPT ![p] = "idle"]
          /\ arg' = [arg EXCEPT ![p] = NULL]
          /\ UNCHANGED <<handle, allocated, state, active>>
      BY <2>3 DEF CreateDone, threadVars
    <3>2. \A q \in Procs : q # p /\ Works(q) => arg[q] \in Threads \ {arg[p]}
      BY <3>1 DEF CreateAlone
    <3>3. \A t \in Threads \ {arg[p]} :
            mayJoin'[t] = mayJoin[t] /\ mayDestroy'[t] = mayDestroy[t]
      BY <3>1
    <3>4. pc'[p] = "idle" /\ arg'[p] = NULL
          /\ \A q \in Procs \ {p} : pc'[q] = pc[q] /\ arg'[q] = arg[q]
      BY <3>1
    <3>5. UNCHANGED <<handle, allocated, state, active>>
      BY <3>1
    <3>6. ASSUME NEW q \in Procs, q # p PROVE CallOf(q)'
      <4>1. CASE Works(q)
        BY <3>2, <3>3, <3>4, <3>5, <3>6, <4>1
      <4>2. CASE ~Works(q)
        BY <3>4, <3>6, <4>2
      <4> QED
        BY <4>1, <4>2
    <3>7. CallOf(p)'
      BY <3>4
    <3> QED
      BY <3>6, <3>7
  <2>4. CASE JoinWait(p)
    <3>1. /\ pc[p] = "join_wait"
          /\ mayJoin' = [mayJoin EXCEPT ![arg[p]] = NULL]
          /\ pc' = [pc EXCEPT ![p] = "join_state"]
          /\ UNCHANGED <<handle, arg, allocated, state, active, mayDestroy>>
      BY <2>4 DEF JoinWait, threadVars
    <3>2. arg[p] \in Threads /\ mayJoin[arg[p]] = p
      BY <3>1
    <3>3. state[arg[p]] = "CREATED"
      BY <3>2 DEF StructInv, States
    <3>4. ASSUME NEW q \in Procs, q # p PROVE CallOf(q)'
      BY <3>1, <3>2, <3>4
    <3>5. CallOf(p)'
      BY <3>1, <3>2, <3>3
    <3> QED
      BY <3>4, <3>5
  <2>5. CASE JoinState(p)
    <3>1. /\ pc[p] = "join_state"
          /\ state' = [state EXCEPT ![arg[p]] = "TERMINATED"]
          /\ pc' = [pc EXCEPT ![p] = "join_active"]
          /\ UNCHANGED <<handle, arg, allocated, active, mayJoin, mayDestroy>>
      BY <2>5 DEF JoinState, rightVars
    <3>2. arg[p] \in Threads /\ arg[p] \in active
      BY <3>1 DEF StructInv
    <3>3. \A q \in Procs : q # p /\ pc[q] \in Joined => arg[q] # arg[p]
      BY <3>1 DEF JoinAlone, Joined
    <3> QED
      BY <3>1, <3>2, <3>3 DEF Joined
  <2>6. CASE JoinActive(p)
    <3>1. /\ pc[p] = "join_active"
          /\ active' = active \ {arg[p]}
          /\ pc' = [pc EXCEPT ![p] = "idle"]
          /\ arg' = [arg EXCEPT ![p] = NULL]
          /\ UNCHANGED <<handle, allocated, state, mayJoin, mayDestroy>>
      BY <2>6 DEF JoinActive, rightVars
    <3>2. \A q \in Procs : q # p /\ pc[q] \in Joined => arg[q] # arg[p]
      BY <3>1 DEF JoinAlone, Joined
    <3> QED
      BY <3>1, <3>2 DEF Joined
  <2>7. CASE JoinFails(p) \/ SelfReturn(p) \/ DestroyNotFound(p)
             \/ DestroyNoDetach(p)
    BY <2>7 DEF JoinFails, SelfReturn, DestroyNotFound, DestroyNoDetach,
                threadVars, rightVars
  <2>8. CASE DestroyFree(p)
    <3>1. /\ pc[p] = "destroy_free" /\ Free(arg[p])
          /\ pc' = [pc EXCEPT ![p] = "idle"]
          /\ arg' = [arg EXCEPT ![p] = NULL]
      BY <2>8 DEF DestroyFree
    <3>2. \A q \in Procs : q # p /\ Works(q) => arg[q] \in Threads \ {arg[p]}
      BY <3>1 DEF StructInv
    <3> QED
      BY <3>1, <3>2 DEF Free
  <2>9. CASE DestroyLook(p)
    <3>1. /\ pc[p] = "unreg_ret" /\ arg[p] \notin active
          /\ pc' = [pc EXCEPT ![p] = "destroy_free"]
          /\ UNCHANGED <<handle, arg, allocated, state, active, mayJoin, mayDestroy>>
      BY <2>9 DEF DestroyLook, threadVars, rightVars
    <3> QED
      BY <3>1
  <2>10. ~DestroyDetach(p)
    BY DEF DestroyDetach
  <2> QED
    BY <1>2, <2>1, <2>2, <2>3, <2>4, <2>5, <2>6, <2>7, <2>8, <2>9, <2>10 DEF Step
<1>3. ASSUME NEW p \in Procs, Call(p), Ordered PROVE CallInv'
  <2>1. CASE SelfCall(p)
    BY <2>1 DEF SelfCall, InUserCode, threadVars, rightVars
  <2>2. CASE p \in Callers /\ CreateCall(p)
    BY <2>2 DEF CreateCall, Malloc, rightVars, StructInv
  <2>3. ASSUME p \in Callers, NEW t \in Threads, JoinCall(p, t)
        PROVE  CallInv'
    BY <2>3 DEF JoinCall, StructInv, threadVars, rightVars
  <2>4. ASSUME p \in Callers, NEW t \in Threads, DestroyCall(p, t)
        PROVE  CallInv'
    <3>1. state[t] = "TERMINATED" /\ t \notin active
      BY <1>3, <2>4 DEF Ordered, DestroyCall, StructInv
    <3> QED
      BY <2>4, <3>1 DEF DestroyCall, StructInv, threadVars, rightVars
  <2> QED
    BY <1>3, <2>1, <2>2, <2>3, <2>4 DEF Call
<1>4. ASSUME NEW p \in Callers, InitCall(p) \/ CleanupCall(p) PROVE CallInv'
  BY <1>4 DEF InitCall, CleanupCall, threadVars, rightVars
<1>5. ASSUME NEW h \in Handles, Exit(h) PROVE CallInv'
  BY <1>5 DEF Exit, tableVars, threadVars, rightVars
<1> QED
  BY <1>1, <1>2, <1>3, <1>4, <1>5 DEF Act, Proceed

\* The right to join, which one caller has, is used up when pthread_join returns.
LEMMA JoinAloneStep ==
  ASSUME TypeOK, CallInv, JoinAlone, Act
  PROVE  JoinAlone'
<1> USE TableAssumption, ThreadAssumption DEF TypeOK, JoinAlone, Joined
<1>1. ASSUME NEW p \in Procs, TableStep(p) PROVE JoinAlone'
  BY <1>1, TableFrame DEF TableLabels, Holding
<1>2. ASSUME NEW p \in Procs, JoinWait(p) PROVE JoinAlone'
  <2>1. \A q \in Procs : pc[q] \in Joined => arg[q] # arg[p]
    BY <1>2 DEF JoinWait, CallInv, CallOf
  <2> QED
    BY <1>2, <2>1 DEF JoinWait, Goto
<1>3. ASSUME NEW p \in Procs, JoinState(p) PROVE JoinAlone'
  BY <1>3 DEF JoinState, Goto
<1>4. ASSUME NEW p \in Procs, ~JoinWait(p), ~JoinState(p),
             \/ Step(p) /\ ~TableStep(p)
             \/ Call(p) \/ InitCall(p) \/ CleanupCall(p)
      PROVE  JoinAlone'
  <2>1. pc'[p] \notin Joined
    <3> USE DEF Goto, Return
    <3>1. CASE Step(p) /\ ~TableStep(p)
      BY <1>4, <3>1
         DEF Step, CreateSpawn, CreateNoThread, CreateDone, CreateRollback,
             JoinFails, JoinActive, DestroyNotFound, DestroyLook,
             DestroyDetach, DestroyNoDetach, DestroyFree, SelfReturn
    <3>2. CASE Call(p) \/ InitCall(p) \/ CleanupCall(p)
      BY <3>2 DEF Call, SelfCall, CreateCall, JoinCall, DestroyCall, InitCall,
                  CleanupCall
    <3> QED
      BY <1>4, <3>1, <3>2
  <2> QED
    BY <1>4, <2>1, OutsideFrame
<1>5. ASSUME NEW h \in Handles, Exit(h) PROVE JoinAlone'
  BY <1>5 DEF Exit, tableVars
<1> QED
  BY <1>1, <1>2, <1>3, <1>4, <1>5 DEF Act, Proceed, Step

\* malloc gives a structure to one creation at a time.
LEMMA CreateAloneStep ==
  ASSUME TypeOK, CreateAlone, Act,
         \A p \in Procs : Creates(p) => arg[p] \in allocated
  PROVE  CreateAlone'
<1> USE TableAssumption, ThreadAssumption
    DEF TypeOK, CreateAlone, Creates, RegLabels, Goto, Return, ForgetLocals
<1>1. ASSUME NEW p \in Procs, TableStep(p) PROVE CreateAlone'
  <2>1. Creates(p)' => Creates(p) /\ UNCHANGED arg
    <3> USE DEF LockTable, UnlockTable, NextSlot
    <3>1. CASE \/ InitMutex(p) \/ InitNoMutex(p)
               \/ InitLock(p) \/ InitClear(p) \/ InitUnlock(p)
      BY <3>1 DEF InitMutex, InitNoMutex, InitLock, InitClear, InitUnlock
    <3>2. CASE RegLock(p) \/ RegPass(p) \/ RegTake(p) \/ RegFill(p) \/ RegUnlock(p)
      BY <3>2 DEF RegLock, RegPass, RegTake, RegFill, RegUnlock
    <3>3. CASE UnregLock(p) \/ UnregPass(p) \/ UnregClear(p) \/ UnregUnlock(p)
      BY <3>3 DEF UnregLock, UnregPass, UnregClear, UnregUnlock
    <3>4. CASE FindLock(p) \/ FindPass(p) \/ FindHit(p) \/ FindUnlock(p)
      BY <3>4 DEF FindLock, FindPass, FindHit, FindUnlock
    <3> QED
      BY <1>1, <3>1, <3>2, <3>3, <3>4 DEF TableStep
  <2> QED
    BY <1>1, <2>1, TableFrame
<1>2. ASSUME NEW p \in Procs, Step(p), ~TableStep(p) PROVE CreateAlone'
  <2>1. CASE CreateSpawn(p)
    BY <2>1 DEF CreateSpawn
  <2>2. CASE CreateNoThread(p) \/ CreateRollback(p) \/ CreateDone(p)
    BY <2>2 DEF CreateNoThread, CreateRollback, CreateDone
  <2>3. CASE JoinWait(p) \/ JoinFails(p) \/ JoinState(p) \/ JoinActive(p)
             \/ SelfReturn(p)
    BY <2>3 DEF JoinWait, JoinFails, JoinState, JoinActive, SelfReturn
  <2>4. CASE DestroyNotFound(p) \/ DestroyLook(p) \/ DestroyDetach(p)
             \/ DestroyNoDetach(p) \/ DestroyFree(p)
    BY <2>4 DEF DestroyNotFound, DestroyLook, DestroyDetach, DestroyNoDetach,
                DestroyFree
  <2> QED
    BY <1>2, <2>1, <2>2, <2>3, <2>4 DEF Step
<1>3. ASSUME NEW p \in Procs, Call(p) PROVE CreateAlone'
  <2>1. CASE SelfCall(p)
    BY <2>1 DEF SelfCall
  <2>2. CASE CreateCall(p)
    BY <2>2 DEF CreateCall, Malloc
  <2>3. ASSUME NEW t \in Threads, JoinCall(p, t) \/ DestroyCall(p, t)
        PROVE  CreateAlone'
    BY <2>3 DEF JoinCall, DestroyCall
  <2> QED
    BY <1>3, <2>1, <2>2, <2>3 DEF Call
<1>4. ASSUME NEW p \in Callers, InitCall(p) \/ CleanupCall(p) PROVE CreateAlone'
  BY <1>4 DEF InitCall, CleanupCall
<1>5. ASSUME NEW h \in Handles, Exit(h) PROVE CreateAlone'
  BY <1>5 DEF Exit, tableVars
<1> QED
  BY <1>1, <1>2, <1>3, <1>4, <1>5 DEF Act, Proceed

\* A handle is free when it is given to a thread, and stays taken until it is
\* joined.
LEMMA HandleStep == Inv /\ Act => HandleInv'
<1> SUFFICES ASSUME Inv, Act PROVE HandleInv'
  OBVIOUS
<1> USE TableAssumption, ThreadAssumption DEF TypeOK, HandleInv, Unjoined
<1>0. TypeOK /\ HandleInv /\ StructInv /\ CallInv /\ WorkerInv
  BY DEF Inv
<1> USE <1>0
<1>1. ASSUME NEW p \in Procs, TableStep(p) PROVE HandleInv'
  BY <1>1, TableFrame
<1>2. ASSUME NEW p \in Procs, Step(p), ~TableStep(p) PROVE HandleInv'
  <2>1. CASE CreateSpawn(p)
    <3>1. PICK h \in Handles :
            /\ os[h] = "free"
            /\ os' = [os EXCEPT ![h] = "running"]
            /\ handle' = [handle EXCEPT ![arg[p]] = h]
      BY <2>1 DEF CreateSpawn
    <3>2. UNCHANGED <<mayJoin, mayDestroy>> /\ arg[p] \in Threads
      BY <2>1 DEF CreateSpawn, rightVars, CallInv, CallOf, Works
    <3>3. \A u \in Threads : Unjoined(u) => handle[u] # h
      BY <3>1
    <3> QED
      BY <3>1, <3>2, <3>3
  <2>2. CASE CreateNoThread(p) \/ CreateRollback(p) \/ DestroyFree(p)
    <3>1. UNCHANGED os /\ \A t \in Threads : Unjoined(t)' => Unjoined(t)
                                             /\ handle'[t] = handle[t]
      BY <2>2 DEF CreateNoThread, CreateRollback, DestroyFree, Free
    <3> QED
      BY <3>1
  <2>3. CASE CreateDone(p)
    <3>1. UNCHANGED <<os, handle>>
      BY <2>3 DEF CreateDone
    <3>2. \A t \in Threads : Unjoined(t)' => Unjoined(t)
      BY <2>3 DEF CreateDone, CallInv, CallOf, Creates, RegLabels
    <3> QED
      BY <3>1, <3>2
  <2>4. CASE JoinWait(p)
    <3>1. arg[p] \in Threads /\ mayDestroy[arg[p]] # NULL /\ Unjoined(arg[p])
      BY <2>4 DEF JoinWait, CallInv, CallOf, Works, JoinLabels, StructInv
    <3>2. /\ os' = [os EXCEPT ![handle[arg[p]]] = "free"]
          /\ mayJoin' = [mayJoin EXCEPT ![arg[p]] = NULL]
          /\ UNCHANGED <<handle, mayDestroy>>
      BY <2>4 DEF JoinWait
    <3>3. \A u \in Threads : Unjoined(u)' => Unjoined(u) /\ u # arg[p]
      BY <3>1, <3>2
    <3> QED
      BY <3>1, <3>2, <3>3
  <2>5. CASE JoinFails(p) \/ JoinState(p) \/ JoinActive(p) \/ SelfReturn(p)
    BY <2>5 DEF JoinFails, JoinState, JoinActive, SelfReturn, rightVars
  <2>6. CASE DestroyNotFound(p) \/ DestroyLook(p) \/ DestroyNoDetach(p)
    BY <2>6 DEF DestroyNotFound, DestroyLook, DestroyNoDetach, rightVars
  <2>7. ~DestroyDetach(p)
    BY DEF CallInv, CallOf, DestroyDetach
  <2> QED
    BY <1>2, <2>1, <2>2, <2>3, <2>4, <2>5, <2>6, <2>7 DEF Step
<1>3. ASSUME NEW p \in Procs, Call(p) PROVE HandleInv'
  BY <1>3 DEF Call, SelfCall, CreateCall, JoinCall, DestroyCall, rightVars
<1>4. ASSUME NEW p \in Callers, InitCall(p) \/ CleanupCall(p) PROVE HandleInv'
  BY <1>4 DEF InitCall, CleanupCall, rightVars
<1>5. ASSUME NEW h \in Handles, Exit(h) PROVE HandleInv'
  BY <1>5 DEF Exit, InUserCode, WorkerInv, tableVars, rightVars
<1> QED
  BY <1>1, <1>2, <1>3, <1>4, <1>5 DEF Act, Proceed

\* Only the thread in the critical section writes the table, and it is alone.
LEMMA OneHolder ==
  ASSUME TypeOK, LockInv, NEW p \in Procs, NEW q \in Procs,
         pc[p] \in Holding, pc[q] \in Holding
  PROVE  p = q
BY DEF LockInv

\* A step that changes the table is made inside the critical section.
LEMMA WriterHolds ==
  ASSUME TypeOK, NEW p \in Procs, TableStep(p), pc[p] \notin Holding
  PROVE  UNCHANGED table
BY TableWriters DEF InitClear, RegFill, UnregClear, Holding

\* The loop ends after the last slot.
LEMMA LastSlot ==
  ASSUME NEW n \in Slots
  PROVE  /\ n + 1 \in Slots => \A i \in Slots : i < n + 1 => i < n \/ i = n
         /\ n + 1 \notin Slots => \A i \in Slots : i < n \/ i = n
BY TableAssumption DEF Slots

\* What a scan has seen stays true: nobody else writes the table.
LEMMA ScanStep ==
  ASSUME TypeOK, LockInv, ScanInv, Act,
         \A p \in Procs : pc[p] = "find_scan" => arg[p] = NULL
  PROVE  ScanInv'
<1> USE TableAssumption, ThreadAssumption DEF TypeOK, ScanInv, ScanOf
<1>1. ASSUME NEW p \in Procs, TableStep(p) PROVE ScanInv'
  <2>1. ASSUME NEW q \in Procs, q # p PROVE ScanOf(q)'
    <3>1. CASE pc[q] \in Holding
      BY <1>1, <2>1, <3>1, OneHolder, WriterHolds, TableFrame
    <3>2. CASE pc[q] \notin Holding
      BY <1>1, <2>1, <3>2, TableFrame DEF Holding
    <3> QED
      BY <3>1, <3>2
  <2>2. ScanOf(p)'
    <3> USE DEF Goto
    <3>1. CASE InitMutex(p) \/ InitNoMutex(p) \/ InitClear(p)
      BY <3>1 DEF InitMutex, InitNoMutex, InitClear
    <3>2. CASE InitLock(p) \/ FindLock(p) \/ InitUnlock(p) \/ RegUnlock(p)
               \/ UnregUnlock(p) \/ FindUnlock(p)
      BY <3>2 DEF InitLock, FindLock, InitUnlock, RegUnlock, UnregUnlock,
                  FindUnlock, LockTable, UnlockTable
    <3>3. CASE RegLock(p) \/ UnregLock(p)
      BY <3>3, ZeroSlot DEF RegLock, UnregLock, LockTable
    <3>4. CASE RegPass(p) \/ UnregPass(p)
      BY <3>4, LastSlot DEF RegPass, UnregPass, NextSlot
    <3>5. CASE FindPass(p)
      BY <3>5, ZeroSlot DEF FindPass, NextSlot
    <3>6. CASE RegTake(p) \/ RegFill(p) \/ UnregClear(p)
      BY <3>6 DEF RegTake, RegFill, UnregClear
    <3>7. CASE FindHit(p)
      BY <3>7 DEF FindHit
    <3> QED
      BY <1>1, <3>1, <3>2, <3>3, <3>4, <3>5, <3>6, <3>7 DEF TableStep
  <2> QED
    BY <2>1, <2>2
<1>2. ASSUME NEW p \in Procs,
             \/ Step(p) /\ ~TableStep(p)
             \/ Call(p) \/ InitCall(p) \/ CleanupCall(p)
      PROVE  ScanInv'
  BY <1>2, OutsideFrame, OutsideTable DEF Holding
<1>3. ASSUME NEW h \in Handles, Exit(h) PROVE ScanInv'
  BY <1>3 DEF Exit, tableVars
<1> QED
  BY <1>1, <1>2, <1>3, ThreadAssumption DEF Act, Proceed

\* A destroy finds the entry of its structure before the loop ends.
LEMMA UnregFinds ==
  ASSUME Inv, NEW p \in Procs, UnregPass(p)
  PROVE  idx[p] + 1 \in Slots
<1>1. PICK i \in Slots : table[i] = arg[p]
  BY DEF Inv, UnregPass, CallInv, CallOf, DestroyLabels, UnlistedLabels, Works,
         TableInv, TypeOK, StructInv
<1>2. ~(i < idx[p]) /\ i # idx[p]
  BY <1>1 DEF Inv, UnregPass, ScanInv, ScanOf
<1> QED
  BY <1>2, LastSlot DEF Inv, TypeOK

\* The result of a registration agrees with the table.
LEMMA ResultStep == Inv /\ Act => ResultInv'
<1> SUFFICES ASSUME Inv, Act PROVE ResultInv'
  OBVIOUS
<1> USE TableAssumption, ThreadAssumption
    DEF TypeOK, ResultInv, ResultOf, Creates, RegLabels, UnlistedLabels
<1>0. TypeOK /\ LockInv /\ InitAlone /\ StructInv /\ CallInv /\ CreateAlone
      /\ ScanInv /\ ResultInv /\ TableInv
  BY DEF Inv
<1> USE <1>0
<1>1. ASSUME NEW p \in Procs, TableStep(p) PROVE ResultInv'
  <2>1. ASSUME NEW q \in Procs, q # p PROVE ResultOf(q)'
    <3>0. /\ pc'[q] = pc[q] /\ arg'[q] = arg[q] /\ result'[q] = result[q]
      BY <1>1, <2>1, TableFrame
    <3>1. Creates(q) => arg[q] \in Threads /\ mayDestroy[arg[q]] = NULL
      BY DEF CallInv, CallOf, Works
    <3>2. CASE InitClear(p)
      BY <2>1, <3>0, <3>2 DEF InitClear, InitAlone, InitLabels
    <3>3. CASE RegFill(p)
      <4>1. table' = [table EXCEPT ![idx[p]] = arg[p]] /\ table[idx[p]] = NULL
        BY <3>3 DEF RegFill, ScanInv, ScanOf
      <4>2. Creates(q) => arg[q] # arg[p]
        BY <2>1, <3>3 DEF RegFill, CreateAlone
      <4> QED
        BY <3>0, <3>1, <4>1, <4>2
    <3>4. CASE UnregClear(p)
      <4>1. table' = [table EXCEPT ![idx[p]] = NULL] /\ table[idx[p]] = arg[p]
        BY <3>4 DEF UnregClear
      <4>2. Creates(q) => arg[q] # arg[p]
        BY <3>1, <3>4 DEF UnregClear, CallInv, CallOf, DestroyLabels
      <4> QED
        BY <3>0, <3>1, <4>1, <4>2
    <3>5. CASE UNCHANGED table
      BY <3>0, <3>5
    <3> QED
      BY <1>1, <3>2, <3>3, <3>4, <3>5, TableWriters
  <2>2. ResultOf(p)'
    <3> USE DEF Goto
    <3>1. CASE InitMutex(p) \/ InitNoMutex(p) \/ InitClear(p)
      BY <3>1 DEF InitMutex, InitNoMutex, InitClear
    <3>2. CASE InitLock(p) \/ InitUnlock(p) \/ FindLock(p) \/ FindUnlock(p)
               \/ RegLock(p) \/ UnregLock(p)
      BY <3>2 DEF InitLock, InitUnlock, FindLock, FindUnlock, RegLock,
                  UnregLock, LockTable, UnlockTable
    <3>3. CASE RegUnlock(p) \/ UnregUnlock(p)
      BY <3>3 DEF RegUnlock, UnregUnlock, UnlockTable
    <3>4. CASE RegPass(p) \/ FindPass(p)
      BY <3>4 DEF RegPass, FindPass, NextSlot
    <3>5. CASE UnregPass(p)
      BY <3>5, UnregFinds DEF UnregPass, NextSlot
    <3>6. CASE RegTake(p) \/ FindHit(p)
      BY <3>6 DEF RegTake, FindHit
    <3>7. CASE RegFill(p) \/ UnregClear(p)
      BY <3>7 DEF RegFill, UnregClear
    <3> QED
      BY <1>1, <3>1, <3>2, <3>3, <3>4, <3>5, <3>6, <3>7 DEF TableStep
  <2> QED
    BY <2>1, <2>2
<1>2. ASSUME NEW p \in Procs,
             \/ Step(p) /\ ~TableStep(p)
             \/ Call(p) \/ InitCall(p) \/ CleanupCall(p)
      PROVE  ResultInv'
  <2>1. ASSUME NEW q \in Procs, q # p PROVE ResultOf(q)'
    BY <1>2, <2>1, OutsideFrame, OutsideTable
  <2>2. ResultOf(p)'
    <3> USE DEF Goto, Return, ForgetLocals
    <3>1. CASE Step(p) /\ ~TableStep(p)
      <4>1. CASE CreateSpawn(p) \/ CreateNoThread(p) \/ CreateDone(p)
                 \/ CreateRollback(p)
        BY <4>1 DEF CreateSpawn, CreateNoThread, CreateDone, CreateRollback
      <4>2. CASE JoinWait(p) \/ JoinFails(p) \/ JoinState(p) \/ JoinActive(p)
                 \/ SelfReturn(p)
        BY <4>2 DEF JoinWait, JoinFails, JoinState, JoinActive, SelfReturn
      <4>3. CASE DestroyNotFound(p) \/ DestroyLook(p) \/ DestroyDetach(p)
                 \/ DestroyNoDetach(p) \/ DestroyFree(p)
        BY <4>3 DEF DestroyNotFound, DestroyLook, DestroyDetach,
                    DestroyNoDetach, DestroyFree
      <4> QED
        BY <3>1, <4>1, <4>2, <4>3 DEF Step
    <3>2. CASE SelfCall(p) \/ InitCall(p) \/ CleanupCall(p)
      BY <3>2 DEF SelfCall, InUserCode, InitCall, CleanupCall
    <3>3. CASE CreateCall(p)
      BY <3>3 DEF CreateCall, Malloc, TableInv
    <3>4. ASSUME NEW t \in Threads, JoinCall(p, t) \/ DestroyCall(p, t)
          PROVE  ResultOf(p)'
      BY <3>4 DEF JoinCall, DestroyCall
    <3> QED
      BY <1>2, <3>1, <3>2, <3>3, <3>4 DEF Call
  <2> QED
    BY <2>1, <2>2
<1>3. ASSUME NEW h \in Handles, Exit(h) PROVE ResultInv'
  BY <1>3 DEF Exit, tableVars
<1> QED
  BY <1>1, <1>2, <1>3, ThreadAssumption DEF Act, Proceed

\* A structure that a caller frees is not in the table.
LEMMA FreedIsUnlisted ==
  ASSUME Inv, NEW p \in Procs,
         CreateNoThread(p) \/ CreateRollback(p) \/ DestroyFree(p)
  PROVE  \A i \in Slots : table[i] # arg[p]
<1>1. CASE CreateNoThread(p) \/ CreateRollback(p)
  BY <1>1 DEF Inv, CreateNoThread, CreateRollback, ResultInv, ResultOf, Creates,
              RegLabels, UnlistedLabels
<1>2. CASE DestroyFree(p)
  BY <1>2, TableAssumption
     DEF Inv, TypeOK, DestroyFree, CallInv, CallOf, Works, DestroyLabels,
         UnlistedLabels, TableInv
<1> QED
  BY <1>1, <1>2

\* Registration adds an entry for a structure that has none, and unregistration
\* takes its only one.
LEMMA TableInvStep == Inv /\ Act => TableInv'
<1> SUFFICES ASSUME Inv, Act PROVE TableInv'
  OBVIOUS
<1> USE TableAssumption, ThreadAssumption DEF TypeOK, TableInv
<1>0. TypeOK /\ InitAlone /\ CallInv /\ ScanInv /\ ResultInv /\ TableInv
  BY DEF Inv
<1> USE <1>0
<1> DEFINE Out(t) == /\ arg[mayDestroy[t]] = t
                     /\ pc[mayDestroy[t]] \in UnlistedLabels
<1>1. ASSUME NEW p \in Procs, TableStep(p) PROVE TableInv'
  <2>0. UNCHANGED <<allocated, mayDestroy>>
    BY <1>1, TableFrame
  <2>1. CASE InitClear(p)
    <3>1. UNCHANGED table /\ UNCHANGED arg /\ \A t \in Threads :
            mayDestroy[t] # NULL => (Out(t)' <=> Out(t))
      BY <2>0, <2>1 DEF InitClear, InitAlone, InitLabels, Goto, UnlistedLabels
    <3> QED
      BY <2>0, <3>1
  <2>2. CASE RegFill(p)
    <3>1. /\ table' = [table EXCEPT ![idx[p]] = arg[p]]
          /\ table[idx[p]] = NULL
          /\ arg[p] \in allocated
          /\ mayDestroy[arg[p]] = NULL
          /\ \A i \in Slots : table[i] # arg[p]
      BY <2>2 DEF RegFill, ScanInv, ScanOf, CallInv, CallOf, Works, Creates,
                  RegLabels, ResultInv, ResultOf, UnlistedLabels
    <3>2. \A t \in Threads : mayDestroy[t] # NULL => (Out(t)' <=> Out(t))
      BY <2>0, <2>2 DEF RegFill, Goto, UnlistedLabels
    <3> QED
      BY <2>0, <3>1, <3>2
  <2>3. CASE UnregClear(p)
    <3>1. /\ table' = [table EXCEPT ![idx[p]] = NULL]
          /\ table[idx[p]] = arg[p]
          /\ arg[p] \in Threads
          /\ mayDestroy[arg[p]] = p
      BY <2>3 DEF UnregClear, CallInv, CallOf, Works, DestroyLabels
    <3>2. Out(arg[p])'
      BY <2>0, <2>3, <3>1 DEF UnregClear, Goto, UnlistedLabels
    <3>3. \A t \in Threads \ {arg[p]} : mayDestroy[t] # NULL => (Out(t)' <=> Out(t))
      BY <2>0, <2>3 DEF UnregClear, Goto, UnlistedLabels
    <3>4. \A i \in Slots : table'[i] = IF i = idx[p] THEN NULL ELSE table[i]
      BY <3>1
    <3>5. /\ \A i \in Slots : table'[i] # arg[p]
          /\ \A t \in Threads \ {arg[p]} :
               (\E i \in Slots : table'[i] = t) <=> (\E i \in Slots : table[i] = t)
      BY <3>1, <3>4
    <3>6. UNCHANGED arg
      BY <2>3 DEF UnregClear
    <3>7. ASSUME NEW t \in Threads, mayDestroy[t] # NULL
          PROVE  (\E i \in Slots : table'[i] = t) <=> ~Out(t)'
      <4>1. CASE t = arg[p]
        BY <3>2, <3>5, <3>6, <4>1
      <4>2. CASE t # arg[p]
        <5>1. (\E i \in Slots : table[i] = t) <=> ~Out(t)
          BY <3>7
        <5> QED
          BY <3>3, <3>5, <3>7, <4>2, <5>1
      <4> QED
        BY <4>1, <4>2
    <3> QED
      BY <2>0, <3>4, <3>7
  <2>4. CASE ~(InitClear(p) \/ RegFill(p) \/ UnregClear(p))
    <3>1. UNCHANGED table
      BY <1>1, <2>4, TableWriters
    <3>2. /\ pc'[p] \in UnlistedLabels <=> pc[p] \in UnlistedLabels
          /\ pc[p] \in UnlistedLabels => arg'[p] = arg[p]
      <4> USE DEF Goto, UnlistedLabels
      <4>1. CASE InitMutex(p) \/ InitNoMutex(p) \/ RegTake(p) \/ FindHit(p)
        BY <4>1 DEF InitMutex, InitNoMutex, RegTake, FindHit
      <4>2. CASE InitLock(p) \/ InitUnlock(p) \/ RegLock(p) \/ RegUnlock(p)
                 \/ UnregLock(p) \/ UnregUnlock(p) \/ FindLock(p)
                 \/ FindUnlock(p)
        BY <4>2 DEF InitLock, InitUnlock, RegLock, RegUnlock, UnregLock,
                    UnregUnlock, FindLock, FindUnlock, LockTable, UnlockTable
      <4>3. CASE RegPass(p) \/ FindPass(p)
        BY <4>3 DEF RegPass, FindPass, NextSlot
      <4>4. CASE UnregPass(p)
        BY <4>4, UnregFinds DEF UnregPass, NextSlot
      <4> QED
        BY <1>1, <2>4, <4>1, <4>2, <4>3, <4>4 DEF TableStep
    <3>3. \A t \in Threads : mayDestroy[t] # NULL => (Out(t)' <=> Out(t))
      BY <1>1, <2>0, <3>2, TableFrame
    <3> QED
      BY <2>0, <3>1, <3>3
  <2> QED
    BY <2>1, <2>2, <2>3, <2>4
<1>2. ASSUME NEW p \in Procs, Step(p), ~TableStep(p) PROVE TableInv'
  <2>0. UNCHANGED table
    BY <1>2, OutsideTable
  <2> USE <2>0 DEF Goto, Return, ForgetLocals, UnlistedLabels
  <2>1. CASE CreateSpawn(p)
    BY <2>1 DEF CreateSpawn, threadVars, rightVars
  <2>2. CASE CreateNoThread(p) \/ CreateRollback(p) \/ DestroyFree(p)
    <3>1. \A i \in Slots : table[i] # arg[p]
      BY <2>2, FreedIsUnlisted
    <3> QED
      BY <2>2, <3>1 DEF CreateNoThread, CreateRollback, DestroyFree, Free,
                        CallInv, CallOf, Works, RegLabels, DestroyLabels
  <2>3. CASE CreateDone(p)
    BY <2>3 DEF CreateDone, threadVars, ResultInv, ResultOf, Creates, RegLabels
  <2>4. CASE JoinWait(p) \/ JoinState(p)
    BY <2>4 DEF JoinWait, JoinState, threadVars, rightVars
  <2>5. CASE JoinFails(p) \/ JoinActive(p) \/ SelfReturn(p)
    BY <2>5 DEF JoinFails, JoinActive, SelfReturn, threadVars, rightVars
  <2>6. CASE DestroyLook(p)
    <3>1. /\ pc[p] \in UnlistedLabels /\ pc'[p] \in UnlistedLabels
          /\ UNCHANGED <<arg, allocated, mayDestroy>>
          /\ \A q \in Procs \ {p} : pc'[q] = pc[q]
      BY <2>6 DEF DestroyLook, threadVars, rightVars
    <3> QED
      BY <3>1
  <2>7. ~DestroyNotFound(p) /\ ~DestroyDetach(p) /\ ~DestroyNoDetach(p)
    BY DEF DestroyNotFound, DestroyDetach, DestroyNoDetach, ResultInv, ResultOf,
           CallInv, CallOf
  <2> QED
    BY <1>2, <2>1, <2>2, <2>3, <2>4, <2>5, <2>6, <2>7 DEF Step
<1>3. ASSUME NEW p \in Procs, Call(p) PROVE TableInv'
  <2>0. UNCHANGED table
    BY <1>3, OutsideTable
  <2> USE <2>0 DEF Goto, UnlistedLabels
  <2>1. CASE SelfCall(p)
    BY <2>1 DEF SelfCall, InUserCode, threadVars, rightVars
  <2>2. CASE CreateCall(p)
    BY <2>2 DEF CreateCall, Malloc, rightVars
  <2>3. ASSUME NEW t \in Threads, JoinCall(p, t) \/ DestroyCall(p, t)
        PROVE  TableInv'
    BY <2>3 DEF JoinCall, DestroyCall, threadVars, rightVars
  <2> QED
    BY <1>3, <2>1, <2>2, <2>3 DEF Call
<1>4. ASSUME NEW p \in Callers, InitCall(p) \/ CleanupCall(p) PROVE TableInv'
  BY <1>4 DEF InitCall, CleanupCall, Goto, UnlistedLabels, threadVars, rightVars
<1>5. ASSUME NEW h \in Handles, Exit(h) PROVE TableInv'
  BY <1>5 DEF Exit, tableVars, threadVars, rightVars
<1> QED
  BY <1>1, <1>2, <1>3, <1>4, <1>5 DEF Act, Proceed

\* A caller gives a right away only between its calls: no call counts on it.
LEMMA HandOffInv ==
  ASSUME Inv, NEW c \in Callers, NEW d \in Callers, NEW t \in Threads,
         HandOff(c, d, t)
  PROVE  Inv'
<1> USE TableAssumption, ThreadAssumption DEF Inv, TypeOK
<1>1. /\ pc[c] = "idle"
      /\ UNCHANGED <<mutexVars, tableVars, threadVars, os>>
  BY DEF HandOff
<1>2. \/ /\ mayJoin[t] = c
         /\ mayJoin' = [mayJoin EXCEPT ![t] = d]
         /\ UNCHANGED mayDestroy
      \/ /\ mayDestroy[t] = c
         /\ mayDestroy' = [mayDestroy EXCEPT ![t] = d]
         /\ UNCHANGED mayJoin
  BY DEF HandOff
<1>3. TypeOK' /\ LockInv' /\ InitAlone' /\ WorkerInv'
  BY <1>1, <1>2 DEF MutexTypeOK, LockInv, InitAlone, WorkerInv, mutexVars,
                    tableVars, threadVars
<1>4. StructInv'
  BY <1>1, <1>2 DEF StructInv, Storing, tableVars, threadVars
<1>5. CallInv'
  BY <1>1, <1>2 DEF CallInv, CallOf, Works, Creates, RegLabels, DestroyLabels,
                    JoinLabels, tableVars, threadVars
<1>6. CreateAlone' /\ JoinAlone' /\ ScanInv' /\ ResultInv'
  BY <1>1 DEF CreateAlone, Creates, JoinAlone, ScanInv, ScanOf, ResultInv,
              ResultOf, tableVars
<1>7. HandleInv'
  <2>1. UNCHANGED <<handle, os>> /\ \A u \in Threads : Unjoined(u)' <=> Unjoined(u)
    BY <1>1, <1>2 DEF Unjoined, tableVars
  <2> QED
    BY <2>1 DEF HandleInv
<1>8. TableInv'
  <2>1. \A q \in Procs : pc[q] \in DestroyLabels /\ arg[q] = t => mayDestroy[t] = q
    BY DEF CallInv, CallOf
  <2> QED
    BY <1>1, <1>2, <2>1 DEF TableInv, DestroyLabels, UnlistedLabels, tableVars,
                            threadVars
<1> QED
  BY <1>3, <1>4, <1>5, <1>6, <1>7, <1>8

-------------------------------------------------------------------------------
\* Nothing is allocated and nobody is in the library.
LEMMA InitInv == Init => Inv
<1> SUFFICES ASSUME Init PROVE Inv
  OBVIOUS
<1> USE TableAssumption, ThreadAssumption, ZeroSlot DEF Init, MutexZeroed
<1>1. TypeOK
  BY DEF TypeOK, MutexTypeOK, Labels, TableLabels, States, OsStates
<1>2. LockInv /\ InitAlone /\ WorkerInv /\ CreateAlone /\ JoinAlone
  BY DEF LockInv, InitAlone, WorkerInv, CreateAlone, JoinAlone, Joined, Holding,
         InitLabels, Creates, RegLabels
<1>3. StructInv /\ CallInv /\ HandleInv
  BY DEF StructInv, CallInv, CallOf, HandleInv, Unjoined, Works, Creates, RegLabels,
         DestroyLabels, JoinLabels
<1>4. ScanInv /\ ResultInv /\ TableInv
  BY DEF ScanInv, ScanOf, ResultInv, ResultOf, TableInv, Creates, RegLabels,
         UnlistedLabels
<1> QED
  BY <1>1, <1>2, <1>3, <1>4 DEF Inv

\* Inv reads the variables only.
LEMMA StutterInv == Inv /\ UNCHANGED vars => Inv'
<1> SUFFICES ASSUME Inv, UNCHANGED vars PROVE Inv'
  OBVIOUS
<1> USE DEF Inv, vars, mutexVars, tableVars, threadVars, rightVars
<1>1. TypeOK' /\ LockInv' /\ InitAlone' /\ WorkerInv'
  BY DEF TypeOK, MutexTypeOK, LockInv, InitAlone, WorkerInv
<1>2. StructInv' /\ CallInv' /\ CreateAlone' /\ JoinAlone' /\ HandleInv'
  BY DEF StructInv, Storing, CallInv, CallOf, CreateAlone, JoinAlone, HandleInv,
         Unjoined, Works, Creates
<1>3. ScanInv' /\ ResultInv' /\ TableInv'
  BY DEF ScanInv, ScanOf, ResultInv, ResultOf, TableInv, Creates
<1> QED
  BY <1>1, <1>2, <1>3

\* The invariant holds in every state the library can reach when its callers
\* keep to the discipline of Spec, whatever the number of callers, threads and
\* slots.
THEOREM Invariance == Spec => []Inv
<1>1. ASSUME Inv, Act, Proceed \/ Ordered PROVE Inv'
  <2>1. TypeOK' /\ LockInv' /\ InitAlone'
    BY <1>1, TypeStep, LockStep, InitAloneStep DEF Inv, WorkerInv
  <2>2. CreateAlone' /\ JoinAlone'
    BY <1>1, CreateAloneStep, JoinAloneStep DEF Inv, CallInv, CallOf, Works, Creates
  <2>3. ScanInv'
    BY <1>1, ScanStep
       DEF Inv, CallInv, CallOf, Works, RegLabels, DestroyLabels, JoinLabels
  <2> QED
    BY <1>1, <2>1, <2>2, <2>3, WorkerStep, StructStep, CallStep, HandleStep,
       ResultStep, TableInvStep DEF Inv
<1>2. Inv /\ [Next]_vars => Inv'
  BY <1>1, HandOffInv, StutterInv DEF Next, Act
<1> QED
  BY InitInv, <1>2, PTL DEF Spec

\* Every variable stays in its range; in particular no loop runs off the table.
THEOREM TypeCorrectness == Spec => []TypeOK
<1>1. Inv => TypeOK
  BY DEF Inv
<1> QED
  BY Invariance, <1>1, PTL

\* The thread in a critical section of the table holds the pthread mutex that
\* the mutex of the table points to.
THEOREM TableIsExclusive == Spec => []MutualExclusion
<1>1. Inv => MutualExclusion
  BY DEF Inv, LockInv, MutualExclusion
<1> QED
  BY Invariance, <1>1, PTL

\* Entries never point to a structure that has been freed.
THEOREM EntriesAreSound == Spec => []NoDanglingEntry
<1>1. Inv => NoDanglingEntry
  BY DEF Inv, TableInv, NoDanglingEntry
<1> QED
  BY Invariance, <1>1, PTL

\* No structure has two entries, so that unregister leaves none behind.
THEOREM EntriesAreSingle == Spec => []OneEntryEach
<1>1. Inv => OneEntryEach
  BY DEF Inv, TableInv, OneEntryEach
<1> QED
  BY Invariance, <1>1, PTL

\* A registration is refused only by a full table.
THEOREM RefusedOnlyWhenFull == Spec => []FullWhenRefused
<1>1. Inv => FullWhenRefused
  BY DEF Inv, ScanInv, ScanOf, FullWhenRefused
<1> QED
  BY Invariance, <1>1, PTL

\* tt_thread_destroy always finds the entry of the thread.
THEOREM DestroyFindsEntry == Spec => []PublishedIsListed
<1>1. ASSUME Inv PROVE PublishedIsListed
  <2>1. ASSUME NEW t \in Threads, mayDestroy[t] # NULL,
               \A i \in Slots : table[i] # t
        PROVE  \E p \in Callers : arg[p] = t /\ result[p] = "SUCCESS"
    <3>1. mayDestroy[t] \in Callers /\ mayDestroy[t] \in Procs
      BY <1>1, <2>1, ThreadAssumption DEF Inv, TypeOK
    <3>2. /\ arg[mayDestroy[t]] = t
          /\ pc[mayDestroy[t]] \in UnlistedLabels
      BY <1>1, <2>1 DEF Inv, TableInv
    <3> QED
      BY <1>1, <3>1, <3>2 DEF Inv, ResultInv, ResultOf
  <2>2. \A p \in Procs : pc[p] = "unreg_ret" => result[p] = "SUCCESS"
    BY <1>1 DEF Inv, ResultInv, ResultOf, UnlistedLabels
  <2> QED
    BY <2>1, <2>2 DEF PublishedIsListed
<1> QED
  BY Invariance, <1>1, PTL

\* pthread_join is given the handle of the thread it is meant for.
THEOREM JoinIsRight == Spec => []JoinFindsItsThread
<1>1. Inv => JoinFindsItsThread
  BY TableAssumption
     DEF Inv, TypeOK, StructInv, HandleInv, Unjoined, JoinFindsItsThread
<1> QED
  BY Invariance, <1>1, PTL

\* Only the structure of a joined thread is destroyed, with nothing to detach.
THEOREM DestroyAfterJoin == Spec => []DestroyedIsJoined
<1>1. Inv => DestroyedIsJoined
  BY DEF Inv, TypeOK, StructInv, CallInv, CallOf, Works, DestroyLabels,
         DestroyedIsJoined
<1> QED
  BY Invariance, <1>1, PTL

\* No call works on a structure that has been freed.
THEOREM CallsUseLiveStructures == Spec => []NoUseAfterFree
<1>1. Inv => NoUseAfterFree
  BY DEF Inv, TableInv, CallInv, CallOf, ScanInv, ScanOf, NoUseAfterFree
<1> QED
  BY Invariance, <1>1, PTL

\* An entry leaves the table by the destroy of its thread and in no other way.
LEMMA KeptStep ==
  ASSUME TypeOK, InitAlone, ScanInv, Act,
         \A h \in Handles : pc[h] \in FindLabels \cup {"idle"},
         \A p \in Procs : pc[p] = "unreg_scan" => mayDestroy[arg[p]] = p
  PROVE  \A i \in Slots : Kept(i)
<1> USE TableAssumption DEF TypeOK, Kept
<1>1. ASSUME NEW p \in Procs, TableStep(p) PROVE \A i \in Slots : Kept(i)
  <2>1. CASE InitClear(p)
    BY <2>1 DEF InitClear, InitAlone, InitLabels
  <2>2. CASE RegFill(p)
    BY <2>2 DEF RegFill, ScanInv, ScanOf
  <2>3. CASE UnregClear(p)
    <3>1. p \in Callers
      BY <2>3, ThreadAssumption DEF UnregClear, FindLabels
    <3> QED
      BY <2>3, <3>1 DEF UnregClear
  <2>4. CASE UNCHANGED table
    BY <2>4
  <2> QED
    BY <1>1, <2>1, <2>2, <2>3, <2>4, TableWriters
<1>2. ASSUME NEW p \in Procs,
             \/ Step(p) /\ ~TableStep(p)
             \/ Call(p) \/ InitCall(p) \/ CleanupCall(p)
      PROVE  \A i \in Slots : Kept(i)
  BY <1>2, OutsideTable
<1>3. ASSUME NEW h \in Handles, Exit(h) PROVE \A i \in Slots : Kept(i)
  BY <1>3 DEF Exit, tableVars
<1> QED
  BY <1>1, <1>2, <1>3, ThreadAssumption DEF Act, Proceed

\* The entry of a thread is kept until its creator destroys it.
THEOREM EntriesAreKept == Spec => EntryKept
<1>1. ASSUME Inv, Act PROVE \A i \in Slots : Kept(i)
  BY <1>1, KeptStep DEF Inv, WorkerInv, CallInv, CallOf, DestroyLabels
<1>2. ASSUME UNCHANGED table PROVE \A i \in Slots : Kept(i)
  BY <1>2 DEF Kept
<1>3. Inv /\ [Next]_vars => [\A i \in Slots : Kept(i)]_vars
  BY <1>1, <1>2 DEF Next, Act, HandOff, tableVars
<1> QED
  BY Invariance, <1>3, PTL DEF Spec, EntryKept
===============================================================================

---------------------------- MODULE ErrorCtxProofs ----------------------------
(***************************************************************************)
(* Inv is an invariant of ErrorCtx!Spec, its safety properties follow from *)
(* it, and the error system implements ErrorService.  A step is a step of  *)
(* tt_error_init, which runs alone (InitAlone); taking or releasing the    *)
(* mutex; a step in the critical section, where the thread is alone        *)
(* (OneHolder); or a step that touches neither mutex nor context.          *)
(***************************************************************************)
EXTENDS ErrorCtxInv, TLAPS

InitStep(p) ==
  InitMutex(p) \/ InitNoMutex(p) \/ InitLast(p) \/ InitCallback(p) \/ InitOpen(p)

LockStep(p) == DeinitLock(p) \/ GetLock(p) \/ SetLock(p) \/ RegisterLock(p)

UnlockStep(p) ==
  DeinitUnlock(p) \/ GetUnlock(p) \/ SetUnlock(p) \/ RegisterUnlock(p)

CriticalStep(p) ==
  \/ DeinitCallback(p) \/ DeinitOpen(p) \/ GetRead(p)
  \/ SetStore(p) \/ SetTake(p) \/ RegisterStore(p)

\* The kinds of steps are all of them.
LEMMA Kinds ==
  ASSUME Next
  PROVE  \E p \in Procs :
           \/ InitStep(p) \/ LockStep(p) \/ UnlockStep(p) \/ CriticalStep(p)
           \/ SetReport(p) \/ Client(p) \/ (Quiescent /\ InitCall(p))
<1>1. CASE Quiescent /\ \E p \in Procs : InitCall(p)
  BY <1>1
<1>2. ASSUME NEW p \in Procs, Step(p)
      PROVE  InitStep(p) \/ LockStep(p) \/ UnlockStep(p) \/ CriticalStep(p)
               \/ SetReport(p)
  BY <1>2, Zenon DEF Step, InitStep, LockStep, UnlockStep, CriticalStep
<1>3. CASE \E p \in Procs : Step(p) \/ Client(p)
  BY <1>2, <1>3
<1> QED
  BY <1>1, <1>3 DEF Next

\* Two threads are not in the critical section together.
LEMMA OneHolder ==
  ASSUME LockInv, NEW p \in Procs, NEW q \in Procs,
         pc[p] \in Holding, pc[q] \in Holding
  PROVE  p = q
BY DEF LockInv

\* Types: callbacks nest no deeper than the bound, and are told of errors only.
LEMMA TypeStep == Inv /\ Next => TypeOK'
<1> SUFFICES ASSUME Inv, Next PROVE TypeOK'
  OBVIOUS
<1> USE CtxAssumption DEF TypeOK, MutexTypeOK
<1>0. TypeOK /\ LockInv /\ DepthInv
  BY DEF Inv
<1> USE <1>0
<1>1. \A l \in Labels, p \in Procs : [pc EXCEPT ![p] = l] \in [Procs -> Labels]
  OBVIOUS
<1>2. "idle" \in Labels /\ "callback" \in Labels
  BY DEF Labels, ClientLabels
<1>3. ASSUME NEW p \in Procs, InitStep(p) PROVE TypeOK'
  <2>1. CASE InitMutex(p)
    BY <1>1, <2>1 DEF InitMutex, MutexInit, Goto, Labels, InitLabels, ctxVars,
                      localVars
  <2>2. CASE InitNoMutex(p)
    BY <1>1, <1>2, <2>2 DEF InitNoMutex, Goto, Return, mutexVars, ctxVars,
                            Codes, Functions
  <2>3. CASE InitLast(p) \/ InitCallback(p)
    BY <1>1, <2>3 DEF InitLast, InitCallback, Goto, Labels, InitLabels,
                      mutexVars, localVars, Codes, Functions
  <2>4. CASE InitOpen(p)
    BY <1>1, <1>2, <2>4 DEF InitOpen, Goto, Return, mutexVars, Codes, Functions
  <2> QED
    BY <1>3, <2>1, <2>2, <2>3, <2>4 DEF InitStep
<1>4. ASSUME NEW p \in Procs, LockStep(p) PROVE TypeOK'
  BY <1>1, <1>4
     DEF LockStep, DeinitLock, GetLock, SetLock, RegisterLock, LockCtx,
         MutexLock, Acquire, Goto, Labels, Holding, ctxVars, localVars
<1>5. ASSUME NEW p \in Procs, UnlockStep(p) PROVE TypeOK'
  <2>1. CASE SetUnlock(p)
    BY <1>1, <2>1 DEF SetUnlock, MutexUnlock, Goto, Labels, ctxVars, localVars
  <2>2. ASSUME NEW l, UnlockReturn(p, l) PROVE TypeOK'
    BY <1>1, <1>2, <2>2 DEF UnlockReturn, MutexUnlock, Goto, Return, ctxVars,
                            Codes, Functions
  <2> QED
    BY <1>5, <2>1, <2>2 DEF UnlockStep, DeinitUnlock, GetUnlock, RegisterUnlock
<1>6. ASSUME NEW p \in Procs, CriticalStep(p) PROVE TypeOK'
  <2>1. CASE DeinitCallback(p) \/ DeinitOpen(p)
    BY <1>1, <2>1 DEF DeinitCallback, DeinitOpen, Goto, Labels, Holding,
                      mutexVars, localVars, Functions
  <2>2. CASE GetRead(p) \/ SetTake(p)
    BY <1>1, <2>2 DEF GetRead, SetTake, Goto, Labels, Holding, mutexVars,
                      ctxVars, localVars
  <2>3. CASE SetStore(p) \/ RegisterStore(p)
    BY <1>1, <2>3 DEF SetStore, RegisterStore, Goto, Labels, Holding, mutexVars,
                      localVars
  <2> QED
    BY <1>6, <2>1, <2>2, <2>3 DEF CriticalStep
<1>7. ASSUME NEW p \in Procs, SetReport(p) PROVE TypeOK'
  <2>1. CASE cb[p] # NULL /\ err[p] # SUCCESS
    <3>1. depth[p] + 1 \in 0 .. MaxDepth
      BY <1>7, <2>1 DEF SetReport, Report, DepthInv, SetLabels
    <3>2. <<cb[p], err[p]>> \in Callbacks \X Errors
      BY <2>1 DEF Codes, Functions
    <3> QED
      BY <1>1, <1>2, <1>7, <2>1, <3>1, <3>2
         DEF SetReport, Report, Goto, mutexVars, ctxVars, Codes, Functions
  <2>2. CASE ~(cb[p] # NULL /\ err[p] # SUCCESS)
    BY <1>1, <1>2, <1>7, <2>2
       DEF SetReport, Report, Goto, mutexVars, ctxVars, Codes, Functions
  <2> QED
    BY <2>1, <2>2
<1>8. ASSUME NEW p \in Procs, Client(p) PROVE TypeOK'
  <2>1. CASE CallbackReturn(p)
    <3>1. depth[p] - 1 \in 0 .. MaxDepth
      BY <2>1 DEF CallbackReturn, DepthInv
    <3> QED
      BY <1>1, <1>2, <2>1, <3>1
         DEF CallbackReturn, Goto, mutexVars, ctxVars, localVars
  <2>2. CASE DeinitCall(p) \/ GetCall(p)
    BY <1>1, <2>2 DEF DeinitCall, GetCall, Admitted, Goto, Labels, Waiting,
                      mutexVars, ctxVars, localVars
  <2>3. ASSUME NEW e \in Codes, SetCall(p, e) PROVE TypeOK'
    BY <1>1, <2>3 DEF SetCall, Admitted, Goto, Labels, Waiting, mutexVars, ctxVars
  <2>4. ASSUME NEW f \in Functions, RegisterCall(p, f) PROVE TypeOK'
    BY <1>1, <2>4 DEF RegisterCall, Admitted, Goto, Labels, Waiting, mutexVars,
                      ctxVars
  <2> QED
    BY <1>8, <2>1, <2>2, <2>3, <2>4 DEF Client
<1>9. ASSUME NEW p \in Procs, InitCall(p) PROVE TypeOK'
  BY <1>1, <1>9 DEF InitCall, Goto, Labels, InitLabels, mutexVars, ctxVars, localVars
<1> QED
  BY Kinds, <1>3, <1>4, <1>5, <1>6, <1>7, <1>8, <1>9

\* A step outside of init, lock and unlock leaves the mutex alone, and where it
\* goes in or out of the critical section it does not.
LEMMA MutexKept ==
  ASSUME TypeOK, NEW p \in Procs,
         CriticalStep(p) \/ SetReport(p) \/ Client(p) \/ InitCall(p)
  PROVE  /\ UNCHANGED mutexVars
         /\ \E l \in Labels :
              /\ pc' = [pc EXCEPT ![p] = l]
              /\ l \in Holding <=> pc[p] \in Holding
              /\ l \in Waiting => open
              /\ l \in InitLabels <=> InitCall(p)
         /\ open' # open => DeinitOpen(p)
         /\ open' => open
<1> USE DEF Goto, Labels, Holding, Waiting, InitLabels, ClientLabels, ctxVars
<1>1. CASE CriticalStep(p)
  BY <1>1 DEF CriticalStep, DeinitCallback, DeinitOpen, GetRead, SetStore,
              SetTake, RegisterStore, InitCall
<1>2. CASE SetReport(p)
  BY <1>2 DEF SetReport, Report, InitCall
<1>3. CASE Client(p)
  BY <1>3 DEF Client, DeinitCall, GetCall, SetCall, RegisterCall, Admitted,
              CallbackReturn, InitCall
<1>4. CASE InitCall(p)
  BY <1>4 DEF InitCall
<1> QED
  BY <1>1, <1>2, <1>3, <1>4

\* The mutex is replaced only where nobody holds it.
LEMMA LockInvStep == Inv /\ Next => LockInv'
<1> SUFFICES ASSUME Inv, Next PROVE LockInv'
  OBVIOUS
<1> USE CtxAssumption DEF TypeOK, MutexTypeOK, LockInv
<1>0. TypeOK /\ LockInv /\ InitAlone
  BY DEF Inv
<1> USE <1>0
<1>1. ASSUME NEW p \in Procs, InitStep(p) PROVE LockInv'
  <2>1. /\ pc[p] \in InitLabels
        /\ \A q \in Procs : q # p => pc[q] = "idle"
        /\ \A q \in Procs, o \in MutexObjs : owner[o] # q
    BY <1>1 DEF InitStep, InitMutex, InitNoMutex, InitLast, InitCallback,
                InitOpen, InitAlone, InitLabels, Holding
  <2>2. CASE InitMutex(p)
    BY <2>1, <2>2 DEF InitMutex, MutexInit, Goto, Waiting, Holding, ctxVars
  <2>3. CASE InitNoMutex(p) \/ InitLast(p) \/ InitCallback(p)
    BY <2>1, <2>3 DEF InitNoMutex, InitLast, InitCallback, Goto, Return,
                      Waiting, Holding, mutexVars, ctxVars
  <2>4. CASE InitOpen(p)
    <3>1. initialized
      BY <2>4 DEF InitOpen, InitAlone, InitLabels
    <3> QED
      BY <2>1, <2>4, <3>1 DEF InitOpen, Goto, Return, Waiting, Holding, mutexVars
  <2> QED
    BY <1>1, <2>2, <2>3, <2>4 DEF InitStep
<1>2. ASSUME NEW p \in Procs, LockStep(p) PROVE LockInv'
  BY <1>2 DEF LockStep, DeinitLock, GetLock, SetLock, RegisterLock, LockCtx,
              MutexLock, Acquire, Goto, Waiting, Holding, ctxVars
<1>3. ASSUME NEW p \in Procs, UnlockStep(p) PROVE LockInv'
  BY <1>3 DEF UnlockStep, DeinitUnlock, GetUnlock, SetUnlock, RegisterUnlock,
              UnlockReturn, MutexUnlock, Goto, Return, Waiting, Holding, ctxVars
<1>4. ASSUME NEW p \in Procs,
             CriticalStep(p) \/ SetReport(p) \/ Client(p) \/ InitCall(p)
      PROVE  LockInv'
  BY <1>4, MutexKept DEF mutexVars
<1> QED
  BY Kinds, <1>1, <1>2, <1>3, <1>4

\* tt_error_init stays alone: the other calls find the context closed.
LEMMA InitAloneStep == Inv /\ Next => InitAlone'
<1> SUFFICES ASSUME Inv, Next PROVE InitAlone'
  OBVIOUS
<1> USE CtxAssumption DEF TypeOK, InitAlone
<1>0. TypeOK /\ InitAlone /\ LockInv /\ DepthInv
  BY DEF Inv
<1> USE <1>0
<1>1. ASSUME NEW p \in Procs, InitStep(p) PROVE InitAlone'
  BY <1>1 DEF InitStep, InitMutex, MutexInit, InitNoMutex, InitLast,
              InitCallback, InitOpen, Goto, Return, InitLabels, mutexVars, ctxVars
<1>2. ASSUME NEW p \in Procs, LockStep(p) \/ UnlockStep(p) PROVE InitAlone'
  <2>1. \A q \in Procs : pc[q] \notin InitLabels
    BY <1>2 DEF LockStep, DeinitLock, GetLock, SetLock, RegisterLock, LockCtx,
                UnlockStep, DeinitUnlock, GetUnlock, SetUnlock, RegisterUnlock,
                UnlockReturn, InitLabels
  <2>2. \E l \in Labels \ InitLabels : pc' = [pc EXCEPT ![p] = l]
    BY <1>2 DEF LockStep, DeinitLock, GetLock, SetLock, RegisterLock, LockCtx,
                UnlockStep, DeinitUnlock, GetUnlock, SetUnlock, RegisterUnlock,
                UnlockReturn, Goto, Return, InitLabels, Labels, Holding,
                ClientLabels
  <2> QED
    BY <2>1, <2>2
<1>3. ASSUME NEW p \in Procs, CriticalStep(p) \/ SetReport(p) \/ Client(p)
      PROVE  InitAlone'
  <2>1. \A q \in Procs : pc[q] \notin InitLabels
    BY <1>3 DEF CriticalStep, DeinitCallback, DeinitOpen, GetRead, SetStore,
                SetTake, RegisterStore, SetReport, Report, Client, DeinitCall,
                GetCall, SetCall, RegisterCall, Admitted, CallbackReturn,
                InitLabels, ClientLabels
  <2>2. ~InitCall(p)
    BY <1>3 DEF CriticalStep, DeinitCallback, DeinitOpen, GetRead, SetStore,
                SetTake, RegisterStore, SetReport, Report, Client, DeinitCall,
                GetCall, SetCall, RegisterCall, Admitted, CallbackReturn,
                InitCall, ClientLabels, Goto
  <2> QED
    BY <1>3, <2>1, <2>2, MutexKept
<1>4. ASSUME NEW p \in Procs, Quiescent, InitCall(p) PROVE InitAlone'
  BY <1>4 DEF Quiescent, InitCall, Goto, DepthInv, InitLabels, ctxVars
<1> QED
  BY Kinds, <1>1, <1>2, <1>3, <1>4

\* init stores before it opens, and nothing runs beside it; deinit holds the mutex.
LEMMA StoredStep == Inv /\ Next => StoredInv'
<1> SUFFICES ASSUME Inv, Next PROVE StoredInv'
  OBVIOUS
<1> USE DEF StoredInv
<1>0. TypeOK /\ LockInv /\ InitAlone /\ StoredInv
  BY DEF Inv
<1> USE <1>0
<1>1. ASSUME NEW p \in Procs, InitStep(p) PROVE StoredInv'
  <2>1. \A q \in Procs : q # p => pc[q] = "idle"
    BY <1>1 DEF InitStep, InitMutex, InitNoMutex, InitLast, InitCallback,
                InitOpen, InitAlone, InitLabels
  <2>2. \A q \in Procs : q # p => pc'[q] = pc[q]
    BY <1>1 DEF InitStep, InitMutex, InitNoMutex, InitLast, InitCallback,
                InitOpen, Goto, Return, TypeOK
  <2>3. CASE InitMutex(p) \/ InitNoMutex(p) \/ InitOpen(p)
    BY <2>1, <2>2, <2>3 DEF InitMutex, InitNoMutex, InitOpen, Goto, Return, TypeOK
  <2>4. CASE InitLast(p) \/ InitCallback(p)
    BY <2>1, <2>2, <2>4 DEF InitLast, InitCallback, Goto, TypeOK
  <2> QED
    BY <1>1, <2>3, <2>4 DEF InitStep
<1>2. ASSUME NEW p \in Procs, LockStep(p) PROVE StoredInv'
  BY <1>2 DEF LockStep, DeinitLock, GetLock, SetLock, RegisterLock, LockCtx,
              Goto, ctxVars, TypeOK
<1>3. ASSUME NEW p \in Procs, UnlockStep(p) PROVE StoredInv'
  BY <1>3 DEF UnlockStep, DeinitUnlock, GetUnlock, SetUnlock, RegisterUnlock,
              UnlockReturn, Goto, Return, ctxVars, TypeOK
<1>4. ASSUME NEW p \in Procs, CriticalStep(p) PROVE StoredInv'
  <2>1. pc[p] \in Holding
    BY <1>4 DEF CriticalStep, DeinitCallback, DeinitOpen, GetRead, SetStore,
                SetTake, RegisterStore, Holding
  <2>2. \A q \in Procs :
          q # p => pc[q] \notin {"init_callback", "init_open", "deinit_open"}
    BY <2>1, OneHolder DEF InitAlone, InitLabels, Holding
  <2>3. \A q \in Procs : q # p => pc'[q] = pc[q]
    BY <1>4 DEF CriticalStep, DeinitCallback, DeinitOpen, GetRead, SetStore,
                SetTake, RegisterStore, Goto, TypeOK
  <2>4. /\ pc'[p] \notin {"init_callback", "init_open"}
        /\ pc'[p] = "deinit_open" => callback' = NULL
    BY <1>4 DEF CriticalStep, DeinitCallback, DeinitOpen, GetRead, SetStore,
                SetTake, RegisterStore, Goto, TypeOK
  <2> QED
    BY <2>2, <2>3, <2>4
<1>5. ASSUME NEW p \in Procs, SetReport(p) \/ Client(p) \/ InitCall(p)
      PROVE  StoredInv'
  BY <1>5 DEF SetReport, Report, Client, DeinitCall, GetCall, SetCall,
              RegisterCall, Admitted, CallbackReturn, InitCall, Goto, ctxVars,
              TypeOK
<1> QED
  BY Kinds, <1>1, <1>2, <1>3, <1>4, <1>5

\* Callbacks are entered and left in order.
LEMMA DepthStep == Inv /\ Next => DepthInv'
<1> SUFFICES ASSUME Inv, Next PROVE DepthInv'
  OBVIOUS
<1> USE CtxAssumption DEF DepthInv, SetLabels
<1>0. /\ DepthInv /\ InitAlone
      /\ pc \in [Procs -> Labels]
      /\ err \in [Procs -> Codes]
      /\ cb \in [Procs -> Functions]
      /\ depth \in [Procs -> 0 .. MaxDepth]
  BY DEF Inv, TypeOK
<1> USE <1>0
<1>1. ASSUME NEW p \in Procs, InitStep(p) PROVE DepthInv'
  <2>1. depth[p] = 0
    BY <1>1 DEF InitStep, InitMutex, InitNoMutex, InitLast, InitCallback,
                InitOpen, InitAlone, InitLabels
  <2> QED
    BY <1>1, <2>1 DEF InitStep, InitMutex, InitNoMutex, InitLast, InitCallback,
                      InitOpen, Goto, Return, localVars
<1>2. ASSUME NEW p \in Procs, LockStep(p) PROVE DepthInv'
  BY <1>2 DEF LockStep, DeinitLock, GetLock, SetLock, RegisterLock, LockCtx,
              Goto, localVars
<1>3. ASSUME NEW p \in Procs, UnlockStep(p) PROVE DepthInv'
  <2>1. CASE SetUnlock(p)
    BY <2>1 DEF SetUnlock, Goto, localVars
  <2>2. ASSUME NEW l, UnlockReturn(p, l) PROVE DepthInv'
    BY <2>2 DEF UnlockReturn, Return, Goto
  <2> QED
    BY <1>3, <2>1, <2>2 DEF UnlockStep, DeinitUnlock, GetUnlock, RegisterUnlock
<1>4. ASSUME NEW p \in Procs, CriticalStep(p) PROVE DepthInv'
  BY <1>4 DEF CriticalStep, DeinitCallback, DeinitOpen, GetRead, SetStore,
              SetTake, RegisterStore, Goto, localVars
<1>5. ASSUME NEW p \in Procs, SetReport(p) PROVE DepthInv'
  BY <1>5 DEF SetReport, Report, Goto
<1>6. ASSUME NEW p \in Procs, Client(p) PROVE DepthInv'
  <2>1. CASE CallbackReturn(p)
    BY <2>1 DEF CallbackReturn, Goto, localVars
  <2>2. CASE DeinitCall(p) \/ GetCall(p)
    BY <2>2 DEF DeinitCall, GetCall, Admitted, Goto, localVars
  <2>3. ASSUME NEW e \in Codes, SetCall(p, e) PROVE DepthInv'
    BY <2>3 DEF SetCall, Admitted, Goto
  <2>4. ASSUME NEW f \in Functions, RegisterCall(p, f) PROVE DepthInv'
    BY <2>4 DEF RegisterCall, Admitted, Goto
  <2> QED
    BY <1>6, <2>1, <2>2, <2>3, <2>4 DEF Client
<1>7. ASSUME NEW p \in Procs, InitCall(p) PROVE DepthInv'
  BY <1>7 DEF InitCall, Goto, localVars
<1> QED
  BY Kinds, <1>1, <1>2, <1>3, <1>4, <1>5, <1>6, <1>7

LEMMA InitInv == Init => Inv
<1> SUFFICES ASSUME Init PROVE Inv
  OBVIOUS
<1> USE CtxAssumption DEF Init, MutexZeroed
<1>1. TypeOK
  <2>1. 0 \in 0 .. MaxDepth /\ "idle" \in Labels
    BY DEF Labels, ClientLabels
  <2>2. MutexTypeOK
    BY DEF MutexTypeOK
  <2> QED
    BY <2>1, <2>2 DEF TypeOK, Codes, Functions
<1>2. LockInv
  BY DEF LockInv, Waiting, Holding
<1>3. InitAlone /\ StoredInv /\ DepthInv
  BY DEF InitAlone, InitLabels, StoredInv, DepthInv, SetLabels
<1> QED
  BY <1>1, <1>2, <1>3 DEF Inv

LEMMA StutterInv == Inv /\ UNCHANGED vars => Inv'
<1> SUFFICES ASSUME Inv, UNCHANGED vars PROVE Inv'
  OBVIOUS
<1> USE DEF vars, mutexVars, ctxVars, localVars, Inv
<1>1. TypeOK'
  BY DEF TypeOK, MutexTypeOK
<1>2. LockInv' /\ InitAlone' /\ StoredInv' /\ DepthInv'
  BY DEF LockInv, InitAlone, StoredInv, DepthInv
<1> QED
  BY <1>1, <1>2

\* The strengthening that the safety properties of tt_error.c rest on.
THEOREM Invariance == Spec => []Inv
<1>1. Init => Inv
  BY InitInv
<1>2. Inv /\ [Next]_vars => Inv'
  BY TypeStep, LockInvStep, InitAloneStep, StoredStep, DepthStep, StutterInv
     DEF Inv
<1> QED
  BY <1>1, <1>2, PTL DEF Spec

\* Callbacks nest no deeper than the bound, and no callback is told of success.
THEOREM TypeCorrect == Spec => []TypeOK
<1>1. Inv => TypeOK
  BY DEF Inv
<1> QED
  BY <1>1, Invariance, PTL

\* error_ctx is used only by the thread that holds its pthread mutex.
THEOREM Exclusive == Spec => []CtxExclusive
<1>1. Inv => CtxExclusive
  BY DEF Inv, LockInv, CtxExclusive
<1> QED
  BY <1>1, Invariance, PTL

\* The callback is called, and every function returns, with no pthread mutex of
\* the error system held.
THEOREM NothingHeld == Spec => []NothingHeldOutside
<1>1. Inv => NothingHeldOutside
  BY DEF Inv, LockInv, NothingHeldOutside
<1> QED
  BY <1>1, Invariance, PTL

\* Only the last step of tt_error_init opens the context.
LEMMA OnlyInitOpens ==
  ASSUME Inv, Next, ~open, open'
  PROVE  \E p \in Procs : InitOpen(p)
<1>0. TypeOK
  BY DEF Inv
<1>1. ASSUME NEW p \in Procs, InitStep(p), ~InitOpen(p) PROVE open' = open
  BY <1>1 DEF InitStep, InitMutex, InitNoMutex, InitLast, InitCallback, ctxVars
<1>2. ASSUME NEW p \in Procs, LockStep(p) PROVE open' = open
  BY <1>2 DEF LockStep, DeinitLock, GetLock, SetLock, RegisterLock, LockCtx, ctxVars
<1>3. ASSUME NEW p \in Procs, UnlockStep(p) PROVE open' = open
  BY <1>3 DEF UnlockStep, DeinitUnlock, GetUnlock, SetUnlock, RegisterUnlock,
              UnlockReturn, ctxVars
<1> QED
  BY <1>0, <1>1, <1>2, <1>3, Kinds, MutexKept

\* No call of an earlier session leaves an error or a callback to the next one.
THEOREM Fresh == Spec => FreshSession
<1>1. ASSUME Inv, [Next]_vars
      PROVE  [~open /\ open' => last' = SUCCESS /\ callback' = NULL]_vars
  <2>1. CASE Next /\ ~open /\ open'
    <3>1. PICK p \in Procs : InitOpen(p)
      BY <1>1, <2>1, OnlyInitOpens
    <3> QED
      BY <1>1, <3>1 DEF Inv, StoredInv, InitOpen
  <2> QED
    BY <1>1, <2>1
<1> QED
  BY <1>1, Invariance, PTL DEF Spec, FreshSession

-------------------------------------------------------------------------------
\* Every step of the error system is, under the mapping Admission and DueOf, a
\* step of ErrorService or changes nothing of it.

\* The labels of a call that has been admitted and has no effect yet.
Pending == Waiting \cup {"deinit_callback", "deinit_open", "get_read",
                         "set_store", "register_store"}

\* The labels of a set_last that has stored its error and called nobody yet.
Owing == {"set_take", "set_unlock", "set_report"}

\* What a thread at each label owes, before and after a step.
LEMMA DueAt ==
  ASSUME NEW p \in Procs
  PROVE  /\ pc[p] = "set_take" => DueOf[p] = Owed(p, callback)
         /\ pc[p] \in {"set_unlock", "set_report"} => DueOf[p] = Owed(p, cb[p])
         /\ pc[p] \notin Owing => DueOf[p] = NULL
         /\ pc'[p] = "set_take" => (DueOf')[p] = Owed(p, callback)'
         /\ pc'[p] \in {"set_unlock", "set_report"} =>
              (DueOf')[p] = Owed(p, cb[p])'
         /\ pc'[p] \notin Owing => (DueOf')[p] = NULL
BY DEF DueOf, Owing

\* A step of p from a label to l that leaves the locals of the others alone, and
\* the callback where another thread is about to take it, changes what p owes and
\* whether p is admitted, of nobody else.
LEMMA Moves ==
  ASSUME TypeOK, NEW p \in Procs, NEW l \in Labels,
         pc' = [pc EXCEPT ![p] = l],
         \A q \in Procs : q # p => /\ err'[q] = err[q]
                                   /\ cb'[q] = cb[q]
                                   /\ pc[q] = "set_take" => callback' = callback
  PROVE  /\ DueOf' = [DueOf EXCEPT ![p] = (DueOf')[p]]
         /\ Admission' = IF l \in Pending THEN Admission \cup {p}
                                          ELSE Admission \ {p}
<1>1. \A q \in Procs : q # p => pc'[q] = pc[q]
  BY DEF TypeOK
<1>2. ASSUME NEW q \in Procs, q # p PROVE (DueOf')[q] = DueOf[q]
  <2>0. pc'[q] = pc[q] /\ err'[q] = err[q] /\ cb'[q] = cb[q]
    BY <1>1, <1>2
  <2>1. CASE pc[q] = "set_take"
    <3>1. UNCHANGED callback
      BY <1>2, <2>1
    <3>2. DueOf[q] = Owed(q, callback) /\ (DueOf')[q] = Owed(q, callback)'
      BY <2>0, <2>1, DueAt
    <3> QED
      BY <2>0, <3>1, <3>2 DEF Owed
  <2>2. CASE pc[q] \in {"set_unlock", "set_report"}
    <3>1. DueOf[q] = Owed(q, cb[q]) /\ (DueOf')[q] = Owed(q, cb[q])'
      BY <2>0, <2>2, DueAt
    <3> QED
      BY <2>0, <3>1 DEF Owed
  <2>3. CASE pc[q] \notin Owing
    BY <2>0, <2>3, DueAt
  <2> QED
    BY <2>1, <2>2, <2>3 DEF Owing
<1>3. DueOf' = [DueOf EXCEPT ![p] = (DueOf')[p]]
  BY <1>2 DEF DueOf
<1>4. Admission' = IF l \in Pending THEN Admission \cup {p} ELSE Admission \ {p}
  BY <1>1 DEF Admission, Pending, TypeOK
<1> QED
  BY <1>3, <1>4

\* Where p owes as much after the step as before and is admitted as before,
\* nothing of the service changes but what the step changes of the context.
LEMMA Stays ==
  ASSUME TypeOK, NEW p \in Procs, NEW l \in Labels,
         pc' = [pc EXCEPT ![p] = l],
         \A q \in Procs : q # p => /\ err'[q] = err[q]
                                   /\ cb'[q] = cb[q]
                                   /\ pc[q] = "set_take" => callback' = callback,
         (DueOf')[p] = DueOf[p],
         l \in Pending <=> pc[p] \in Pending
  PROVE  UNCHANGED <<Admission, DueOf>>
<1>1. UNCHANGED DueOf
  <2>1. DueOf' = [DueOf EXCEPT ![p] = (DueOf')[p]]
    BY Moves
  <2>2. DueOf = [q \in Procs |-> DueOf[q]]
    BY DEF DueOf
  <2> QED
    BY <2>1, <2>2
<1>2. p \in Admission <=> pc[p] \in Pending
  BY DEF Admission, Pending
<1>3. Admission' = IF l \in Pending THEN Admission \cup {p} ELSE Admission \ {p}
  BY Moves
<1> QED
  BY <1>1, <1>2, <1>3

\* tt_error_init: it resets and opens a service nobody uses.
LEMMA InitRefines ==
  ASSUME Inv, NEW p \in Procs, InitStep(p)
  PROVE  [Service!Next]_(Service!serviceVars)
<1> USE DEF Inv
<1>1. /\ pc[p] \in InitLabels /\ ~open /\ depth[p] = 0
      /\ \A q \in Procs : q # p => pc[q] = "idle"
  BY DEF InitStep, InitMutex, InitNoMutex, InitLast, InitCallback, InitOpen,
         InitAlone, InitLabels
<1>2. \E l \in InitLabels \cup {"idle"} :
        /\ pc' = [pc EXCEPT ![p] = l]
        /\ \A q \in Procs : q # p => err'[q] = err[q] /\ cb'[q] = cb[q]
  BY <1>1 DEF InitStep, InitMutex, InitNoMutex, InitLast, InitCallback, InitOpen,
              Goto, Return, InitLabels, TypeOK, localVars
<1>3. Admission = {}
  BY <1>1 DEF Admission, Waiting, InitLabels
<1>4. UNCHANGED <<Admission, DueOf>>
  <2>1. PICK l \in InitLabels \cup {"idle"} :
          /\ pc' = [pc EXCEPT ![p] = l]
          /\ \A q \in Procs : q # p => err'[q] = err[q] /\ cb'[q] = cb[q]
    BY <1>2
  <2>2. l \in Labels /\ l \notin Pending /\ l \notin Owing
    BY DEF Labels, ClientLabels, InitLabels, Pending, Waiting, Owing
  <2>3. pc[p] \notin Pending /\ pc[p] \notin Owing
    BY <1>1 DEF InitLabels, Pending, Waiting, Owing
  <2>4. pc'[p] = l
    BY <2>1 DEF TypeOK
  <2>5. (DueOf')[p] = DueOf[p]
    BY <2>2, <2>3, <2>4, DueAt
  <2> QED
    BY <1>1, <2>1, <2>2, <2>3, <2>5, Stays
<1>5. CASE InitMutex(p) \/ InitNoMutex(p)
  BY <1>4, <1>5 DEF InitMutex, InitNoMutex, Service!serviceVars, Service!ctxVars,
                    ctxVars
<1>6. CASE InitLast(p) \/ InitCallback(p)
  <2>1. Service!Reset
    BY <1>1, <1>3, <1>4, <1>6 DEF InitLast, InitCallback, Service!Reset
  <2> QED
    BY <2>1 DEF Service!Next
<1>7. CASE InitOpen(p)
  <2>1. Service!Open
    BY <1>1, <1>3, <1>4, <1>7 DEF InitOpen, StoredInv, Service!Open
  <2> QED
    BY <2>1 DEF Service!Next
<1> QED
  BY <1>5, <1>6, <1>7 DEF InitStep

\* Taking and releasing the mutex: nothing of the service changes.
LEMMA MutexStepRefines ==
  ASSUME TypeOK, NEW p \in Procs, LockStep(p) \/ UnlockStep(p)
  PROVE  [Service!Next]_(Service!serviceVars)
<1>1. UNCHANGED <<ctxVars, value, told>>
  BY DEF LockStep, DeinitLock, GetLock, SetLock, RegisterLock, LockCtx,
         UnlockStep, DeinitUnlock, GetUnlock, SetUnlock, RegisterUnlock,
         UnlockReturn, localVars
<1>2. \A q \in Procs : q # p => err'[q] = err[q] /\ cb'[q] = cb[q]
  BY DEF LockStep, DeinitLock, GetLock, SetLock, RegisterLock, LockCtx,
         UnlockStep, DeinitUnlock, GetUnlock, SetUnlock, RegisterUnlock,
         UnlockReturn, Return, localVars, TypeOK
<1> USE DEF Labels, ClientLabels, Waiting, Holding, Pending, Owing
<1>3. CASE LockStep(p)
  <2>1. PICK l \in Labels :
          /\ pc' = [pc EXCEPT ![p] = l]
          /\ l \in Pending /\ l \notin Owing
          /\ pc[p] \in Pending /\ pc[p] \notin Owing
    BY <1>3 DEF LockStep, DeinitLock, GetLock, SetLock, RegisterLock, LockCtx, Goto
  <2>2. (DueOf')[p] = DueOf[p]
    BY <2>1, DueAt DEF TypeOK
  <2> QED
    BY <1>1, <1>2, <2>1, <2>2, Stays DEF Service!serviceVars, Service!ctxVars, ctxVars
<1>4. CASE SetUnlock(p)
  <2>1. /\ pc[p] = "set_unlock"
        /\ pc' = [pc EXCEPT ![p] = "set_report"]
        /\ UNCHANGED localVars
    BY <1>4 DEF SetUnlock, Goto
  <2>2. (DueOf')[p] = DueOf[p]
    BY <2>1, DueAt DEF TypeOK, Owed, localVars
  <2> QED
    BY <1>1, <1>2, <2>1, <2>2, Stays DEF Service!serviceVars, Service!ctxVars, ctxVars
<1>5. CASE UnlockStep(p) /\ ~SetUnlock(p)
  <2>1. PICK l \in Labels :
          /\ pc' = [pc EXCEPT ![p] = l]
          /\ l \notin Pending /\ l \notin Owing
          /\ pc[p] \notin Pending /\ pc[p] \notin Owing
    BY <1>5 DEF UnlockStep, DeinitUnlock, GetUnlock, RegisterUnlock, UnlockReturn,
                Return, Goto
  <2>2. (DueOf')[p] = DueOf[p]
    BY <2>1, DueAt DEF TypeOK
  <2> QED
    BY <1>1, <1>2, <2>1, <2>2, Stays DEF Service!serviceVars, Service!ctxVars, ctxVars
<1> QED
  BY <1>3, <1>4, <1>5

\* The moment at which a call takes effect, in the critical section: no other
\* thread is about to take the callback.
LEMMA CriticalStepRefines ==
  ASSUME Inv, NEW p \in Procs, CriticalStep(p)
  PROVE  [Service!Next]_(Service!serviceVars)
<1> USE DEF Inv
<1>1. pc[p] \in Holding
  BY DEF CriticalStep, DeinitCallback, DeinitOpen, GetRead, SetStore, SetTake,
         RegisterStore, Holding
<1>2. \A q \in Procs : q # p => pc[q] # "set_take"
  BY <1>1, OneHolder DEF Holding
<1>3. \A q \in Procs : q # p => err'[q] = err[q] /\ cb'[q] = cb[q]
  BY DEF CriticalStep, DeinitCallback, DeinitOpen, GetRead, SetStore, SetTake,
         RegisterStore, localVars, TypeOK
<1> USE DEF Goto, Labels, Waiting, Holding, Pending, Owing
<1>4. p \in Admission <=> pc[p] \in Pending
  BY DEF Admission
<1>5. DueOf = [q \in Procs |-> DueOf[q]]
  BY DEF DueOf
<1>6. ASSUME NEW l \in Labels, pc' = [pc EXCEPT ![p] = l]
      PROVE  /\ DueOf' = [DueOf EXCEPT ![p] = (DueOf')[p]]
             /\ Admission' = IF l \in Pending THEN Admission \cup {p}
                                              ELSE Admission \ {p}
             /\ pc'[p] = l
  <2>1. \A q \in Procs : q # p => /\ err'[q] = err[q]
                                  /\ cb'[q] = cb[q]
                                  /\ pc[q] = "set_take" => callback' = callback
    BY <1>2, <1>3
  <2>2. pc'[p] = l
    BY <1>6 DEF TypeOK
  <2>3. TypeOK
    OBVIOUS
  <2> HIDE DEF Pending, Labels
  <2> QED
    BY <1>6, <2>1, <2>2, <2>3, Moves
<1>7. ASSUME NEW l \in Labels, pc' = [pc EXCEPT ![p] = l],
             pc[p] \notin Owing, l \notin Owing
      PROVE  UNCHANGED DueOf
  <2>1. (DueOf')[p] = NULL /\ DueOf[p] = NULL
    BY <1>6, <1>7, DueAt
  <2> QED
    BY <1>5, <1>6, <1>7, <2>1
<1>8. CASE DeinitCallback(p)
  <2>1. UNCHANGED <<Admission, DueOf>>
    BY <1>4, <1>6, <1>7, <1>8 DEF DeinitCallback
  <2>2. Service!Unregister(p)
    BY <1>4, <1>8, <2>1 DEF DeinitCallback, Service!Unregister
  <2> QED
    BY <2>2 DEF Service!Next
<1>9. CASE DeinitOpen(p)
  <2>1. UNCHANGED DueOf /\ Admission' = Admission \ {p}
    <3>1. pc[p] = "deinit_open" /\ pc' = [pc EXCEPT ![p] = "deinit_unlock"]
      BY <1>9 DEF DeinitOpen
    <3>2. /\ "deinit_unlock" \in Labels
          /\ {"deinit_open", "deinit_unlock"} \cap Owing = {}
          /\ "deinit_unlock" \notin Pending
      OBVIOUS
    <3> HIDE DEF Labels, Owing, Pending
    <3>3. UNCHANGED DueOf
      BY <1>7, <3>1, <3>2
    <3>4. Admission' = Admission \ {p}
      BY <1>6, <3>1, <3>2
    <3> QED
      BY <3>3, <3>4
  <2>2. Service!Close(p)
    BY <1>4, <1>9, <2>1 DEF DeinitOpen, StoredInv, Service!Close, Service!Effect
  <2> QED
    BY <2>2 DEF Service!Next
<1>10. CASE GetRead(p)
  <2>1. UNCHANGED DueOf /\ Admission' = Admission \ {p}
    <3>1. pc[p] = "get_read" /\ pc' = [pc EXCEPT ![p] = "get_unlock"]
      BY <1>10 DEF GetRead
    <3>2. /\ "get_unlock" \in Labels
          /\ {"get_read", "get_unlock"} \cap Owing = {}
          /\ "get_unlock" \notin Pending
      OBVIOUS
    <3> HIDE DEF Labels, Owing, Pending
    <3>3. UNCHANGED DueOf
      BY <1>7, <3>1, <3>2
    <3>4. Admission' = Admission \ {p}
      BY <1>6, <3>1, <3>2
    <3> QED
      BY <3>3, <3>4
  <2>2. Service!Get(p)
    BY <1>4, <1>10, <2>1 DEF GetRead, ctxVars, Service!Get, Service!Effect,
                             Service!ctxVars
  <2> QED
    BY <2>2 DEF Service!Next
<1>11. CASE SetStore(p)
  <2>1. /\ pc' = [pc EXCEPT ![p] = "set_take"]
        /\ UNCHANGED <<callback, err>>
    BY <1>11 DEF SetStore, localVars
  <2>2. /\ DueOf' = [DueOf EXCEPT ![p] = (DueOf')[p]]
        /\ Admission' = Admission \ {p}
        /\ (DueOf')[p] = Owed(p, callback)
    <3>1. /\ DueOf' = [DueOf EXCEPT ![p] = (DueOf')[p]]
          /\ Admission' = Admission \ {p}
          /\ pc'[p] = "set_take"
      <4>1. "set_take" \in Labels /\ "set_take" \notin Pending
        OBVIOUS
      <4> HIDE DEF Labels, Pending
      <4> QED
        BY <1>6, <2>1, <4>1
    <3>2. (DueOf')[p] = Owed(p, callback)'
      BY <3>1, DueAt
    <3> HIDE DEF Labels, Pending
    <3> QED
      BY <2>1, <3>1, <3>2 DEF Owed
  <2>3. err[p] \in Errors \cup {SUCCESS}
    BY DEF TypeOK, Codes
  <2>4. Service!Set(p, err[p])
    BY <1>4, <1>11, <2>2 DEF SetStore, Owed, Service!Set, Service!Effect
  <2> QED
    BY <2>3, <2>4 DEF Service!Next
<1>12. CASE SetTake(p)
  <2>1. /\ pc[p] = "set_take"
        /\ pc' = [pc EXCEPT ![p] = "set_unlock"]
        /\ cb'[p] = callback
        /\ UNCHANGED <<err, ctxVars, value, told>>
    BY <1>12 DEF SetTake, TypeOK
  <2>2. (DueOf')[p] = Owed(p, callback) /\ DueOf[p] = Owed(p, callback)
    BY <1>6, <2>1, DueAt DEF Owed
  <2>3. UNCHANGED <<Admission, DueOf>>
    <3>1. /\ "set_unlock" \in Labels /\ "set_unlock" \notin Pending
          /\ "set_take" \notin Pending
      OBVIOUS
    <3> HIDE DEF Labels, Pending
    <3>2. UNCHANGED DueOf
      BY <1>5, <1>6, <2>1, <2>2, <3>1
    <3>3. UNCHANGED Admission
      BY <1>4, <1>6, <2>1, <3>1
    <3> QED
      BY <3>2, <3>3
  <2> QED
    BY <2>1, <2>3 DEF Service!serviceVars, Service!ctxVars, ctxVars
<1>13. CASE RegisterStore(p)
  <2>1. UNCHANGED DueOf /\ Admission' = Admission \ {p}
    <3>1. pc[p] = "register_store" /\ pc' = [pc EXCEPT ![p] = "register_unlock"]
      BY <1>13 DEF RegisterStore
    <3>2. /\ "register_unlock" \in Labels
          /\ {"register_store", "register_unlock"} \cap Owing = {}
          /\ "register_unlock" \notin Pending
      OBVIOUS
    <3> HIDE DEF Labels, Owing, Pending
    <3>3. UNCHANGED DueOf
      BY <1>7, <3>1, <3>2
    <3>4. Admission' = Admission \ {p}
      BY <1>6, <3>1, <3>2
    <3> QED
      BY <3>3, <3>4
  <2>2. Service!Register(p, cb[p])
    BY <1>4, <1>13, <2>1 DEF RegisterStore, Service!Register, Service!Effect
  <2>3. cb[p] \in Callbacks \cup {NULL}
    BY DEF TypeOK, Functions
  <2> QED
    BY <2>2, <2>3 DEF Service!Next
<1> QED
  BY <1>8, <1>9, <1>10, <1>11, <1>12, <1>13 DEF CriticalStep

\* After the unlock, set_last tells the callback it took, if there is one to tell.
LEMMA ReportRefines ==
  ASSUME Inv, NEW p \in Procs, SetReport(p)
  PROVE  [Service!Next]_(Service!serviceVars)
<1>1. /\ pc[p] = "set_report"
      /\ UNCHANGED <<callback, open, last, value>>
  BY DEF SetReport, Report, ctxVars
<1>2. PICK l \in ClientLabels : pc' = [pc EXCEPT ![p] = l]
  BY DEF SetReport, Report, Goto, ClientLabels
<1>3. l \in Labels /\ l \notin Pending /\ l \notin Owing
  BY DEF ClientLabels, Labels, Pending, Waiting, Owing
<1>4. TypeOK
  BY DEF Inv
<1>5. \A q \in Procs : q # p => err'[q] = err[q] /\ cb'[q] = cb[q]
  BY <1>4 DEF SetReport, Report, TypeOK
<1>6. /\ (DueOf')[p] = NULL
      /\ DueOf[p] = Owed(p, cb[p])
  <2>1. pc'[p] = l
    BY <1>2, <1>4 DEF TypeOK
  <2> QED
    BY <1>1, <1>3, <2>1, DueAt
<1>7. CASE cb[p] # NULL /\ err[p] # SUCCESS
  <2>1. DueOf[p] = <<cb[p], err[p]>> /\ DueOf[p] # NULL
    <3>1. <<cb[p], err[p]>> \in Callbacks \X Errors
      BY <1>4, <1>7 DEF TypeOK, Codes, Functions
    <3> QED
      BY <1>6, <1>7, <3>1, CtxAssumption DEF Owed
  <2>2. told' = <<cb[p], err[p]>>
    BY <1>7 DEF SetReport, Report
  <2>3. DueOf' = [DueOf EXCEPT ![p] = NULL]
    BY <1>1, <1>2, <1>3, <1>4, <1>5, <1>6, Moves
  <2>4. UNCHANGED Admission
    <3>1. p \notin Admission
      BY <1>1 DEF Admission, Waiting
    <3>2. Admission' = Admission \ {p}
      BY <1>1, <1>2, <1>3, <1>4, <1>5, Moves
    <3> QED
      BY <3>1, <3>2
  <2>5. Service!Tell(p)
    BY <1>1, <2>1, <2>2, <2>3, <2>4 DEF Service!Tell, Service!ctxVars
  <2> QED
    BY <2>5 DEF Service!Next
<1>8. CASE ~(cb[p] # NULL /\ err[p] # SUCCESS)
  <2>1. DueOf[p] = NULL /\ UNCHANGED told
    BY <1>6, <1>8 DEF Owed, SetReport, Report
  <2>2. pc[p] \notin Pending
    BY <1>1 DEF Pending, Waiting
  <2>3. UNCHANGED <<Admission, DueOf>>
    BY <1>1, <1>2, <1>3, <1>4, <1>5, <1>6, <2>1, <2>2, Stays
  <2> QED
    BY <1>1, <2>1, <2>3 DEF Service!serviceVars, Service!ctxVars
<1> QED
  BY <1>7, <1>8

\* A call is admitted by an open service; the end of a callback, and a call of
\* tt_error_init, change nothing of it.
LEMMA ClientRefines ==
  ASSUME Inv, NEW p \in Procs, Client(p) \/ InitCall(p)
  PROVE  [Service!Next]_(Service!serviceVars)
<1>1. TypeOK
  BY DEF Inv
<1>2. /\ pc[p] \in ClientLabels
      /\ UNCHANGED <<open, last, callback, value, told>>
  BY DEF Client, DeinitCall, GetCall, SetCall, RegisterCall, Admitted,
         CallbackReturn, InitCall, ClientLabels, ctxVars
<1>3. \A q \in Procs : q # p => err'[q] = err[q] /\ cb'[q] = cb[q]
  BY <1>1 DEF Client, DeinitCall, GetCall, SetCall, RegisterCall, Admitted,
              CallbackReturn, InitCall, TypeOK, localVars
<1>4. PICK l \in Waiting \cup ClientLabels \cup {"init_mutex"} :
        /\ pc' = [pc EXCEPT ![p] = l]
        /\ l \in Waiting => open
  BY DEF Client, DeinitCall, GetCall, SetCall, RegisterCall, Admitted,
         CallbackReturn, InitCall, ClientLabels, Waiting, Goto
<1>5. /\ l \in Labels /\ l \notin Owing
      /\ l \in Pending <=> l \in Waiting
      /\ pc[p] \notin Pending /\ pc[p] \notin Owing
  BY <1>2 DEF Labels, InitLabels, ClientLabels, Waiting, Pending, Owing
<1>6. (DueOf')[p] = DueOf[p]
  <2>1. pc'[p] = l
    BY <1>1, <1>4 DEF TypeOK
  <2> QED
    BY <1>5, <2>1, DueAt
<1>7. CASE l \in Waiting
  <2>1. UNCHANGED DueOf
    <3>1. DueOf' = [DueOf EXCEPT ![p] = (DueOf')[p]]
      BY <1>1, <1>2, <1>3, <1>4, <1>5, Moves
    <3>2. DueOf = [q \in Procs |-> DueOf[q]]
      BY DEF DueOf
    <3> QED
      BY <1>6, <3>1, <3>2
  <2>2. Admission' = Admission \cup {p}
    BY <1>1, <1>2, <1>3, <1>4, <1>5, <1>7, Moves
  <2>3. Service!Admit(p)
    BY <1>2, <1>4, <1>7, <2>1, <2>2 DEF Service!Admit, Service!ctxVars
  <2> QED
    BY <2>3 DEF Service!Next
<1>8. CASE l \notin Waiting
  <2>1. UNCHANGED <<Admission, DueOf>>
    BY <1>1, <1>2, <1>3, <1>4, <1>5, <1>6, <1>8, Stays
  <2> QED
    BY <1>2, <2>1 DEF Service!serviceVars, Service!ctxVars
<1> QED
  BY <1>7, <1>8

\* A call of tt_error.c takes effect at one moment between its test of
\* error_ctx.initialized and its return, and the callback that is told of an error
\* is the one that was registered when the error was stored.
THEOREM Refinement == Spec => ImplementsErrorService
<1>1. Init => Service!Init
  BY DEF Init, Service!Init, Admission, Waiting, DueOf
<1>2. ASSUME Inv, [Next]_vars PROVE [Service!Next]_(Service!serviceVars)
  <2>1. CASE Next
    <3>1. TypeOK
      BY <1>2 DEF Inv
    <3> QED
      BY <1>2, <2>1, <3>1, Kinds, InitRefines, MutexStepRefines,
         CriticalStepRefines, ReportRefines, ClientRefines
  <2>2. CASE UNCHANGED vars
    BY <2>2 DEF vars, ctxVars, localVars, Service!serviceVars, Service!ctxVars,
                Admission, DueOf, Owed
  <2> QED
    BY <1>2, <2>1, <2>2
<1> QED
  BY <1>1, <1>2, Invariance, PTL DEF Spec, ImplementsErrorService, Service!Spec
===============================================================================

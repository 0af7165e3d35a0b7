---------------------------- MODULE MutexApiProofs ----------------------------
(***************************************************************************)
(* In both builds the lock word is taken exactly when a thread holds the   *)
(* mutex or looks at it (Inv); mutual exclusion, the balance of the heap   *)
(* and the refinement of LockService follow, for any number of threads.    *)
(***************************************************************************)
EXTENDS MutexApi, TLAPS

\* The steps that change the lock word, and those that do not.
WordStep(p) ==
  InitMutex(p) \/ Destroy(p) \/ Lock(p) \/ Unlock(p) \/ TryLock(p)
    \/ IsLockedTake(p) \/ IsLockedGive(p)

OtherStep(p) ==
  InitFails(p) \/ LockCall(p) \/ Refused(p) \/ TryBusy(p) \/ IsLocked(p)

LEMMA Kinds ==
  ASSUME Next
  PROVE  \E p \in Procs : WordStep(p) \/ OtherStep(p)
BY DEF Next, WordStep, OtherStep

\* A mutex that can be seized is initialised and free: nobody holds it or looks.
LEMMA SeizesFree ==
  ASSUME Inv, initialized, NEW p \in Procs, Seize(p)
  PROVE  Holders \cup Looking = {}
<1> USE ApiAssumption DEF Inv, TypeOK, MutexTypeOK, Holders, Looking
<1>1. CASE build = "linux"
  <2>1. lock \in MutexObjs /\ owner[lock] = NULL
    BY <1>1 DEF Seize, Acquire, LinuxInv
  <2> QED
    BY <1>1, <2>1 DEF LinuxInv
<1>2. CASE build = "generic"
  BY <1>2 DEF Seize, GenericInv
<1> QED
  BY <1>1, <1>2

\* The lock word is taken when a thread holds the mutex or looks at it.
LEMMA TakenIsUsed ==
  ASSUME Inv, initialized
  PROVE  Taken <=> Holders \cup Looking # {}
<1> USE ApiAssumption DEF Inv, TypeOK, MutexTypeOK, Holders, Looking, Taken
<1>1. CASE build = "linux"
  BY <1>1 DEF LinuxInv
<1>2. CASE build = "generic"
  BY <1>2 DEF GenericInv
<1> QED
  BY <1>1, <1>2

LEMMA InitInv == Init => Inv
<1> SUFFICES ASSUME Init PROVE Inv
  OBVIOUS
<1> USE ApiAssumption DEF Init, MutexZeroed
<1>1. TypeOK
  BY DEF TypeOK, MutexTypeOK, Answers
<1>2. LockExclusive /\ HeapExact
  BY DEF LockExclusive, HeapExact, Holders
<1>3. LinuxInv /\ GenericInv /\ CallInv
  BY DEF LinuxInv, GenericInv, CallInv, Holders, Looking
<1> QED
  BY <1>1, <1>2, <1>3 DEF Inv

LEMMA TypeStep == Inv /\ Next => TypeOK'
<1> SUFFICES ASSUME Inv, Next PROVE TypeOK'
  OBVIOUS
<1> USE ApiAssumption DEF TypeOK, MutexTypeOK, Inv, mutexVars, Goto, Answer, Answers
<1>1. ASSUME NEW p \in Procs, OtherStep(p) PROVE TypeOK'
  BY <1>1 DEF OtherStep, InitFails, LockCall, Refused, TryBusy, IsLocked
<1>2. ASSUME NEW p \in Procs, InitMutex(p) \/ Destroy(p) PROVE TypeOK'
  BY <1>2 DEF InitMutex, Destroy, FreeMutex, CloseMutex, MutexInit
<1>3. ASSUME NEW p \in Procs, Lock(p) \/ TryLock(p) \/ IsLockedTake(p)
      PROVE  TypeOK'
  <2>0. Seize(p)
    BY <1>3 DEF Lock, TryLock, IsLockedTake
  <2>1. MutexTypeOK' /\ flag' \in BOOLEAN
    <3>1. CASE Acquire(p, lock) /\ UNCHANGED flag
      BY <3>1 DEF Acquire
    <3>2. CASE flag' = TRUE /\ UNCHANGED mutexVars
      BY <3>2
    <3> QED
      BY <2>0, <3>1, <3>2 DEF Seize
  <2> QED
    BY <1>3, <2>1 DEF Lock, TryLock, IsLockedTake
<1>4. ASSUME NEW p \in Procs, Unlock(p) \/ IsLockedGive(p)
      PROVE  TypeOK'
  <2>1. Release /\ MutexTypeOK' /\ flag' \in BOOLEAN
    BY <1>4 DEF Unlock, IsLockedGive, Release, MutexUnlock
  <2> QED
    BY <1>4, <2>1 DEF Unlock, IsLockedGive
<1> QED
  BY Kinds, <1>1, <1>2, <1>3, <1>4 DEF WordStep

\* One part of the invariant per conjunct, one kind of step per case.
LEMMA InvStep == Inv /\ Next => Inv'
<1> SUFFICES ASSUME Inv, Next PROVE Inv'
  OBVIOUS
<1> DEFINE Rest == LockExclusive /\ HeapExact /\ LinuxInv /\ GenericInv /\ CallInv
<1> USE ApiAssumption
<1>0. TypeOK /\ TypeOK' /\ Rest
  BY TypeStep DEF Inv
<1> USE DEF LockExclusive, HeapExact, LinuxInv, GenericInv, CallInv, Holders, Looking
<1>1. ASSUME NEW p \in Procs, OtherStep(p) PROVE Rest'
  <2>1. CASE LockCall(p)
    BY <1>0, <2>1 DEF LockCall, Goto, mutexVars, TypeOK
  <2>2. CASE ~LockCall(p)
    BY <1>0, <1>1, <2>2
       DEF OtherStep, InitFails, Refused, TryBusy, IsLocked, mutexVars
  <2> QED
    BY <2>1, <2>2
<1>2. ASSUME NEW p \in Procs, InitMutex(p) PROVE Rest'
  BY <1>0, <1>2 DEF InitMutex, MutexInit, Unused, TypeOK, MutexTypeOK
<1>3. ASSUME NEW p \in Procs, Destroy(p) PROVE Rest'
  BY <1>0, <1>3 DEF Destroy, FreeMutex, CloseMutex, Unused, TypeOK,
                    MutexTypeOK
<1>4. ASSUME NEW p \in Procs, Lock(p) \/ TryLock(p) PROVE Rest'
  <2>1. /\ Seize(p) /\ initialized /\ pc[p] # "look"
        /\ UNCHANGED build
        /\ holds' = [holds EXCEPT ![p] = TRUE]
        /\ pc' = [pc EXCEPT ![p] = "idle"]
    BY <1>0, <1>4 DEF Lock, TryLock, Goto, TypeOK
  <2>2. Holders \cup Looking = {}
    BY <2>1, SeizesFree
  <2>3. CASE build = "linux"
    <3>1. /\ lock \in MutexObjs
          /\ owner' = [owner EXCEPT ![lock] = p]
          /\ UNCHANGED <<lock, initialized, made, flag>>
      BY <1>0, <2>1, <2>3 DEF Seize, Acquire
    <3>2. LockExclusive' /\ HeapExact' /\ CallInv'
      BY <1>0, <2>1, <2>2, <3>1 DEF TypeOK
    <3>3. LinuxInv' /\ GenericInv'
      BY <1>0, <2>1, <2>2, <2>3, <3>1 DEF TypeOK, MutexTypeOK
    <3> QED
      BY <3>2, <3>3
  <2>4. CASE build = "generic"
    BY <1>0, <2>1, <2>2, <2>4 DEF Seize, mutexVars, TypeOK, MutexTypeOK
  <2> QED
    BY <1>0, <2>3, <2>4 DEF TypeOK
<1>5. ASSUME NEW p \in Procs, IsLockedTake(p) PROVE Rest'
  <2>1. Holders \cup Looking = {}
    BY <1>5, SeizesFree DEF IsLockedTake
  <2>2. /\ build = "linux" /\ UNCHANGED <<build, holds>>
        /\ initialized /\ lock \in MutexObjs
        /\ owner' = [owner EXCEPT ![lock] = p]
        /\ pc' = [pc EXCEPT ![p] = "look"]
        /\ UNCHANGED <<lock, initialized, made, flag>>
    BY <1>0, <1>5 DEF IsLockedTake, Seize, Acquire, Goto
  <2>3. LockExclusive' /\ HeapExact' /\ CallInv'
    BY <1>0, <2>1, <2>2 DEF TypeOK
  <2>4. LinuxInv' /\ GenericInv'
    BY <1>0, <2>1, <2>2 DEF TypeOK, MutexTypeOK
  <2> QED
    BY <2>3, <2>4
<1>6. ASSUME NEW p \in Procs, Unlock(p) PROVE Rest'
  <2>1. /\ holds[p] /\ pc[p] = "idle" /\ initialized
        /\ holds' = [holds EXCEPT ![p] = FALSE]
        /\ UNCHANGED <<build, pc>>
        /\ Holders = {p} /\ Holders' = {}
    BY <1>0, <1>6 DEF Unlock, TypeOK
  <2>2. CASE build = "linux"
    <3>1. /\ owner' = [owner EXCEPT ![lock] = NULL]
          /\ lock \in MutexObjs
          /\ UNCHANGED <<lock, initialized, made, flag>>
      BY <1>0, <1>6, <2>2 DEF Unlock, Release, MutexUnlock
    <3>2. LockExclusive' /\ HeapExact' /\ CallInv'
      BY <1>0, <2>1, <3>1 DEF TypeOK
    <3>3. LinuxInv' /\ GenericInv'
      BY <1>0, <2>1, <2>2, <3>1 DEF TypeOK, MutexTypeOK
    <3> QED
      BY <3>2, <3>3
  <2>3. CASE build = "generic"
    <3>1. flag' = FALSE /\ UNCHANGED mutexVars
      BY <1>6, <2>3 DEF Unlock, Release
    <3> QED
      BY <1>0, <2>1, <2>3, <3>1 DEF mutexVars, TypeOK, MutexTypeOK
  <2> QED
    BY <1>0, <2>2, <2>3 DEF TypeOK
<1>7. ASSUME NEW p \in Procs, IsLockedGive(p) PROVE Rest'
  BY <1>0, <1>7 DEF IsLockedGive, Release, MutexUnlock, Goto, mutexVars, TypeOK,
                    MutexTypeOK
<1>8. Rest'
  BY Kinds, <1>1, <1>2, <1>3, <1>4, <1>5, <1>6, <1>7 DEF WordStep
<1> QED
  BY <1>0, <1>8 DEF Inv

LEMMA StutterInv == Inv /\ UNCHANGED apiVars => Inv'
<1> SUFFICES ASSUME Inv, UNCHANGED apiVars PROVE Inv'
  OBVIOUS
<1> USE DEF apiVars, mutexVars, Inv
<1>1. TypeOK'
  BY DEF TypeOK, MutexTypeOK
<1>2. LockExclusive' /\ HeapExact' /\ LinuxInv' /\ GenericInv' /\ CallInv'
  BY DEF LockExclusive, HeapExact, LinuxInv, GenericInv, CallInv, Holders, Looking
<1> QED
  BY <1>1, <1>2

\* The lock word of tt_mutex.c is taken exactly when a thread holds the mutex or is
\* in is_locked.
THEOREM Invariance == Spec => []Inv
<1>1. Inv /\ [Next]_apiVars => Inv'
  BY InvStep, StutterInv
<1> QED
  BY <1>1, InitInv, PTL DEF Spec

\* Two threads never hold the mutex together, in either build.
THEOREM Exclusion == Spec => []LockExclusive
<1>1. Inv => LockExclusive
  BY DEF Inv
<1> QED
  BY <1>1, Invariance, PTL

\* Init and destroy take from the heap and give back the same pthread mutex.
THEOREM HeapBalance == Spec => []HeapExact
<1>1. Inv => HeapExact
  BY DEF Inv
<1> QED
  BY <1>1, Invariance, PTL

\* Every step of the mutex API is a step of the lock it promises.
LEMMA StepRefines ==
  ASSUME Inv, Next
  PROVE  Service!Next \/ UNCHANGED Service!lockVars
<1> USE DEF Service!lockVars, Service!Answer, Answer, Goto
<1>0. TypeOK
  BY DEF Inv
<1>1. PICK p \in Procs : WordStep(p) \/ OtherStep(p)
  BY Kinds
<1>2. CASE InitMutex(p) \/ Destroy(p)
  <2>1. UNCHANGED <<Holders, Looking>> /\ Service!Free
    BY <1>2 DEF InitMutex, Destroy, FreeMutex, CloseMutex, Unused, Holders, Looking,
                Service!Free
  <2>2. Service!Open(p) \/ Service!Close(p)
    BY <1>2, <2>1 DEF InitMutex, MutexInit, Destroy, FreeMutex, CloseMutex,
                      Service!Open, Service!Close
  <2> QED
    BY <2>1, <2>2 DEF Service!Next
<1>3. CASE Lock(p) \/ TryLock(p)
  <2>1. /\ Seize(p) /\ initialized
        /\ holds' = [holds EXCEPT ![p] = TRUE]
        /\ pc' = [pc EXCEPT ![p] = "idle"]
        /\ pc[p] # "look"
        /\ answer' = [answer EXCEPT ![p] = "success"]
    BY <1>0, <1>3 DEF Lock, TryLock, Inv, CallInv, TypeOK
  <2>2. Holders \cup Looking = {} /\ UNCHANGED initialized
    BY <2>1, SeizesFree DEF Seize, Acquire, mutexVars
  <2>3. Holders' = {p} /\ Looking' = {}
    BY <1>0, <2>1, <2>2 DEF Holders, Looking, TypeOK
  <2>4. Service!Take(p) /\ UNCHANGED <<initialized, Looking>>
    BY <2>1, <2>2, <2>3 DEF Service!Take, Service!Free
  <2> QED
    BY <2>4 DEF Service!Next
<1>4. CASE Unlock(p)
  <2>1. p \in Holders /\ Holders' = Holders \ {p} /\ UNCHANGED Looking
    BY <1>0, <1>4 DEF Unlock, Holders, Looking, TypeOK
  <2>2. Service!Give(p) /\ UNCHANGED initialized
    BY <1>4, <2>1 DEF Unlock, Release, MutexUnlock, mutexVars, Service!Give
  <2> QED
    BY <2>1, <2>2 DEF Service!Next
<1>5. CASE IsLockedTake(p)
  <2>1. Holders \cup Looking = {}
    BY <1>5, SeizesFree DEF IsLockedTake
  <2>2. Looking' = {p} /\ UNCHANGED <<initialized, Holders, answer>>
    BY <1>0, <1>5, <2>1 DEF IsLockedTake, Seize, Acquire, Holders, Looking, TypeOK
  <2>3. Service!Look(p)
    BY <1>5, <2>1, <2>2 DEF IsLockedTake, Service!Look, Service!Free
  <2> QED
    BY <2>2, <2>3 DEF Service!Next
<1>6. CASE IsLockedGive(p)
  <2>1. p \in Looking /\ Looking' = Looking \ {p} /\ UNCHANGED Holders
    BY <1>0, <1>6 DEF IsLockedGive, Holders, Looking, TypeOK
  <2>2. Service!LookAway(p) /\ UNCHANGED initialized
    BY <1>6, <2>1 DEF IsLockedGive, Release, MutexUnlock, mutexVars, Service!LookAway
  <2> QED
    BY <2>1, <2>2 DEF Service!Next
<1>7. CASE LockCall(p)
  BY <1>0, <1>7 DEF LockCall, mutexVars, Holders, Looking, TypeOK
<1>8. CASE InitFails(p) \/ Refused(p) \/ TryBusy(p) \/ IsLocked(p)
  <2>1. UNCHANGED <<initialized, Holders, Looking>>
    BY <1>8 DEF InitFails, Refused, TryBusy, IsLocked, mutexVars, Holders, Looking
  <2>2. initialized => (Taken <=> ~Service!Free)
    BY TakenIsUsed DEF Service!Free
  <2>3. Service!Tell(p)
    BY <1>8, <2>2 DEF InitFails, Refused, TryBusy, IsLocked, Service!Tell
  <2> QED
    BY <2>1, <2>3 DEF Service!Next
<1> QED
  BY <1>1, <1>2, <1>3, <1>4, <1>5, <1>6, <1>7, <1>8 DEF WordStep, OtherStep

\* Both builds of tt_mutex.c implement one lock, for any number of threads.
THEOREM Refinement == Spec => ImplementsLockService
<1>1. Init => Service!Init
  BY DEF Init, MutexZeroed, Service!Init, Holders, Looking
<1>2. ASSUME Inv, [Next]_apiVars
      PROVE  [Service!Next]_(Service!lockVars)
  <2>1. CASE UNCHANGED apiVars
    BY <2>1 DEF apiVars, mutexVars, Service!lockVars, Holders, Looking
  <2> QED
    BY <1>2, <2>1, StepRefines
<1> QED
  BY <1>1, <1>2, Invariance, PTL DEF Spec, ImplementsLockService, Service!Spec
===============================================================================

-------------------------- MODULE TTThreadRefinement --------------------------
(***************************************************************************)
(* The thread API implements ThreadService for every number of callers,    *)
(* threads and slots: every step of TTThread!Spec is, under the mapping    *)
(* StatusOf and Listed, a step of ThreadService or changes neither.        *)
(***************************************************************************)
EXTENDS TTThreadProofs, FiniteSetTheorems

\* A table with a free slot lists fewer structures than it has slots.
LEMMA FreeSlot ==
  ASSUME TypeOK, NEW k \in Slots, table[k] = NULL
  PROVE  Cardinality(Listed) < MaxThreads
<1> DEFINE Used == {i \in Slots : table[i] # NULL}
           Entry == [i \in Used |-> table[i]]
<1>1. IsFiniteSet(Slots) /\ Cardinality(Slots) = MaxThreads
  BY TableAssumption, FS_Interval DEF Slots
<1>2. /\ IsFiniteSet(Used)
      /\ Cardinality(Used) <= Cardinality(Slots)
      /\ Cardinality(Used) # Cardinality(Slots)
  BY <1>1, FS_Subset, Used \in SUBSET Slots, Used # Slots
<1>3. Entry \in Surjection(Used, Listed)
  BY DEF Surjection, Listed
<1>4. Cardinality(Listed) <= Cardinality(Used) /\ IsFiniteSet(Listed)
  BY <1>2, <1>3, FS_Surjection
<1> QED
  <2> HIDE DEF Used
  <2>1. Cardinality(Used) \in Nat /\ Cardinality(Listed) \in Nat
    BY <1>2, <1>4, FS_CardinalityType
  <2> QED
    BY <1>1, <1>2, <1>4, <2>1, TableAssumption

\* The mapping reads the handles, the rights and the threads of the operating
\* system only.
LEMMA SameStatus ==
  ASSUME UNCHANGED <<handle, mayJoin, mayDestroy, os>>
  PROVE  UNCHANGED StatusOf
BY DEF StatusOf, Status

LEMMA SameListed ==
  ASSUME UNCHANGED table
  PROVE  UNCHANGED Listed
BY DEF Listed

\* What the status of a thread says of it, while it has not been joined.
LEMMA UnjoinedStatus ==
  ASSUME NEW t \in Threads
  PROVE  /\ Unjoined(t) => StatusOf[t] \in {"running", "finished"}
         /\ Unjoined(t) => (StatusOf[t] = "running" <=> os[handle[t]] = "running")
         /\ ~Unjoined(t) => StatusOf[t] \in {"none", "joined"}
BY DEF StatusOf, Status, Unjoined

\* The two modules have the cardinality of the same standard module.
LEMMA SameCardinality == \A S : Service!Cardinality(S) = Cardinality(S)
BY DEF Service!Cardinality, Cardinality

\* The steps of the table list and unlist structures, and change no status.
LEMMA TableStepRefines ==
  ASSUME Inv, NEW p \in Procs, TableStep(p)
  PROVE  [Service!Next]_<<StatusOf, Listed>>
<1> USE TableAssumption DEF Inv
<1>0. UNCHANGED StatusOf
  BY TableFrame, SameStatus
<1>1. CASE InitClear(p)
  <2>1. UNCHANGED table
    BY <1>1 DEF InitClear, InitAlone, InitLabels, TypeOK
  <2> QED
    BY <1>0, <2>1, SameListed
<1>2. CASE RegFill(p)
  <2>1. /\ table' = [table EXCEPT ![idx[p]] = arg[p]]
        /\ table[idx[p]] = NULL /\ idx[p] \in Slots
        /\ arg[p] \in Threads /\ arg[p] \notin Listed
        /\ Unjoined(arg[p])
    BY <1>2 DEF RegFill, TypeOK, ScanInv, ScanOf, CallInv, CallOf, Works, Creates,
                RegLabels, UnlistedLabels, ResultInv, ResultOf, Listed, Unjoined
  <2>2. Listed' = Listed \cup {arg[p]}
    BY <2>1 DEF Listed, TypeOK
  <2>3. Service!List(arg[p])
    BY <1>0, <2>1, <2>2, FreeSlot, UnjoinedStatus, SameCardinality DEF Service!List
  <2> QED
    BY <2>1, <2>3 DEF Service!Next
<1>3. CASE UnregClear(p)
  <2>1. /\ table' = [table EXCEPT ![idx[p]] = NULL]
        /\ table[idx[p]] = arg[p] /\ idx[p] \in Slots
        /\ arg[p] \in Threads
        /\ mayDestroy[arg[p]] = p
        /\ state[arg[p]] = "TERMINATED"
    BY <1>3 DEF UnregClear, TypeOK, CallInv, CallOf, Works, DestroyLabels
  <2>2. Listed' = Listed \ {arg[p]} /\ arg[p] \in Listed
    BY <2>1 DEF Listed, TypeOK, TableInv
  <2>3. StatusOf[arg[p]] = "joined"
    BY <2>1 DEF StatusOf, Status, StructInv
  <2>4. Service!Unlist(arg[p])
    BY <1>0, <2>2, <2>3 DEF Service!Unlist
  <2> QED
    BY <2>1, <2>4 DEF Service!Next
<1>4. CASE UNCHANGED table
  BY <1>0, <1>4, SameListed
<1> QED
  BY <1>1, <1>2, <1>3, <1>4, TableWriters

\* The other steps of a call start, join and release threads, and list none.
LEMMA StepRefines ==
  ASSUME Inv, NEW p \in Procs, Step(p), ~TableStep(p)
  PROVE  [Service!Next]_<<StatusOf, Listed>>
<1> USE TableAssumption DEF Inv
<1>0. UNCHANGED Listed
  BY OutsideTable, SameListed
<1>1. CASE CreateSpawn(p)
  <2>1. PICK h \in Handles :
          /\ os[h] = "free"
          /\ os' = [os EXCEPT ![h] = "running"]
          /\ handle' = [handle EXCEPT ![arg[p]] = h]
    BY <1>1 DEF CreateSpawn
  <2>2. /\ arg[p] \in Threads
        /\ handle[arg[p]] = NULL
        /\ mayDestroy[arg[p]] = NULL
        /\ UNCHANGED <<mayJoin, mayDestroy>>
    BY <1>1 DEF CreateSpawn, TypeOK, CallInv, CallOf, Works, Creates, rightVars
  <2>3. \A u \in Threads \ {arg[p]} : Status(u)' = Status(u)
    BY <2>1, <2>2 DEF Status, TypeOK, HandleInv, Unjoined
  <2>4. UNCHANGED arg
    BY <1>1 DEF CreateSpawn
  <2>5. StatusOf[arg[p]] = "none"
    BY <2>2 DEF StatusOf, Status
  <2>6. Status(arg[p])' = "running"
    BY <2>1, <2>2, <2>4 DEF Status, TypeOK
  <2>7. StatusOf' = [StatusOf EXCEPT ![arg[p]] = "running"]
    BY <2>2, <2>3, <2>4, <2>6 DEF StatusOf
  <2>8. Service!Start(arg[p])
    BY <1>0, <2>5, <2>7 DEF Service!Start, Service!Set
  <2> QED
    BY <2>2, <2>8 DEF Service!Next
<1>2. CASE CreateNoThread(p)
  <2>1. handle[arg[p]] = NULL /\ arg[p] \in Threads
    BY <1>2 DEF CreateNoThread, TypeOK, CallInv, CallOf, Works
  <2>2. UNCHANGED StatusOf
    BY <1>2, <2>1 DEF CreateNoThread, Free, StatusOf, Status, TypeOK
  <2> QED
    BY <1>0, <2>2
<1>3. CASE CreateDone(p)
  <2>1. arg[p] \in Threads /\ mayDestroy[arg[p]] = NULL
    BY <1>3 DEF CreateDone, TypeOK, CallInv, CallOf, Works, Creates, RegLabels
  <2>2. UNCHANGED StatusOf
    BY <1>3, <2>1 DEF CreateDone, StatusOf, Status, TypeOK
  <2> QED
    BY <1>0, <2>2
<1>4. CASE CreateRollback(p)
  <2>1. arg[p] \in Threads /\ Unjoined(arg[p]) /\ arg[p] \notin Listed
    BY <1>4, FreedIsUnlisted
       DEF CreateRollback, TypeOK, CallInv, CallOf, Works, Creates, RegLabels,
           Unjoined, Listed
  <2>2. StatusOf' = [StatusOf EXCEPT ![arg[p]] = "none"]
    BY <1>4, <2>1 DEF CreateRollback, Free, StatusOf, Status, TypeOK
  <2>3. Service!Abandon(arg[p])
    BY <1>0, <2>1, <2>2, UnjoinedStatus DEF Service!Abandon, Service!Set
  <2> QED
    BY <2>1, <2>3 DEF Service!Next
<1>5. CASE JoinWait(p)
  <2>1. /\ arg[p] \in Threads
        /\ mayDestroy[arg[p]] # NULL
        /\ Unjoined(arg[p])
        /\ arg[p] \in Listed
    BY <1>5, ThreadAssumption
       DEF JoinWait, TypeOK, CallInv, CallOf, Works, JoinLabels, DestroyLabels,
           UnlistedLabels, StructInv, Unjoined, Listed, TableInv
  <2>2. StatusOf[arg[p]] = "finished"
    BY <1>5, <2>1, UnjoinedStatus DEF JoinWait
  <2>3. /\ os' = [os EXCEPT ![handle[arg[p]]] = "free"]
        /\ mayJoin' = [mayJoin EXCEPT ![arg[p]] = NULL]
        /\ UNCHANGED <<handle, mayDestroy>>
    BY <1>5 DEF JoinWait
  <2>4. \A u \in Threads \ {arg[p]} : Status(u)' = Status(u)
    BY <2>1, <2>3 DEF Status, TypeOK, HandleInv, Unjoined
  <2>5. StatusOf' = [StatusOf EXCEPT ![arg[p]] = "joined"]
    BY <2>1, <2>3, <2>4 DEF StatusOf, Status, TypeOK, Unjoined
  <2>6. Service!Join(arg[p])
    BY <1>0, <2>1, <2>2, <2>5 DEF Service!Join, Service!Set
  <2> QED
    BY <2>1, <2>6 DEF Service!Next
<1>6. CASE JoinFails(p) \/ JoinState(p) \/ JoinActive(p) \/ DestroyLook(p)
           \/ SelfReturn(p)
  BY <1>0, <1>6, SameStatus
     DEF JoinFails, JoinState, JoinActive, DestroyLook, SelfReturn, rightVars
<1>7. CASE DestroyFree(p)
  <2>1. arg[p] \in Threads /\ arg[p] \notin Listed
    BY <1>7, FreedIsUnlisted
       DEF DestroyFree, TypeOK, CallInv, CallOf, Works, DestroyLabels, Listed
  <2>2. StatusOf[arg[p]] = "joined"
    BY <1>7, <2>1
       DEF DestroyFree, CallInv, CallOf, DestroyLabels, StructInv, StatusOf, Status
  <2>3. StatusOf' = [StatusOf EXCEPT ![arg[p]] = "none"]
    BY <1>7, <2>1 DEF DestroyFree, Free, StatusOf, Status, TypeOK
  <2>4. Service!Release(arg[p])
    BY <1>0, <2>1, <2>2, <2>3 DEF Service!Release, Service!Set
  <2> QED
    BY <2>1, <2>4 DEF Service!Next
<1>8. ~DestroyNotFound(p) /\ ~DestroyDetach(p) /\ ~DestroyNoDetach(p)
  BY DEF DestroyNotFound, DestroyDetach, DestroyNoDetach, ResultInv, ResultOf,
         UnlistedLabels, CallInv, CallOf
<1> QED
  BY <1>1, <1>2, <1>3, <1>4, <1>5, <1>6, <1>7, <1>8 DEF Step

\* The function of a thread returns: Finish when the thread has a structure that
\* can join it, a stutter when a failed creation left it without one.
LEMMA ExitRefines ==
  ASSUME Inv, NEW h \in Handles, Exit(h)
  PROVE  [Service!Next]_<<StatusOf, Listed>>
<1> USE TableAssumption DEF Inv
<1>1. /\ UNCHANGED <<table, handle, mayJoin, mayDestroy>>
      /\ os[h] = "running"
      /\ os' = [os EXCEPT ![h] = "exited"]
  BY DEF Exit, InUserCode, WorkerInv, tableVars, rightVars
<1>2. UNCHANGED Listed
  BY <1>1, SameListed
<1>3. CASE \E t \in Threads : Unjoined(t) /\ handle[t] = h
  <2>1. PICK t \in Threads : Unjoined(t) /\ handle[t] = h
    BY <1>3
  <2>2. StatusOf[t] = "running"
    BY <1>1, <2>1, UnjoinedStatus
  <2>3. \A u \in Threads \ {t} : Status(u)' = Status(u)
    BY <1>1, <2>1 DEF Status, TypeOK, HandleInv, Unjoined
  <2>4. Status(t)' = "finished"
    BY <1>1, <2>1 DEF Status, TypeOK, Unjoined
  <2>5. StatusOf' = [StatusOf EXCEPT ![t] = "finished"]
    BY <2>3, <2>4 DEF StatusOf
  <2>6. Service!Finish(t)
    BY <1>2, <2>2, <2>5 DEF Service!Finish, Service!Set
  <2> QED
    BY <2>6 DEF Service!Next
<1>4. CASE ~\E t \in Threads : Unjoined(t) /\ handle[t] = h
  <2>1. \A u \in Threads : Status(u)' = Status(u)
    BY <1>1, <1>4 DEF Status, TypeOK, Unjoined
  <2> QED
    BY <1>2, <2>1 DEF StatusOf
<1> QED
  BY <1>3, <1>4

\* A right that changes hands is still somebody's.
LEMMA HandOffRefines ==
  ASSUME Inv, NEW c \in Callers, NEW d \in Callers, NEW t \in Threads,
         HandOff(c, d, t)
  PROVE  UNCHANGED <<StatusOf, Listed>>
<1>1. /\ UNCHANGED <<table, handle, os>>
      /\ \A u \in Threads : /\ mayJoin'[u] = NULL <=> mayJoin[u] = NULL
                            /\ mayDestroy'[u] = NULL <=> mayDestroy[u] = NULL
  BY TableAssumption, ThreadAssumption DEF Inv, TypeOK, HandOff, tableVars
<1>2. \A u \in Threads : Status(u)' = Status(u)
  BY <1>1 DEF Status
<1> QED
  BY <1>1, <1>2, SameListed DEF StatusOf

\* The thread API implements ThreadService.
THEOREM Refinement == Spec => ImplementsService
<1>1. Init => Service!Init
  BY DEF Init, Service!Init, StatusOf, Status, Listed
<1>2. ASSUME Inv, [Next]_vars PROVE [Service!Next]_<<StatusOf, Listed>>
  <2>1. ASSUME NEW p \in Procs, Call(p) \/ InitCall(p) \/ CleanupCall(p)
        PROVE  UNCHANGED <<table, handle, mayJoin, mayDestroy, os>>
    BY <2>1 DEF Call, SelfCall, CreateCall, JoinCall, DestroyCall, InitCall,
                CleanupCall, rightVars
  <2>2. CASE Act
    BY <1>2, <2>1, <2>2, TableStepRefines, StepRefines, ExitRefines,
       SameStatus, SameListed, ThreadAssumption DEF Act, Proceed
  <2>3. ASSUME NEW c \in Callers, NEW d \in Callers, NEW t \in Threads,
               HandOff(c, d, t)
        PROVE  UNCHANGED <<StatusOf, Listed>>
    BY <1>2, <2>3, HandOffRefines
  <2>4. CASE UNCHANGED vars
    BY <2>4, SameStatus, SameListed DEF vars, tableVars, rightVars
  <2> QED
    BY <1>2, <2>2, <2>3, <2>4 DEF Next, Act
<1>3. [Service!Next]_<<StatusOf, Listed>> => [Service!Next]_(Service!serviceVars)
  BY DEF Service!serviceVars
<1> QED
  BY Invariance, <1>1, <1>2, <1>3, PTL
     DEF Spec, ImplementsService, Service!Spec
===============================================================================

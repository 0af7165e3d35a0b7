------------------------------ MODULE ErrorCtx ------------------------------
(***************************************************************************)
(* The error system of tt_error.c: error_ctx, its mutex, and the functions *)
(* that threads, and the callback they call, run on it.  Every function    *)
(* tests error_ctx.initialized without the mutex and then takes the mutex; *)
(* every access that another thread could observe is a step.  A call that  *)
(* returns TT_ERROR_NOT_INITIALIZED at the test changes nothing, and       *)
(* tt_error_init of an open context neither: neither is a step.            *)
(*                                                                         *)
(* The callback is the client's code and runs in the thread that called    *)
(* tt_error_set_last.  It may call the error system again, and set_last    *)
(* inside it may call the callback again, down to MaxDepth.                *)
(*                                                                         *)
(* error_ctx.mutex is made before error_ctx.initialized becomes true and   *)
(* nothing resets mutex.initialized, so that tt_mutex_lock and             *)
(* tt_mutex_unlock do not fail in a call that passed the test.             *)
(***************************************************************************)
EXTENDS Naturals, TTMutex

CONSTANTS
  Errors,      \* the error codes
  SUCCESS,     \* TT_SUCCESS
  Callbacks,   \* the functions that are registered
  MaxDepth     \* bound: how deep callbacks nest in a thread

ASSUME CtxAssumption ==
  /\ MaxDepth \in Nat \ {0}
  /\ SUCCESS \notin Errors
  /\ NULL \notin Callbacks \cup Errors \cup Procs \cup MutexObjs \cup {SUCCESS}
  /\ NULL \notin Callbacks \X Errors

VARIABLES
  open,       \* error_ctx.initialized
  last,       \* error_ctx.last_error
  callback,   \* error_ctx.callback
  pc,         \* where each thread is
  err,        \* the parameter error of set_last
  cb,         \* the local callback of set_last, the parameter of register
  value,      \* what the last get_last of the thread has read
  depth,      \* how many callbacks the thread is in
  told        \* the callback called last, and what it was told

ctxVars == <<open, last, callback>>
localVars == <<err, cb>>
vars == <<mutexVars, ctxVars, pc, localVars, value, depth, told>>

Codes == Errors \cup {SUCCESS}
Functions == Callbacks \cup {NULL}

Waiting == {"deinit_lock", "get_lock", "set_lock", "register_lock"}
Holding == {"deinit_callback", "deinit_open", "deinit_unlock",
            "get_read", "get_unlock", "set_store", "set_take", "set_unlock",
            "register_store", "register_unlock"}
InitLabels == {"init_mutex", "init_last", "init_callback", "init_open"}

\* Where the client's code runs: outside the library, or in a callback.
ClientLabels == {"idle", "callback"}

Labels == Waiting \cup Holding \cup InitLabels \cup ClientLabels \cup {"set_report"}

TypeOK ==
  /\ MutexTypeOK
  /\ open \in BOOLEAN
  /\ last \in Codes
  /\ callback \in Functions
  /\ pc \in [Procs -> Labels]
  /\ err \in [Procs -> Codes]
  /\ cb \in [Procs -> Functions]
  /\ value \in [Procs -> Codes]
  /\ depth \in [Procs -> 0 .. MaxDepth]
  /\ told \in (Callbacks \X Errors) \cup {NULL}

Init ==
  /\ MutexZeroed
  /\ open = FALSE
  /\ last = SUCCESS
  /\ callback = NULL
  /\ pc = [p \in Procs |-> "idle"]
  /\ err = [p \in Procs |-> SUCCESS]
  /\ cb = [p \in Procs |-> NULL]
  /\ value = [p \in Procs |-> SUCCESS]
  /\ depth = [p \in Procs |-> 0]
  /\ told = NULL

Goto(p, l) == pc' = [pc EXCEPT ![p] = l]

\* Back to the code that made the call.
Return(p) ==
  /\ Goto(p, IF depth[p] = 0 THEN "idle" ELSE "callback")
  /\ err' = [err EXCEPT ![p] = SUCCESS]
  /\ cb' = [cb EXCEPT ![p] = NULL]

\* tt_mutex_lock(&error_ctx.mutex) between two labels.
LockCtx(p, from, to) ==
  /\ pc[p] = from
  /\ MutexLock(p)
  /\ Goto(p, to)
  /\ UNCHANGED <<ctxVars, localVars, value, depth, told>>

\* tt_mutex_unlock(&error_ctx.mutex), the last step of a function.
UnlockReturn(p, from) ==
  /\ pc[p] = from
  /\ MutexUnlock
  /\ Return(p)
  /\ UNCHANGED <<ctxVars, value, depth, told>>

\* The test of error_ctx.initialized at the start of a function.
Admitted(p, to) ==
  /\ pc[p] \in ClientLabels
  /\ open
  /\ Goto(p, to)
  /\ UNCHANGED <<mutexVars, ctxVars, value, depth, told>>

(***************************************************************************)
(* tt_error_init                                                           *)
(***************************************************************************)
InitCall(p) ==
  /\ pc[p] \in ClientLabels
  /\ ~open
  /\ Goto(p, "init_mutex")
  /\ UNCHANGED <<mutexVars, ctxVars, localVars, value, depth, told>>

InitMutex(p) ==
  /\ pc[p] = "init_mutex"
  /\ \E o \in MutexObjs : MutexInit(o)
  /\ Goto(p, "init_last")
  /\ UNCHANGED <<ctxVars, localVars, value, depth, told>>

\* tt_mutex_init fails.
InitNoMutex(p) ==
  /\ pc[p] = "init_mutex"
  /\ Return(p)
  /\ UNCHANGED <<mutexVars, ctxVars, value, depth, told>>

InitLast(p) ==
  /\ pc[p] = "init_last"
  /\ last' = SUCCESS
  /\ Goto(p, "init_callback")
  /\ UNCHANGED <<mutexVars, open, callback, localVars, value, depth, told>>

MutInitCallback(p) ==   \* the callback of the last session is kept
  /\ pc[p] = "init_callback"
  /\ Goto(p, "init_open")
  /\ UNCHANGED <<mutexVars, ctxVars, localVars, value, depth, told>>

InitCallback(p) ==
  /\ pc[p] = "init_callback"
  /\ callback' = NULL
  /\ Goto(p, "init_open")
  /\ UNCHANGED <<mutexVars, open, last, localVars, value, depth, told>>

InitOpen(p) ==
  /\ pc[p] = "init_open"
  /\ open' = TRUE
  /\ Return(p)
  /\ UNCHANGED <<mutexVars, last, callback, value, depth, told>>

(***************************************************************************)
(* tt_error_deinit                                                         *)
(***************************************************************************)
DeinitCall(p) == Admitted(p, "deinit_lock") /\ UNCHANGED localVars

DeinitLock(p) == LockCtx(p, "deinit_lock", "deinit_callback")

DeinitCallback(p) ==
  /\ pc[p] = "deinit_callback"
  /\ callback' = NULL
  /\ Goto(p, "deinit_open")
  /\ UNCHANGED <<mutexVars, open, last, localVars, value, depth, told>>

DeinitOpen(p) ==
  /\ pc[p] = "deinit_open"
  /\ open' = FALSE
  /\ Goto(p, "deinit_unlock")
  /\ UNCHANGED <<mutexVars, last, callback, localVars, value, depth, told>>

MutDeinitUnlock(p) ==   \* the unlock refuses a context that is closed
  /\ pc[p] = "deinit_unlock"
  /\ Return(p)
  /\ UNCHANGED <<mutexVars, ctxVars, value, depth, told>>

DeinitUnlock(p) == UnlockReturn(p, "deinit_unlock")

(***************************************************************************)
(* tt_error_get_last, and tt_error_is_success, which calls it              *)
(***************************************************************************)
GetCall(p) == Admitted(p, "get_lock") /\ UNCHANGED localVars

GetLock(p) == LockCtx(p, "get_lock", "get_read")

GetRead(p) ==
  /\ pc[p] = "get_read"
  /\ value' = [value EXCEPT ![p] = last]
  /\ Goto(p, "get_unlock")
  /\ UNCHANGED <<mutexVars, ctxVars, localVars, depth, told>>

GetUnlock(p) == UnlockReturn(p, "get_unlock")

(***************************************************************************)
(* tt_error_set_last(e), and tt_error_clear, which is set_last(TT_SUCCESS) *)
(***************************************************************************)
SetCall(p, e) ==
  /\ e # SUCCESS => depth[p] < MaxDepth
  /\ Admitted(p, "set_lock")
  /\ err' = [err EXCEPT ![p] = e]
  /\ UNCHANGED cb

MutSetLock(p) ==   \* tt_mutex_trylock, its TT_ERROR_BUSY ignored
  /\ pc[p] = "set_lock"
  /\ Goto(p, "set_store")
  /\ UNCHANGED <<mutexVars, ctxVars, localVars, value, depth, told>>

SetLock(p) == LockCtx(p, "set_lock", "set_store")

SetStore(p) ==
  /\ pc[p] = "set_store"
  /\ last' = err[p]
  /\ Goto(p, "set_take")
  /\ UNCHANGED <<mutexVars, open, callback, localVars, value, depth, told>>

SetTake(p) ==
  /\ pc[p] = "set_take"
  /\ cb' = [cb EXCEPT ![p] = callback]
  /\ Goto(p, "set_unlock")
  /\ UNCHANGED <<mutexVars, ctxVars, err, value, depth, told>>

MutSetUnlock(p) ==   \* the callback is called before the unlock
  /\ pc[p] = "set_unlock"
  /\ Goto(p, "set_report")
  /\ UNCHANGED <<mutexVars, ctxVars, localVars, value, depth, told>>

SetUnlock(p) ==
  /\ pc[p] = "set_unlock"
  /\ MutexUnlock
  /\ Goto(p, "set_report")
  /\ UNCHANGED <<ctxVars, localVars, value, depth, told>>

\* The body of set_last after the unlock, with f as the function it calls.
Report(p, f) ==
  /\ pc[p] = "set_report"
  /\ err' = [err EXCEPT ![p] = SUCCESS]
  /\ cb' = [cb EXCEPT ![p] = NULL]
  /\ IF f # NULL /\ err[p] # SUCCESS
       THEN /\ told' = <<f, err[p]>>
            /\ depth' = [depth EXCEPT ![p] = @ + 1]
            /\ Goto(p, "callback")
       ELSE /\ Goto(p, IF depth[p] = 0 THEN "idle" ELSE "callback")
            /\ UNCHANGED <<depth, told>>
  /\ UNCHANGED <<mutexVars, ctxVars, value>>

MutSetReport(p) ==   \* error_ctx.callback is read again after the unlock
  Report(p, callback)

MutReportSuccess(p) ==   \* the error is not compared with TT_SUCCESS
  /\ pc[p] = "set_report"
  /\ err' = [err EXCEPT ![p] = SUCCESS]
  /\ cb' = [cb EXCEPT ![p] = NULL]
  /\ IF cb[p] # NULL /\ depth[p] < MaxDepth
       THEN /\ told' = <<cb[p], err[p]>>
            /\ depth' = [depth EXCEPT ![p] = @ + 1]
            /\ Goto(p, "callback")
       ELSE /\ Goto(p, IF depth[p] = 0 THEN "idle" ELSE "callback")
            /\ UNCHANGED <<depth, told>>
  /\ UNCHANGED <<mutexVars, ctxVars, value>>

SetReport(p) == Report(p, cb[p])

(***************************************************************************)
(* tt_error_register_callback(f)                                           *)
(***************************************************************************)
RegisterCall(p, f) ==
  /\ Admitted(p, "register_lock")
  /\ cb' = [cb EXCEPT ![p] = f]
  /\ UNCHANGED err

RegisterLock(p) == LockCtx(p, "register_lock", "register_store")

RegisterStore(p) ==
  /\ pc[p] = "register_store"
  /\ callback' = cb[p]
  /\ Goto(p, "register_unlock")
  /\ UNCHANGED <<mutexVars, open, last, localVars, value, depth, told>>

RegisterUnlock(p) == UnlockReturn(p, "register_unlock")

(***************************************************************************)
(* The callback returns, and tt_error_set_last with it.                    *)
(***************************************************************************)
CallbackReturn(p) ==
  /\ pc[p] = "callback"
  /\ depth' = [depth EXCEPT ![p] = @ - 1]
  /\ Goto(p, IF depth[p] = 1 THEN "idle" ELSE "callback")
  /\ UNCHANGED <<mutexVars, ctxVars, localVars, value, told>>

(***************************************************************************)
(* The specifications                                                      *)
(***************************************************************************)
Step(p) ==
  \/ InitMutex(p) \/ InitNoMutex(p) \/ InitLast(p) \/ InitCallback(p) \/ InitOpen(p)
  \/ DeinitLock(p) \/ DeinitCallback(p) \/ DeinitOpen(p) \/ DeinitUnlock(p)
  \/ GetLock(p) \/ GetRead(p) \/ GetUnlock(p)
  \/ SetLock(p) \/ SetStore(p) \/ SetTake(p) \/ SetUnlock(p) \/ SetReport(p)
  \/ RegisterLock(p) \/ RegisterStore(p) \/ RegisterUnlock(p)

\* A new call other than tt_error_init, or the end of a callback.
Client(p) ==
  \/ DeinitCall(p) \/ GetCall(p)
  \/ \E e \in Codes : SetCall(p, e)
  \/ \E f \in Functions : RegisterCall(p, f)
  \/ CallbackReturn(p)

\* No call is under way.
Quiescent == \A p \in Procs : pc[p] = "idle"

\* tt_error_init is called while no other call is under way.  Other calls, of
\* tt_error_deinit too, begin at any time.
Next ==
  \/ \E p \in Procs : Step(p) \/ Client(p)
  \/ Quiescent /\ \E p \in Procs : InitCall(p)

Spec == Init /\ [][Next]_vars

\* Every thread that can go on inside the library does.  Callbacks need not end.
FairSpec == Spec /\ \A p \in Procs : WF_vars(Step(p))

\* tt_error_init is called at any time.
RacingNext == \E p \in Procs : Step(p) \/ Client(p) \/ InitCall(p)

RacingSpec == Init /\ [][RacingNext]_vars

(***************************************************************************)
(* Properties                                                              *)
(***************************************************************************)
\* The context is used by one thread at a time, the one that holds the pthread
\* mutex that error_ctx.mutex points to now.
CtxExclusive == \A p \in Procs : pc[p] \in Holding => owner[lock] = p

\* A thread holds no pthread mutex of the error system, of this session or of an
\* earlier one, when it waits for the mutex, when it has left the library and
\* when it runs the callback, so that the callback may call the error system.
NothingHeldOutside ==
  \A p \in Procs : \A o \in MutexObjs : owner[o] = p => pc[p] \in Holding

\* A session starts with TT_SUCCESS and no callback, whatever calls of an
\* earlier session were admitted before its tt_error_deinit and ended after it.
FreshSession ==
  [][~open /\ open' => last' = SUCCESS /\ callback' = NULL]_vars

\* The mutex is given back, through every path of the functions.
CtxReleased ==
  \A o \in MutexObjs : (owner[o] # NULL) ~> (owner[o] = NULL)

\* The callback that was registered when an error was stored is told of it, even
\* when another one is registered or the system closed meanwhile.
ErrorReported ==
  \A p \in Procs : \A f \in Callbacks, e \in Errors :
    (pc[p] = "set_take" /\ callback = f /\ err[p] = e)
      ~> (pc[p] = "callback" /\ told = <<f, e>>)

(***************************************************************************)
(* The error system implements ErrorService.  set_last takes effect when   *)
(* it stores the error: until it has copied the callback, the callback it  *)
(* owes a report to is the one of the context.                             *)
(***************************************************************************)
Admission ==
  {p \in Procs : pc[p] \in Waiting \cup
     {"deinit_callback", "deinit_open", "get_read", "set_store", "register_store"}}

Owed(p, f) == IF f = NULL \/ err[p] = SUCCESS THEN NULL ELSE <<f, err[p]>>

DueOf ==
  [p \in Procs |->
     CASE pc[p] = "set_take" -> Owed(p, callback)
       [] pc[p] \in {"set_unlock", "set_report"} -> Owed(p, cb[p])
       [] OTHER -> NULL]

Service ==
  INSTANCE ErrorService WITH admitted <- Admission, due <- DueOf

\* Every step of the error system is a step of ErrorService or changes nothing
\* of it.
ImplementsErrorService == Service!Spec
=============================================================================

---------------------------- MODULE ErrorService ----------------------------
(***************************************************************************)
(* What the error system promises, without its mutex and its steps.  A     *)
(* call is admitted while the system is open, and takes effect at one      *)
(* later moment: it stores an error and takes the callback registered at   *)
(* that moment, or reads the last error, or replaces the callback, or      *)
(* closes the system, from which no callback is registered.  The callback  *)
(* that was taken is told of the error, once, at any later time: after     *)
(* another one has been registered, or after the system has been closed.   *)
(***************************************************************************)
CONSTANTS Procs, Callbacks, Errors, NULL, SUCCESS

VARIABLES
  open,       \* calls are admitted
  last,       \* the last error
  callback,   \* the registered callback, or NULL
  admitted,   \* the threads whose call has been admitted and has no effect yet
  value,      \* value[p]: what the last read of p returned
  due,        \* due[p]: the callback and the error p has to tell it, or NULL
  told        \* the callback and the error of the last report

ctxVars == <<open, last, callback>>
serviceVars == <<ctxVars, admitted, value, due, told>>

Init ==
  /\ open = FALSE
  /\ last = SUCCESS
  /\ callback = NULL
  /\ admitted = {}
  /\ value = [p \in Procs |-> SUCCESS]
  /\ due = [p \in Procs |-> NULL]
  /\ told = NULL

\* Before it opens, the system forgets what it held when it was closed.
Reset ==
  /\ ~open /\ admitted = {}
  /\ \/ last' = SUCCESS /\ UNCHANGED callback
     \/ callback' = NULL /\ UNCHANGED last
  /\ UNCHANGED <<open, admitted, value, due, told>>

Open ==
  /\ ~open /\ admitted = {}
  /\ last = SUCCESS /\ callback = NULL
  /\ open' = TRUE
  /\ UNCHANGED <<last, callback, admitted, value, due, told>>

Admit(p) ==
  /\ open
  /\ admitted' = admitted \cup {p}
  /\ UNCHANGED <<ctxVars, value, due, told>>

Effect(p) == p \in admitted /\ admitted' = admitted \ {p}

Set(p, e) ==
  /\ Effect(p)
  /\ last' = e
  /\ due' = [due EXCEPT ![p] = IF e = SUCCESS \/ callback = NULL
                                 THEN NULL ELSE <<callback, e>>]
  /\ UNCHANGED <<open, callback, value, told>>

Get(p) ==
  /\ Effect(p)
  /\ value' = [value EXCEPT ![p] = last]
  /\ UNCHANGED <<ctxVars, due, told>>

Register(p, f) ==
  /\ Effect(p)
  /\ callback' = f
  /\ UNCHANGED <<open, last, value, due, told>>

\* A call that closes the system unregisters the callback first.
Unregister(p) ==
  /\ p \in admitted
  /\ callback' = NULL
  /\ UNCHANGED <<open, last, admitted, value, due, told>>

Close(p) ==
  /\ Effect(p)
  /\ callback = NULL
  /\ open' = FALSE
  /\ UNCHANGED <<last, callback, value, due, told>>

Tell(p) ==
  /\ due[p] # NULL
  /\ told' = due[p]
  /\ due' = [due EXCEPT ![p] = NULL]
  /\ UNCHANGED <<ctxVars, admitted, value>>

Next ==
  \/ Reset \/ Open
  \/ \E p \in Procs :
       \/ Admit(p) \/ Get(p) \/ Unregister(p) \/ Close(p) \/ Tell(p)
       \/ \E e \in Errors \cup {SUCCESS} : Set(p, e)
       \/ \E f \in Callbacks \cup {NULL} : Register(p, f)

Spec == Init /\ [][Next]_serviceVars
=============================================================================

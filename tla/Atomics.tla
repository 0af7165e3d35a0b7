------------------------------- MODULE Atomics -------------------------------
(***************************************************************************)
(* One tt_atomic_int_t of tt_atomic.c that threads share.  A call has its  *)
(* argument from its begin; each function is then one compiler builtin on  *)
(* one 32-bit word, and so one step, at which others may have changed the  *)
(* word since the call began; a sum that leaves the range wraps.           *)
(* tt_atomic_init is a plain store and comes before the threads.  The      *)
(* memory orders and tt_atomic_thread_fence order these steps with other   *)
(* accesses, of which there are none here.                                 *)
(*                                                                         *)
(* tt_atomic_compare_exchange is made for loops of the client.  The loop   *)
(* here adds an amount, and does not if the sum does not fit: it loads the *)
(* word, and tries to exchange it for the sum until no other thread has    *)
(* changed it since.  What the client computes between two calls is part   *)
(* of the step of the first.                                               *)
(*                                                                         *)
(* A null argument changes nothing and is left out.                        *)
(***************************************************************************)
EXTENDS Integers

CONSTANTS
  Procs,     \* the threads
  Half       \* 2^31 in the code: half the number of values of an int32_t

ASSUME AtomicAssumption == Half \in Nat \ {0}

VARIABLES
  value,      \* atomic->value
  doing,      \* doing[p]: the call that p has begun, "checked" in the loop
  amount,     \* amount[p]: the parameter value of that call, or what the loop adds
  seen        \* seen[p]: the last value p got: from load, add or sub, or stored
              \*   in *expected

vars == <<value, doing, amount, seen>>

Int32 == -Half .. Half - 1

Calls == {"store", "add", "sub"}

TypeOK ==
  /\ value \in Int32
  /\ doing \in [Procs -> Calls \cup {"nothing", "checked"}]
  /\ amount \in [Procs -> Int32]
  /\ seen \in [Procs -> Int32]

\* tt_atomic_init(atomic, value) has returned.
Init ==
  /\ value \in Int32
  /\ doing = [p \in Procs |-> "nothing"]
  /\ amount = [p \in Procs |-> 0]
  /\ seen = [p \in Procs |-> 0]

See(p) == seen' = [seen EXCEPT ![p] = value]

Load(p) ==
  /\ doing[p] = "nothing"
  /\ See(p)
  /\ UNCHANGED <<value, doing, amount>>

\* A call of another function begins, with the parameter d.
Begin(p, what, d) ==
  /\ doing[p] = "nothing"
  /\ doing' = [doing EXCEPT ![p] = what]
  /\ amount' = [amount EXCEPT ![p] = d]

Call(p, what, d) == Begin(p, what, d) /\ UNCHANGED <<value, seen>>

End(p) ==
  /\ doing' = [doing EXCEPT ![p] = "nothing"]
  /\ amount' = [amount EXCEPT ![p] = 0]

Store(p) ==
  /\ doing[p] = "store"
  /\ value' = amount[p]
  /\ End(p)
  /\ UNCHANGED seen

MutOverflow(x) == IF x > Half THEN 1 ELSE IF x < -Half THEN -1 ELSE 0   \* > for >=

\* How many times the sum or difference x of two words is beyond the range.
Overflow(x) == IF x >= Half THEN 1 ELSE IF x < -Half THEN -1 ELSE 0

MutFetch(p, x) ==   \* a sum that leaves the range stays at its end
  /\ See(p)
  /\ value' = CASE x >= Half -> Half - 1 [] x < -Half -> -Half [] OTHER -> x
  /\ End(p)

\* The builtin that returns the old value and makes x, wrapped, the new one.
Fetch(p, x) ==
  /\ See(p)
  /\ value' = x - (2 * Half) * Overflow(x)
  /\ End(p)

Add(p) == doing[p] = "add" /\ Fetch(p, value + amount[p])

Sub(p) == doing[p] = "sub" /\ Fetch(p, value - amount[p])

(***************************************************************************)
(* The loop around tt_atomic_compare_exchange                              *)
(***************************************************************************)
\* The load that begins it.  If the sum does not fit there is nothing to try.
TryAdd(p, d) ==
  /\ value + d \in Int32
  /\ Begin(p, "checked", d)
  /\ See(p)
  /\ UNCHANGED value

MutExchange(p) ==   \* a store of the sum, with no comparison
  /\ doing[p] = "checked"
  /\ value' = seen[p] + amount[p]
  /\ End(p)
  /\ UNCHANGED seen

\* It returns true: value is still what the sum was computed from.
Exchange(p) ==
  /\ doing[p] = "checked"
  /\ value = seen[p]
  /\ value' = seen[p] + amount[p]
  /\ End(p)
  /\ UNCHANGED seen

MutExchangeFails(p) ==   \* *expected is not written
  /\ doing[p] = "checked"
  /\ value # seen[p]
  /\ IF value + amount[p] \in Int32 THEN UNCHANGED <<doing, amount>> ELSE End(p)
  /\ UNCHANGED <<value, seen>>

\* It returns false and stores the value it has found in *expected.  The loop
\* goes on while the new sum fits.
ExchangeFails(p) ==
  /\ doing[p] = "checked"
  /\ value # seen[p]
  /\ See(p)
  /\ IF value + amount[p] \in Int32 THEN UNCHANGED <<doing, amount>> ELSE End(p)
  /\ UNCHANGED value

Attempt(p) == Exchange(p) \/ ExchangeFails(p)

Next ==
  \E p \in Procs :
    \/ Load(p) \/ Store(p) \/ Add(p) \/ Sub(p) \/ Attempt(p)
    \/ \E d \in Int32 : TryAdd(p, d) \/ \E what \in Calls : Call(p, what, d)

Spec == Init /\ [][Next]_vars

\* A thread in the loop goes on with it.
FairSpec == Spec /\ \A p \in Procs : WF_vars(Attempt(p))

(***************************************************************************)
(* Properties                                                              *)
(***************************************************************************)
Number == INSTANCE SharedInt

\* Every call changes the word once, at one moment, by exactly the argument it was
\* called with, modulo 2^32, and gets the value of just before.  So no addition is
\* lost or made twice, neither between the load of a loop and its exchange, by
\* other loops and by tt_atomic_add, nor between the begin of a call and its builtin;
\* none saturates; and a loop never stores a sum that does not fit.
ImplementsSharedInt == Number!Spec

\* A loop ends unless another thread changes the value again: of the threads that
\* try, one always succeeds.
LoopEnds ==
  \A p \in Procs, v \in Int32 :
    (doing[p] = "checked" /\ value = v) ~> (doing[p] # "checked" \/ value # v)
==============================================================================

----------------------------- MODULE SharedInt -----------------------------
(***************************************************************************)
(* What an atomic integer promises to the threads that share it.  A call   *)
(* names its argument when it begins, and takes effect at one moment       *)
(* before its end, with this argument and the value of that moment: a      *)
(* store puts it there, an addition or subtraction puts there the word     *)
(* that is equal to the sum or difference modulo the number of words.  A   *)
(* checked addition adds its amount at a moment when the sum is a word, or *)
(* gives up at a moment when it is not.                                    *)
(***************************************************************************)
EXTENDS Integers

CONSTANTS
  Procs,     \* the threads
  Half       \* half the number of words

VARIABLES
  value,    \* the integer
  doing,    \* doing[p]: the call of p that has not taken effect yet
  amount,   \* amount[p]: its argument
  seen      \* seen[p]: the integer when p looked last

intVars == <<value, doing, amount, seen>>

Word == -Half .. Half - 1

Init ==
  /\ value \in Word
  /\ doing = [p \in Procs |-> "nothing"]
  /\ amount = [p \in Procs |-> 0]
  /\ seen = [p \in Procs |-> 0]

\* p looks at the integer as it is before the step.
See(p) == seen' = [seen EXCEPT ![p] = value]

Look(p) ==
  /\ doing[p] \in {"nothing", "checked"}
  /\ See(p)
  /\ UNCHANGED <<value, doing, amount>>

Ask(p, what, d) ==
  /\ doing[p] = "nothing"
  /\ doing' = [doing EXCEPT ![p] = what]
  /\ amount' = [amount EXCEPT ![p] = d]
  /\ UNCHANGED value

\* The call of p takes effect; it does so once.
Effect(p, what) ==
  /\ doing[p] = what
  /\ doing' = [doing EXCEPT ![p] = "nothing"]
  /\ amount' = [amount EXCEPT ![p] = 0]

\* The integer becomes the word that is x modulo the number of words.
Becomes(x) == value' \in Word /\ (value' - x) % (2 * Half) = 0

Store(p) ==
  /\ Effect(p, "store")
  /\ value' = amount[p]
  /\ UNCHANGED seen

Add(p) == Effect(p, "add") /\ Becomes(value + amount[p]) /\ See(p)

Sub(p) == Effect(p, "sub") /\ Becomes(value - amount[p]) /\ See(p)

Succeed(p) ==
  /\ Effect(p, "checked")
  /\ value + amount[p] \in Word
  /\ value' = value + amount[p]
  /\ UNCHANGED seen

GiveUp(p) ==
  /\ Effect(p, "checked")
  /\ value + amount[p] \notin Word
  /\ See(p)
  /\ UNCHANGED value

Next ==
  \E p \in Procs :
    \/ Look(p) \/ Store(p) \/ Add(p) \/ Sub(p) \/ Succeed(p) \/ GiveUp(p)
    \/ \E d \in Word :
         \/ \E what \in {"store", "add", "sub"} : Ask(p, what, d) /\ UNCHANGED seen
         \/ Ask(p, "checked", d) /\ See(p)

Spec == Init /\ [][Next]_intVars
=============================================================================

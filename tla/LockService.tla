---------------------------- MODULE LockService ----------------------------
(***************************************************************************)
(* What the mutex API promises between an init and the destroy that ends   *)
(* it: at most one thread holds the lock, and the answers of trylock and   *)
(* is_locked are true at one moment of the call, except that a thread      *)
(* which looks at the lock may be taken for one that holds it.             *)
(***************************************************************************)
CONSTANTS Procs

VARIABLES
  ready,     \* between init and destroy
  holders,   \* the threads that have locked and not unlocked
  looking,   \* the threads that look at a free lock
  answer     \* answer[p]: what the last call of p has returned

lockVars == <<ready, holders, looking, answer>>

Init ==
  /\ ready = FALSE
  /\ holders = {}
  /\ looking = {}
  /\ answer = [p \in Procs |-> "none"]

Free == holders \cup looking = {}

Answer(p, a) == answer' = [answer EXCEPT ![p] = a]

Open(p) == ~ready /\ Free /\ ready' = TRUE /\ Answer(p, "success")

Close(p) == ready /\ Free /\ ready' = FALSE /\ Answer(p, "success")

Take(p) == ready /\ Free /\ holders' = {p} /\ Answer(p, "success")

Give(p) == p \in holders /\ holders' = holders \ {p} /\ Answer(p, "success")

Look(p) == ready /\ Free /\ looking' = {p}

LookAway(p) == p \in looking /\ looking' = looking \ {p} /\ Answer(p, "free")

\* An answer that changes nothing but what the caller knows.
Tell(p) ==
  \/ ready /\ ~Free /\ (Answer(p, "busy") \/ Answer(p, "locked"))
  \/ ready /\ Free /\ Answer(p, "free")
  \/ ~ready /\ (Answer(p, "refused") \/ Answer(p, "free"))

Next ==
  \E p \in Procs :
    \/ (Open(p) \/ Close(p)) /\ UNCHANGED <<holders, looking>>
    \/ (Take(p) \/ Give(p)) /\ UNCHANGED <<ready, looking>>
    \/ Look(p) /\ UNCHANGED <<ready, holders, answer>>
    \/ LookAway(p) /\ UNCHANGED <<ready, holders>>
    \/ Tell(p) /\ UNCHANGED <<ready, holders, looking>>

Spec == Init /\ [][Next]_lockVars
=============================================================================

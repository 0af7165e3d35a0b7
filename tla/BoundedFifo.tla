----------------------------- MODULE BoundedFifo -----------------------------
(***************************************************************************)
(* What a ring buffer promises: a queue of at most capacity bytes, first   *)
(* in first out.  A write to a full queue and a read of an empty one fail  *)
(* and change nothing.                                                     *)
(***************************************************************************)
EXTENDS Naturals, Sequences

CONSTANTS Bytes, MaxSize

VARIABLES
  items,      \* the bytes in the queue, the oldest first
  capacity,   \* how many it can hold, 0 before the first Open
  reply       \* the result of the last call and the byte it returned

fifoVars == <<items, capacity, reply>>

Init == items = <<>> /\ capacity = 0 /\ reply = <<"none">>

\* The queue starts anew, empty.
Open(n) ==
  /\ items' = <<>>
  /\ capacity' = n
  /\ reply' = <<"SUCCESS">>

Refuse(error) == reply' = <<error>> /\ UNCHANGED <<items, capacity>>

Put(b) ==
  IF Len(items) < capacity
    THEN /\ items' = Append(items, b)
         /\ reply' = <<"SUCCESS">>
         /\ UNCHANGED capacity
    ELSE Refuse("BUFFER_FULL")

Take ==
  IF items # <<>>
    THEN /\ items' = Tail(items)
         /\ reply' = <<"SUCCESS", Head(items)>>
         /\ UNCHANGED capacity
    ELSE Refuse("BUFFER_EMPTY")

Next ==
  \/ \E n \in 1 .. MaxSize : Open(n)
  \/ Refuse("INVALID_PARAM")
  \/ \E b \in Bytes : Put(b)
  \/ Take

Spec == Init /\ [][Next]_fifoVars
==============================================================================

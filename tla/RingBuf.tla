------------------------------- MODULE RingBuf -------------------------------
(***************************************************************************)
(* The ring buffer of tt_ringbuf.c, used by one thread: each function is   *)
(* one step.  The bytes are in memory of the client, which gives a buffer  *)
(* of any size and content to tt_ringbuf_init, again and again if it       *)
(* likes.  The structure starts as a static one, all zero: is_full and     *)
(* is_empty both hold, and neither write nor read reaches its % rb->size.  *)
(*                                                                         *)
(* A null argument is refused and changes nothing; it is left out.  So is  *)
(* the width of size_t: no field exceeds rb->size, which is a size_t, and  *)
(* rb->head + 1 is at most rb->size before the %.                          *)
(***************************************************************************)
EXTENDS Naturals, Sequences

CONSTANTS
  Bytes,     \* the values of a uint8_t
  MaxSize    \* bound: the largest buffer a client gives

ASSUME RingAssumption == MaxSize \in Nat \ {0}

VARIABLES
  buffer,   \* rb->buffer: the content of the memory
  size, head, tail, count,
  reply     \* the result of the last call, and the byte tt_ringbuf_read stores

ringVars == <<buffer, size, head, tail, count>>
vars == <<ringVars, reply>>

\* The indices of the buffer; both fields are 0 before the first init.
Indices == IF size = 0 THEN {0} ELSE 0 .. size - 1

TypeOK ==
  /\ size \in 0 .. MaxSize
  /\ buffer \in [0 .. size - 1 -> Bytes]
  /\ head \in Indices /\ tail \in Indices
  /\ count \in 0 .. size
  /\ \/ reply \in {<<"none">>, <<"SUCCESS">>, <<"BUFFER_FULL">>,
                   <<"BUFFER_EMPTY">>, <<"INVALID_PARAM">>}
     \/ \E b \in Bytes : reply = <<"SUCCESS", b>>

Init ==
  /\ buffer = <<>>
  /\ size = 0 /\ head = 0 /\ tail = 0 /\ count = 0
  /\ reply = <<"none">>

is_full == count = size

is_empty == count = 0

Refuse(error) == reply' = <<error>> /\ UNCHANGED ringVars

\* tt_ringbuf_init(rb, memory, n)
RingInit(n) ==
  IF n = 0
    THEN Refuse("INVALID_PARAM")
    ELSE /\ buffer' \in [0 .. n - 1 -> Bytes]
         /\ size' = n
         /\ head' = 0 /\ tail' = 0 /\ count' = 0
         /\ reply' = <<"SUCCESS">>

MutAdvanceLate(i) == (i + 1) % (size + 1)   \* wraps one place too late

\* The index after i.
Advance(i) == (i + 1) % size

MutWriteOver(b) ==   \* a full buffer is overwritten
  /\ size > 0
  /\ buffer' = [buffer EXCEPT ![head] = b]
  /\ head' = Advance(head)
  /\ count' = IF is_full THEN count ELSE count + 1
  /\ reply' = <<"SUCCESS">>
  /\ UNCHANGED <<size, tail>>

Write(b) ==
  IF is_full
    THEN Refuse("BUFFER_FULL")
    ELSE /\ buffer' = [buffer EXCEPT ![head] = b]
         /\ head' = Advance(head)
         /\ count' = count + 1
         /\ reply' = <<"SUCCESS">>
         /\ UNCHANGED <<size, tail>>

MutReadKeep ==   \* count is not decremented
  IF is_empty
    THEN Refuse("BUFFER_EMPTY")
    ELSE /\ reply' = <<"SUCCESS", buffer[tail]>>
         /\ tail' = Advance(tail)
         /\ UNCHANGED <<buffer, size, head, count>>

Read ==
  IF is_empty
    THEN Refuse("BUFFER_EMPTY")
    ELSE /\ reply' = <<"SUCCESS", buffer[tail]>>
         /\ tail' = Advance(tail)
         /\ count' = count - 1
         /\ UNCHANGED <<buffer, size, head>>

Next ==
  \/ \E n \in 0 .. MaxSize : RingInit(n)
  \/ \E b \in Bytes : Write(b)
  \/ Read

Spec == Init /\ [][Next]_vars

(***************************************************************************)
(* Properties                                                              *)
(***************************************************************************)
\* The place k places after i.
Place(i, k) == IF i + k < size THEN i + k ELSE i + k - size

\* The three fields agree: head is count places after tail, so that full and
\* empty, where head equals tail, are told apart by count alone.
FieldsAgree == head = Place(tail, count)

\* The bytes from tail on are those written and not read yet, in order.
Items == [i \in 1 .. count |-> buffer[Place(tail, i - 1)]]

Fifo == INSTANCE BoundedFifo WITH items <- Items, capacity <- size

\* The ring buffer is a first in, first out queue of rb->size bytes; it loses no
\* byte, returns none twice and refuses only when it is full or empty, wherever
\* head and tail have wrapped to.
ImplementsFifo == Fifo!Spec
==============================================================================

---------------------------- MODULE RingBufProofs ----------------------------
(***************************************************************************)
(* The fields of the ring buffer agree, and it implements BoundedFifo, for *)
(* every set of bytes and every size.  TypeOK and FieldsAgree together are *)
(* inductive.  The only arithmetic the code has is (i + 1) % size; under   *)
(* TypeOK it is Place(i, 1) (AdvanceIs), and places add up (PlaceSum), so  *)
(* that a write puts its byte behind the last item and a read moves every  *)
(* item one place forward.                                                 *)
(***************************************************************************)
EXTENDS RingBuf, TLAPS

\* The index after i, without the remainder.
LEMMA AdvanceIs ==
  ASSUME TypeOK, size > 0, NEW i \in 0 .. size - 1
  PROVE  /\ Advance(i) = Place(i, 1)
         /\ Advance(i) \in 0 .. size - 1
<1>1. size \in Nat /\ i \in Nat
  BY RingAssumption DEF TypeOK
<1>2. CASE i + 1 < size
  BY <1>1, <1>2 DEF Advance, Place
<1>3. CASE i + 1 = size
  BY <1>1, <1>3 DEF Advance, Place
<1> QED
  BY <1>1, <1>2, <1>3

\* Places add up.
LEMMA PlaceSum ==
  ASSUME TypeOK, size > 0, NEW i \in 0 .. size - 1, NEW k \in 0 .. size
  PROVE  /\ k < size => Place(i, k) \in 0 .. size - 1
         /\ k < size => Place(Place(i, 1), k) = Place(i, k + 1)
         /\ k < size => Place(Place(i, k), 1) = Place(i, k + 1)
BY RingAssumption DEF TypeOK, Place

\* The inductive invariant.
Ring == TypeOK /\ FieldsAgree

\* Initially every field is 0.
LEMMA InitRing == Init => Ring
BY RingAssumption DEF Init, Ring, TypeOK, FieldsAgree, Place, Indices

\* A write moves head, a read moves tail, and count goes with them.
LEMMA StepRing == Ring /\ [Next]_vars => Ring'
<1> USE RingAssumption
<1> SUFFICES ASSUME Ring, [Next]_vars PROVE Ring'
  OBVIOUS
<1>1. CASE UNCHANGED vars
  BY <1>1 DEF vars, ringVars, Ring, TypeOK, FieldsAgree, Place, Indices
<1>2. ASSUME NEW e \in {"INVALID_PARAM", "BUFFER_FULL", "BUFFER_EMPTY"}, Refuse(e)
      PROVE  Ring'
  BY <1>2 DEF Refuse, ringVars, Ring, TypeOK, FieldsAgree, Place, Indices
<1>3. ASSUME NEW n \in 0 .. MaxSize, RingInit(n) PROVE Ring'
  <2>1. CASE n = 0
    BY <1>2, <1>3, <2>1 DEF RingInit
  <2>2. CASE n # 0
    <3>1. /\ n \in Nat /\ n > 0 /\ size' = n
          /\ buffer' \in [0 .. n - 1 -> Bytes]
          /\ head' = 0 /\ tail' = 0 /\ count' = 0
          /\ reply' = <<"SUCCESS">>
      BY <1>3, <2>2 DEF RingInit
    <3> QED
      BY <3>1 DEF Ring, TypeOK, FieldsAgree, Place, Indices
  <2> QED
    BY <2>1, <2>2
<1>4. ASSUME NEW b \in Bytes, Write(b) PROVE Ring'
  <2>1. CASE is_full
    BY <1>2, <1>4, <2>1 DEF Write
  <2>2. CASE ~is_full
    <3>1. size > 0 /\ head \in 0 .. size - 1 /\ tail \in 0 .. size - 1
          /\ count \in 0 .. size - 1 /\ size \in Nat
      BY <2>2 DEF is_full, Ring, TypeOK, Indices
    <3>2. head' = Place(head, 1) /\ head' \in 0 .. size - 1
      BY <1>4, <2>2, <3>1, AdvanceIs DEF Write, Ring
    <3>3. head' = Place(tail, count + 1)
      BY <3>1, <3>2, PlaceSum DEF Ring, FieldsAgree
    <3> QED
      BY <1>4, <2>2, <3>1, <3>2, <3>3
         DEF Write, Ring, TypeOK, FieldsAgree, Place, Indices
  <2> QED
    BY <2>1, <2>2
<1>5. ASSUME Read PROVE Ring'
  <2>1. CASE is_empty
    BY <1>2, <1>5, <2>1 DEF Read
  <2>2. CASE ~is_empty
    <3>1. size > 0 /\ head \in 0 .. size - 1 /\ tail \in 0 .. size - 1
          /\ count \in 1 .. size /\ size \in Nat
      BY <2>2 DEF is_empty, Ring, TypeOK, Indices
    <3>2. tail' = Place(tail, 1) /\ tail' \in 0 .. size - 1
      BY <1>5, <2>2, <3>1, AdvanceIs DEF Read, Ring
    <3>3. head = Place(tail', count - 1)
      BY <3>1, <3>2, PlaceSum, count - 1 \in 0 .. size DEF Ring, FieldsAgree
    <3>4. buffer[tail] \in Bytes
      BY <3>1 DEF Ring, TypeOK
    <3> QED
      BY <1>5, <2>2, <3>1, <3>2, <3>3, <3>4
         DEF Read, Ring, TypeOK, FieldsAgree, Place, Indices
  <2> QED
    BY <2>1, <2>2
<1> QED
  BY <1>1, <1>3, <1>4, <1>5 DEF Next

\* The fields keep their ranges: head and tail never leave the buffer, and count
\* never exceeds it.
THEOREM RingType == Spec => []TypeOK
<1>1. Ring => TypeOK
  BY DEF Ring
<1> QED
  BY InitRing, StepRing, <1>1, PTL DEF Spec

\* head, tail and count agree with each other.
THEOREM RingInvariance == Spec => []FieldsAgree
<1>1. Ring => FieldsAgree
  BY DEF Ring
<1> QED
  BY InitRing, StepRing, <1>1, PTL DEF Spec

-------------------------------------------------------------------------------
\* The items are bytes, count of them.
LEMMA ItemsType ==
  ASSUME Ring
  PROVE  Items \in Seq(Bytes) /\ Len(Items) = count
<1> USE RingAssumption DEF Ring
<1>1. count \in Nat /\ count <= size /\ size \in Nat
  BY DEF TypeOK
<1>2. ASSUME NEW i \in 1 .. count PROVE buffer[Place(tail, i - 1)] \in Bytes
  <2>1. size > 0 /\ tail \in 0 .. size - 1 /\ i - 1 \in 0 .. size - 1
    BY <1>1, <1>2 DEF TypeOK, Indices
  <2>2. Place(tail, i - 1) \in 0 .. size - 1
    BY <1>1, <2>1 DEF Place
  <2> QED
    BY <2>2 DEF TypeOK
<1>3. Items \in [1 .. count -> Bytes]
  BY <1>2 DEF Items
<1> QED
  BY <1>1, <1>3

\* A write that is not refused appends its byte.
LEMMA WriteAppends ==
  ASSUME Ring, NEW b \in Bytes, Write(b), ~is_full
  PROVE  Items' = Append(Items, b)
<1> USE RingAssumption DEF Ring
<1>1. /\ size \in Nat /\ size > 0 /\ size' = size
      /\ head \in 0 .. size - 1 /\ tail \in 0 .. size - 1 /\ tail' = tail
      /\ count \in 0 .. size - 1 /\ count' = count + 1
      /\ head = Place(tail, count)
      /\ buffer \in [0 .. size - 1 -> Bytes]
      /\ buffer' = [buffer EXCEPT ![head] = b]
  BY DEF Write, is_full, TypeOK, Indices, FieldsAgree
<1>2. ASSUME NEW i \in 1 .. count + 1
      PROVE  buffer'[Place(tail, i - 1)'] =
               IF i = count + 1 THEN b ELSE buffer[Place(tail, i - 1)]
  <2>1. Place(tail, i - 1)' = Place(tail, i - 1)
    BY <1>1 DEF Place
  <2>2. Place(tail, i - 1) \in 0 .. size - 1
    BY <1>1 DEF Place
  <2>3. i # count + 1 => Place(tail, i - 1) # head
    BY <1>1 DEF Place
  <2>4. i = count + 1 => Place(tail, i - 1) = head
    BY <1>1
  <2> QED
    BY <1>1, <2>1, <2>2, <2>3, <2>4
<1>3. Items \in Seq(Bytes) /\ Len(Items) = count
  BY ItemsType
<1>4. Append(Items, b) =
        [i \in 1 .. count + 1 |-> IF i = count + 1 THEN b ELSE Items[i]]
  BY <1>1, <1>3
<1>5. Items' = [i \in 1 .. count + 1 |-> buffer'[Place(tail, i - 1)']]
  BY <1>1 DEF Items, Place
<1>6. ASSUME NEW i \in 1 .. count + 1
      PROVE  buffer'[Place(tail, i - 1)'] =
               IF i = count + 1 THEN b ELSE Items[i]
  <2>1. i # count + 1 => i \in 1 .. count
    BY <1>1
  <2> QED
    BY <1>2, <2>1 DEF Items
<1> QED
  BY <1>4, <1>5, <1>6

\* A read that is not refused returns the first byte and removes it.
LEMMA ReadTakes ==
  ASSUME Ring, Read, ~is_empty
  PROVE  /\ Items # <<>>
         /\ reply' = <<"SUCCESS", Head(Items)>>
         /\ Items' = Tail(Items)
<1> USE RingAssumption DEF Ring
<1>1. /\ size \in Nat /\ size > 0 /\ size' = size
      /\ tail \in 0 .. size - 1 /\ tail' = Place(tail, 1)
      /\ count \in 1 .. size /\ count' = count - 1
      /\ buffer' = buffer
      /\ reply' = <<"SUCCESS", buffer[tail]>>
  BY AdvanceIs DEF Read, is_empty, TypeOK, Indices
<1>2. Items \in Seq(Bytes) /\ Len(Items) = count
  BY ItemsType
<1>3. Items # <<>> /\ Head(Items) = buffer[tail]
  <2>1. Place(tail, 1 - 1) = tail
    BY <1>1 DEF Place
  <2> QED
    BY <1>1, <1>2, <2>1 DEF Items
<1>4. Tail(Items) = [i \in 1 .. count - 1 |-> buffer[Place(tail, i)]]
  BY <1>1, <1>2 DEF Items
<1>5. ASSUME NEW i \in 1 .. count - 1 PROVE Place(tail, i - 1)' = Place(tail, i)
  BY <1>1 DEF Place
<1>6. Items' = [i \in 1 .. count - 1 |-> buffer[Place(tail, i - 1)']]
  BY <1>1 DEF Items, Place
<1> QED
  BY <1>1, <1>3, <1>4, <1>5, <1>6

\* The ring buffer is a bounded first in, first out queue.
THEOREM RingImplementsFifo == Spec => ImplementsFifo
<1> USE RingAssumption
<1>1. Init => Fifo!Init
  BY DEF Init, Fifo!Init, Items
<1>2. ASSUME Ring, [Next]_vars PROVE [Fifo!Next]_(Fifo!fifoVars)
  <2>1. ASSUME UNCHANGED ringVars PROVE UNCHANGED <<Items, size>>
    BY <2>1 DEF ringVars, Items, Place
  <2>2. ASSUME NEW n \in 0 .. MaxSize, RingInit(n)
        PROVE  Fifo!Next
    <3>1. CASE n = 0
      BY <2>1, <2>2, <3>1 DEF RingInit, Refuse, Fifo!Next, Fifo!Refuse
    <3>2. CASE n # 0
      <4>1. Items' = <<>>
        BY <2>2, <3>2 DEF RingInit, Items
      <4> QED
        BY <2>2, <3>2, <4>1 DEF RingInit, Fifo!Next, Fifo!Open
    <3> QED
      BY <3>1, <3>2
  <2>3. ASSUME NEW b \in Bytes, Write(b) PROVE Fifo!Next
    <3>1. Len(Items) = count /\ (Len(Items) < size <=> ~is_full)
      BY <1>2, ItemsType DEF Ring, TypeOK, is_full
    <3>2. CASE is_full
      BY <2>1, <2>3, <3>1, <3>2 DEF Write, Refuse, Fifo!Next, Fifo!Put, Fifo!Refuse
    <3>3. CASE ~is_full
      BY <1>2, <2>3, <3>1, <3>3, WriteAppends DEF Write, Fifo!Next, Fifo!Put
    <3> QED
      BY <3>2, <3>3
  <2>4. ASSUME Read PROVE Fifo!Next
    <3>1. CASE is_empty
      <4>1. Items = <<>>
        BY <3>1 DEF is_empty, Items
      <4> QED
        BY <2>1, <2>4, <3>1, <4>1 DEF Read, Refuse, Fifo!Next, Fifo!Take, Fifo!Refuse
    <3>2. CASE ~is_empty
      BY <1>2, <2>4, <3>2, ReadTakes DEF Read, Fifo!Next, Fifo!Take
    <3> QED
      BY <3>1, <3>2
  <2>5. CASE UNCHANGED vars
    BY <2>1, <2>5 DEF vars, Fifo!fifoVars
  <2> QED
    BY <1>2, <2>2, <2>3, <2>4, <2>5 DEF Next
<1> QED
  BY InitRing, StepRing, <1>1, <1>2, PTL DEF Spec, ImplementsFifo, Fifo!Spec
===============================================================================

---------------------------- MODULE AtomicsProofs ----------------------------
(***************************************************************************)
(* Theorems about Atomics: the word keeps its range, and it is the integer *)
(* of SharedInt, for every width and number of threads.                    *)
(***************************************************************************)
EXTENDS Atomics, TLAPS

(***************************************************************************)
(* Words                                                                   *)
(***************************************************************************)
LEMMA ZeroIsWord == 0 \in Int32
BY AtomicAssumption DEF Int32

\* The sums and differences of two words.
Sums == -(2 * Half) .. 2 * Half - 1

LEMMA SumOfWords ==
  ASSUME NEW v \in Int32, NEW d \in Int32
  PROVE  v + d \in Sums /\ v - d \in Sums
BY AtomicAssumption DEF Int32, Sums

\* A sum x of two words, brought back by Overflow, is a word.
LEMMA WrapIsWord ==
  ASSUME NEW x \in Sums
  PROVE  /\ Overflow(x) \in {-1, 0, 1}
         /\ x - (2 * Half) * Overflow(x) \in Int32
<1> USE DEF Sums
<1>1. CASE x >= Half
  BY <1>1, AtomicAssumption DEF Overflow, Int32
<1>2. CASE x < -Half
  BY <1>2, AtomicAssumption DEF Overflow, Int32
<1>3. CASE x \in Int32
  BY <1>3, AtomicAssumption DEF Overflow, Int32
<1>. QED  BY <1>1, <1>2, <1>3, AtomicAssumption DEF Int32

\* Bringing back by whole turns of the range changes nothing modulo the range.
LEMMA TurnIsZero ==
  ASSUME NEW k \in {-1, 0, 1}
  PROVE  (-((2 * Half) * k)) % (2 * Half) = 0
<1> DEFINE m == 2 * Half
<1>1. m \in Nat /\ m > 0
  BY AtomicAssumption
<1>2. -(m * k) \in {m, 0, -m}
  BY <1>1
<1> HIDE DEF m
<1>3. m % m = 0 /\ 0 % m = 0 /\ (-m) % m = 0
  BY <1>1
<1>4. (-(m * k)) % m = 0
  BY <1>2, <1>3
<1>. QED  BY <1>4 DEF m

LEMMA WrapIsEqual ==
  ASSUME NEW x \in Sums
  PROVE  ((x - (2 * Half) * Overflow(x)) - x) % (2 * Half) = 0
<1>1. Overflow(x) \in {-1, 0, 1}
  BY WrapIsWord
<1>2. (x - (2 * Half) * Overflow(x)) - x = -((2 * Half) * Overflow(x))
  BY <1>1, AtomicAssumption DEF Sums
<1>. QED  BY <1>1, <1>2, TurnIsZero

(***************************************************************************)
(* The range of the word                                                   *)
(***************************************************************************)
\* The inductive invariant: besides TypeOK, a loop tries only sums that fit.
Inv ==
  /\ TypeOK
  /\ \A p \in Procs : doing[p] = "checked" => seen[p] + amount[p] \in Int32

\* Initially nobody tries anything.
LEMMA InitInv == Init => Inv
BY ZeroIsWord DEF Init, Inv, TypeOK

\* The end of a call leaves nothing of it.
LEMMA EndInv ==
  ASSUME Inv, NEW p \in Procs, End(p), value' \in Int32,
         \/ UNCHANGED seen
         \/ See(p)
  PROVE  Inv'
<1>1. TypeOK'
  BY ZeroIsWord DEF End, See, Inv, TypeOK
<1>2. \A q \in Procs : doing'[q] = "checked" =>
        seen'[q] = seen[q] /\ amount'[q] = amount[q] /\ doing[q] = "checked"
  BY DEF End, See, Inv, TypeOK
<1>. QED  BY <1>1, <1>2 DEF Inv

\* Every step keeps the range and the sums.
LEMMA StepInv == Inv /\ [Next]_vars => Inv'
<1> SUFFICES ASSUME Inv, [Next]_vars PROVE Inv'
  OBVIOUS
<1>1. CASE UNCHANGED vars
  BY <1>1 DEF vars, Inv, TypeOK
<1>2. ASSUME NEW p \in Procs, Load(p) PROVE Inv'
  BY <1>2 DEF Load, See, Inv, TypeOK
<1>3. ASSUME NEW p \in Procs, Store(p) PROVE Inv'
  BY <1>3, EndInv DEF Store, Inv, TypeOK
<1>4. ASSUME NEW p \in Procs, Add(p) \/ Sub(p) PROVE Inv'
  <2>1. value + amount[p] \in Sums /\ value - amount[p] \in Sums
    BY SumOfWords DEF Inv, TypeOK
  <2>. QED  BY <1>4, <2>1, WrapIsWord, EndInv DEF Add, Sub, Fetch
<1>5. ASSUME NEW p \in Procs, NEW d \in Int32, NEW what \in Calls, Call(p, what, d)
      PROVE  Inv'
  BY <1>5 DEF Call, Begin, Calls, Inv, TypeOK
<1>6. ASSUME NEW p \in Procs, NEW d \in Int32, TryAdd(p, d) PROVE Inv'
  <2>1. TypeOK'
    BY <1>6 DEF TryAdd, Begin, See, Inv, TypeOK
  <2>2. \A q \in Procs : doing'[q] = "checked" => seen'[q] + amount'[q] \in Int32
    BY <1>6 DEF TryAdd, Begin, See, Inv, TypeOK
  <2>. QED  BY <2>1, <2>2 DEF Inv
<1>7. ASSUME NEW p \in Procs, Exchange(p) PROVE Inv'
  BY <1>7, EndInv DEF Exchange, Inv
<1>8. ASSUME NEW p \in Procs, ExchangeFails(p) PROVE Inv'
  <2>1. CASE value + amount[p] \in Int32
    BY <1>8, <2>1 DEF ExchangeFails, See, Inv, TypeOK
  <2>2. CASE value + amount[p] \notin Int32
    BY <1>8, <2>2, EndInv DEF ExchangeFails, Inv, TypeOK
  <2>. QED  BY <2>1, <2>2
<1>. QED
  BY <1>1, <1>2, <1>3, <1>4, <1>5, <1>6, <1>7, <1>8 DEF Next, Attempt

\* The word stays in its range after any additions and subtractions, and a loop
\* stores only sums that fit.
THEOREM RangeKept == Spec => []TypeOK
<1>1. Inv => TypeOK
  BY DEF Inv
<1>. QED  BY InitInv, StepInv, <1>1, PTL DEF Spec

(***************************************************************************)
(* The word is the integer of SharedInt                                    *)
(***************************************************************************)
\* Initially nothing has been called.
LEMMA InitNumber == Init => Number!Init
BY DEF Init, Number!Init, Number!Word, Int32

\* The builtins leave the word that is the sum, or the difference, modulo the range.
LEMMA FetchBecomes ==
  ASSUME NEW p \in Procs, NEW x \in Sums, Fetch(p, x)
  PROVE  Number!Becomes(x) /\ Number!See(p)
<1>1. value' \in Number!Word /\ (value' - x) % (2 * Half) = 0
  BY WrapIsWord, WrapIsEqual DEF Fetch, Number!Word, Int32
<1>. QED  BY <1>1 DEF Number!Becomes, Number!See, Fetch, See

\* Every step of a thread is one of SharedInt, or changes nothing that it shows.
LEMMA StepNumber == Inv /\ [Next]_vars => [Number!Next]_(Number!intVars)
<1> SUFFICES ASSUME Inv, [Next]_vars PROVE [Number!Next]_(Number!intVars)
  OBVIOUS
<1> USE DEF Number!See, See
<1>1. CASE UNCHANGED vars
  BY <1>1 DEF vars, Number!intVars
<1>2. ASSUME NEW p \in Procs, Load(p) PROVE Number!Look(p)
  BY <1>2 DEF Load, Number!Look
<1>3. ASSUME NEW p \in Procs, Store(p) PROVE Number!Store(p)
  BY <1>3 DEF Store, End, Number!Store, Number!Effect
<1>4. ASSUME NEW p \in Procs, Add(p) \/ Sub(p) PROVE Number!Add(p) \/ Number!Sub(p)
  <2>1. value + amount[p] \in Sums /\ value - amount[p] \in Sums
    BY SumOfWords DEF Inv, TypeOK
  <2>2. CASE Add(p)
    BY <2>1, <2>2, FetchBecomes DEF Add, Fetch, End, Number!Add, Number!Effect
  <2>3. CASE Sub(p)
    BY <2>1, <2>3, FetchBecomes DEF Sub, Fetch, End, Number!Sub, Number!Effect
  <2>. QED  BY <1>4, <2>2, <2>3
<1>5. ASSUME NEW p \in Procs, NEW d \in Int32, NEW what \in Calls, Call(p, what, d)
      PROVE  Number!Next
  <2>1. d \in Number!Word /\ what \in {"store", "add", "sub"}
    BY DEF Number!Word, Int32, Calls
  <2>2. Number!Ask(p, what, d) /\ UNCHANGED seen
    BY <1>5 DEF Call, Begin, Number!Ask
  <2>. QED  BY <2>1, <2>2 DEF Number!Next
<1>6. ASSUME NEW p \in Procs, NEW d \in Int32, TryAdd(p, d) PROVE Number!Next
  <2>1. d \in Number!Word
    BY DEF Number!Word, Int32
  <2>2. Number!Ask(p, "checked", d) /\ Number!See(p)
    BY <1>6 DEF TryAdd, Begin, Number!Ask
  <2>. QED  BY <2>1, <2>2 DEF Number!Next
<1>7. ASSUME NEW p \in Procs, Exchange(p) PROVE Number!Succeed(p)
  <2>1. value + amount[p] \in Number!Word
    BY <1>7 DEF Exchange, Inv, Number!Word, Int32
  <2>. QED  BY <1>7, <2>1 DEF Exchange, End, Number!Succeed, Number!Effect
<1>8. ASSUME NEW p \in Procs, ExchangeFails(p)
      PROVE  Number!GiveUp(p) \/ Number!Look(p)
  <2>1. CASE value + amount[p] \in Int32
    BY <1>8, <2>1 DEF ExchangeFails, Number!Look
  <2>2. CASE value + amount[p] \notin Int32
    BY <1>8, <2>2 DEF ExchangeFails, End, Number!GiveUp, Number!Effect, Number!Word, Int32
  <2>. QED  BY <2>1, <2>2
<1>. QED
  BY <1>1, <1>2, <1>3, <1>4, <1>5, <1>6, <1>7, <1>8 DEF Next, Attempt, Number!Next

\* Every call on the word that threads share takes effect once, at one moment, with
\* exactly its argument.
THEOREM Refinement == Spec => ImplementsSharedInt
<1>. QED
  BY InitInv, StepInv, InitNumber, StepNumber, PTL DEF Spec, ImplementsSharedInt, Number!Spec
==============================================================================

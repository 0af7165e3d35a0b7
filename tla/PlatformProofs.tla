--------------------------- MODULE PlatformProofs ---------------------------
(***************************************************************************)
(* Theorems about Platform, for every number of threads and every build.   *)
(* The argument is that a thread sets the flag after it has written every  *)
(* part, and that a late thread writes parts that are already written,     *)
(* with the constants that are there or with readings of its own.          *)
(***************************************************************************)
EXTENDS Platform, TLAPS

\* An init function writes parts of the description, for a platform only.
LEMMA WrittenParts ==
  ASSUME TypeOK
  PROVE  /\ Written \subseteq Parts
         /\ build.macro = "none" => Written = {}
<1>1. build.macro \in {"linux", "arduino", "freertos", "none"}
  BY PlatformAssumption DEF TypeOK, Platforms
<1>. QED
  BY <1>1 DEF Written, PartsOf, LinuxParts, ArduinoParts, FreeRTOSParts, Parts

\* What memset leaves is a description.
LEMMA ZeroType == Zero \in [Parts -> Fields]
BY DEF Zero, Fields

\* What an init writes into a part is what the part may hold, and not zero.
LEMMA ContentsAreValues ==
  ASSUME TypeOK, InfoInv, NEW p \in Procs, pc[p] = "fill", NEW x \in Parts,
         NEW c \in Contents(x)
  PROVE  c \in Values(x) /\ c \in Fields /\ c # "zero"
<1>1. CASE x \notin Measured
  BY <1>1 DEF Contents, Values, Fields
<1>2. CASE x \in Measured
  <2>1. build.macro = "linux"
    BY <1>2 DEF Measured
  <2>2. c \in Readings
    BY <1>2, <2>1 DEF InfoInv, Contents
  <2>. QED  BY <1>2, <2>2, PlatformAssumption DEF Values, Fields
<1>. QED  BY <1>1, <1>2

\* Initially the flag is not set and nothing is described.
LEMMA InitInv == Init => Inv
<1> SUFFICES ASSUME Init PROVE Inv
  OBVIOUS
<1>1. TypeOK
  BY ZeroType DEF Init, TypeOK, Answers
<1>2. InfoInv /\ CallInv /\ DescriptionComplete /\ ClosedIsZero
  BY DEF Init, InfoInv, CallInv, DescriptionComplete, ClosedIsZero, Zero
<1>. QED  BY <1>1, <1>2 DEF Inv

\* Each step keeps the types.
LEMMA StepType == TypeOK /\ InfoInv /\ [Next]_vars => TypeOK'
<1> SUFFICES ASSUME TypeOK, InfoInv, [Next]_vars PROVE TypeOK'
  OBVIOUS
<1> USE ZeroType, WrittenParts
<1>1. CASE UNCHANGED vars
  BY <1>1 DEF vars, TypeOK
<1>2. ASSUME NEW p \in Procs,
             InitRefused(p) \/ InitUnsupported(p) \/ InitOpen(p)
               \/ Refused(p) \/ GetReturn(p)
      PROVE  TypeOK'
  BY <1>2 DEF InitRefused, InitUnsupported, InitOpen, Refused, GetReturn,
              Return, Goto, TypeOK, Answers
<1>3. ASSUME NEW p \in Procs, InitCall(p) \/ GetCall(p) PROVE TypeOK'
  <2>1. CASE InitCall(p)
    <3>1. \E l \in {"sysinfo", "fill"} : pc' = [pc EXCEPT ![p] = l]
      BY <2>1 DEF InitCall, Goto
    <3>2. todo' \in [Procs -> SUBSET Parts]
      BY <2>1 DEF InitCall, TypeOK
    <3> QED
      BY <2>1, <3>1, <3>2 DEF InitCall, TypeOK
  <2>2. CASE GetCall(p)
    BY <2>2 DEF GetCall, Goto, TypeOK, Answers
  <2> QED
    BY <1>3, <2>1, <2>2
<1>4. ASSUME NEW p \in Procs, SysInfo(p) \/ SysInfoFails(p) \/ Cleanup(p) PROVE TypeOK'
  BY <1>4 DEF SysInfo, SysInfoFails, Cleanup, Return, Goto, TypeOK, Answers
<1>5. ASSUME NEW p \in Procs, NEW x \in todo[p], Fill(p, x) PROVE TypeOK'
  <2>1. PICK c \in Contents(x) : info' = [info EXCEPT ![x] = c]
    BY <1>5 DEF Fill
  <2>2. x \in Parts
    BY <1>5 DEF TypeOK
  <2>3. c \in Fields
    BY <1>5, <2>1, <2>2, ContentsAreValues DEF Fill
  <2>. QED  BY <1>5, <2>1, <2>3 DEF Fill, TypeOK
<1>6. ASSUME NEW p \in Procs, NEW x \in todo[p], GetCopy(p, x) PROVE TypeOK'
  BY <1>6 DEF GetCopy, TypeOK
<1>. QED
  BY <1>1, <1>2, <1>3, <1>4, <1>5, <1>6 DEF Next

\* Each step of a thread keeps the rest of the invariant.
LEMMA StepRest == Inv /\ [Next]_vars => (InfoInv /\ CallInv)'
<1> SUFFICES ASSUME Inv, [Next]_vars PROVE (InfoInv /\ CallInv)'
  OBVIOUS
<1> USE DEF Inv
<1>0. Written' = Written /\ Measured' = Measured /\ UNCHANGED build
      /\ \A x \in Parts : Values(x)' = Values(x)
  BY DEF Next, vars, Written, Measured, Values, InitRefused, InitUnsupported, InitCall, SysInfo,
     SysInfoFails, InitOpen, Cleanup, Refused, GetCall, GetReturn, Fill, GetCopy
<1>1. CASE UNCHANGED vars
  BY <1>0, <1>1 DEF vars, InfoInv, Whole, CallInv
<1>2. ASSUME NEW p \in Procs, InitRefused(p) \/ InitUnsupported(p) \/ Refused(p)
      PROVE  (InfoInv /\ CallInv)'
  BY <1>0, <1>2 DEF InitRefused, InitUnsupported, Refused, Return, Goto,
     InfoInv, Whole, CallInv, TypeOK
<1>3. ASSUME NEW p \in Procs, InitCall(p) PROVE (InfoInv /\ CallInv)'
  BY <1>0, <1>3 DEF InitCall, Goto, InfoInv, Whole, CallInv, TypeOK
<1>4. ASSUME NEW p \in Procs, SysInfo(p) PROVE (InfoInv /\ CallInv)'
  BY <1>0, <1>4, WrittenParts DEF SysInfo, Goto, InfoInv, Whole, CallInv, TypeOK
<1>5. ASSUME NEW p \in Procs, SysInfoFails(p) PROVE (InfoInv /\ CallInv)'
  BY <1>0, <1>5 DEF SysInfoFails, Return, Goto, InfoInv, Whole, CallInv, TypeOK
<1>6. ASSUME NEW p \in Procs, NEW x \in todo[p], Fill(p, x)
      PROVE  (InfoInv /\ CallInv)'
  <2>1. x \in Written /\ x \in Parts
    BY <1>6, WrittenParts DEF Fill, CallInv
  <2>2. PICK c \in Contents(x) : info' = [info EXCEPT ![x] = c]
    BY <1>6 DEF Fill
  <2>3. c \in Values(x) /\ c # "zero"
    BY <1>6, <2>1, <2>2, ContentsAreValues DEF Fill
  <2>4. \A y \in Parts : info'[y] = IF y = x THEN c ELSE info[y]
    BY <2>1, <2>2 DEF TypeOK
  <2>5. initalized => Whole(info')
    BY <2>1, <2>3, <2>4 DEF InfoInv, Whole
  <2>6. InfoInv'
    <3>1. UNCHANGED <<initalized, si, pc>> /\ todo' = [todo EXCEPT ![p] = @ \ {x}]
      BY <1>6 DEF Fill
    <3>2. \A y \in Parts : info'[y] # "zero" => y \in Written /\ info'[y] \in Values(y)
      BY <2>1, <2>3, <2>4 DEF InfoInv
    <3>3. \A q \in Procs : pc[q] = "fill" =>
            \A y \in Written : y \in todo'[q] \/ info'[y] # "zero"
      BY <2>3, <2>4, <3>1, WrittenParts DEF InfoInv, TypeOK
    <3>4. pc[p] = "fill"
      BY <1>6 DEF Fill
    <3>. QED  BY <1>0, <2>5, <3>1, <3>2, <3>3, <3>4 DEF InfoInv, Whole
  <2>7. CallInv'
    BY <1>0, <1>6 DEF Fill, CallInv, TypeOK
  <2>. QED  BY <2>6, <2>7
<1>7. ASSUME NEW p \in Procs, InitOpen(p) PROVE (InfoInv /\ CallInv)'
  <2>1. Whole(info)
    BY <1>7, WrittenParts DEF InitOpen, InfoInv, Whole, TypeOK
  <2>2. build.macro # "none"
    BY <1>7 DEF InitOpen, CallInv
  <2>. QED
    BY <1>0, <1>7, <2>1, <2>2 DEF InitOpen, Return, Goto, InfoInv, Whole, CallInv, Whole, TypeOK
<1>8. ASSUME NEW p \in Procs, Cleanup(p) PROVE (InfoInv /\ CallInv)'
  BY <1>0, <1>8 DEF Cleanup, Quiet, Zero, Return, Goto, InfoInv, Whole, CallInv, TypeOK
<1>9. ASSUME NEW p \in Procs, GetCall(p) PROVE (InfoInv /\ CallInv)'
  BY <1>0, <1>9 DEF GetCall, Goto, InfoInv, Whole, CallInv, TypeOK
<1>10. ASSUME NEW p \in Procs, NEW x \in todo[p], GetCopy(p, x)
       PROVE  (InfoInv /\ CallInv)'
  <2>1. InfoInv'
    BY <1>0, <1>10 DEF GetCopy, InfoInv, Whole, TypeOK
  <2>2. CallInv'
    BY <1>0, <1>10 DEF GetCopy, InfoInv, Whole, CallInv, TypeOK
  <2>. QED  BY <2>1, <2>2
<1>11. ASSUME NEW p \in Procs, GetReturn(p) PROVE (InfoInv /\ CallInv)'
  BY <1>0, <1>11 DEF GetReturn, Return, Goto, InfoInv, Whole, CallInv, TypeOK
<1>. QED
  BY <1>1, <1>2, <1>3, <1>4, <1>5, <1>6, <1>7, <1>8, <1>9, <1>10, <1>11 DEF Next

\* A structure that get_info has filled is not touched again before the next call.
LEMMA StepComplete == Inv /\ [Next]_vars => DescriptionComplete'
<1> SUFFICES ASSUME Inv, [Next]_vars, NEW q \in Procs, answer'[q] = "info"
             PROVE  Whole(copy[q])'
  BY DEF DescriptionComplete
<1> USE DEF Inv
<1>0. Written' = Written
  BY DEF Next, vars, Written, InitRefused, InitUnsupported, InitCall, SysInfo,
     SysInfoFails, InitOpen, Cleanup, Refused, GetCall, GetReturn, Fill, GetCopy
<1>1. CASE answer[q] = "info" /\ copy'[q] = copy[q]
  BY <1>0, <1>1 DEF DescriptionComplete, Whole
<1>2. ASSUME NEW p \in Procs, GetReturn(p) PROVE Whole(copy[q])'
  <2>1. CASE q = p
    <3>1. Whole(copy[q])
      BY <1>2, <2>1 DEF GetReturn, CallInv, Whole
    <3>. QED  BY <1>0, <1>2, <3>1 DEF GetReturn, Whole
  <2>2. CASE q # p
    BY <1>1, <1>2, <2>2 DEF GetReturn, Return, TypeOK
  <2>. QED  BY <2>1, <2>2
<1>3. ASSUME NEW p \in Procs, NEW x \in todo[p], GetCopy(p, x)
      PROVE  Whole(copy[q])'
  <2>1. answer[q] = "info" /\ answer[p] = "none"
    BY <1>3 DEF GetCopy, CallInv
  <2>. QED  BY <1>1, <1>3, <2>1 DEF GetCopy, TypeOK
<1>4. ASSUME NEW p \in Procs,
             InitRefused(p) \/ InitUnsupported(p) \/ InitOpen(p) \/ SysInfoFails(p)
               \/ Cleanup(p) \/ Refused(p)
      PROVE  Whole(copy[q])'
  BY <1>1, <1>4 DEF InitRefused, InitUnsupported, InitOpen, SysInfoFails, Cleanup,
     Refused, Return, TypeOK
<1>5. ASSUME NEW p \in Procs, InitCall(p) \/ SysInfo(p) PROVE Whole(copy[q])'
  BY <1>1, <1>5 DEF InitCall, SysInfo
<1>6. ASSUME NEW p \in Procs, GetCall(p) PROVE Whole(copy[q])'
  BY <1>1, <1>6 DEF GetCall, TypeOK
<1>7. ASSUME NEW p \in Procs, NEW x \in todo[p], Fill(p, x)
      PROVE  Whole(copy[q])'
  BY <1>1, <1>7 DEF Fill
<1>8. CASE UNCHANGED vars
  BY <1>1, <1>8 DEF vars
<1>. QED
  BY <1>2, <1>3, <1>4, <1>5, <1>6, <1>7, <1>8 DEF Next

\* The inductive invariant of the platform layer.
LEMMA StepInv == Inv /\ [Next]_vars => Inv'
<1>1. InfoInv' => ClosedIsZero'
  BY DEF InfoInv, ClosedIsZero, Quiet
<1>. QED
  BY <1>1, StepType, StepRest, StepComplete DEF Inv

\* The flag is set only over a complete description, in every build.
THEOREM Invariance == Spec => []Inv
BY InitInv, StepInv, PTL DEF Spec

\* What get_info returns is the whole description.
THEOREM InfoIsComplete == Spec => []DescriptionComplete
<1>1. Inv => DescriptionComplete
  BY DEF Inv
<1>. QED  BY <1>1, Invariance, PTL

\* Nothing is left of a description between sessions.
THEOREM NothingLeft == Spec => []ClosedIsZero
<1>1. Inv => ClosedIsZero
  BY DEF Inv
<1>. QED  BY <1>1, Invariance, PTL

\* A late init changes nothing that others read but what it has measured itself.
THEOREM OnlyReadings == Spec => OnlyReadingsChange
<1> DEFINE Same == \A x \in Parts :
                     info'[x] # info[x] =>
                       /\ x \in Measured
                       /\ info'[x] \in Readings
                       /\ \E p \in Procs : pc[p] = "fill" /\ x \in todo[p]
<1>1. Inv /\ [Next]_vars => [initalized /\ initalized' => Same]_vars
  <2> SUFFICES ASSUME Inv, Next, initalized, initalized' PROVE Same
    OBVIOUS
  <2> USE DEF Inv
  <2>1. ASSUME NEW p \in Procs, NEW y \in todo[p], Fill(p, y) PROVE Same
    <3>1. y \in Written /\ y \in Parts /\ pc[p] = "fill"
      BY <2>1, WrittenParts DEF Fill, CallInv
    <3>2. PICK c \in Contents(y) : info' = [info EXCEPT ![y] = c]
      BY <2>1 DEF Fill
    <3>3. c \in Values(y) /\ info[y] \in Values(y)
      BY <3>1, ContentsAreValues DEF InfoInv, Whole
    <3>4. CASE y \in Measured
      BY <3>1, <3>2, <3>3, <3>4 DEF Values, TypeOK
    <3>5. CASE y \notin Measured
      BY <3>1, <3>2, <3>3, <3>5 DEF Values, TypeOK
    <3>. QED  BY <3>4, <3>5
  <2>2. CASE UNCHANGED info
    BY <2>2
  <2>3. ASSUME NEW p \in Procs, Cleanup(p) PROVE FALSE
    BY <2>3 DEF Cleanup
  <2>. QED
    BY <2>1, <2>2, <2>3 DEF Next, InitRefused, InitUnsupported, InitCall, SysInfo,
       SysInfoFails, InitOpen, Refused, GetCall, GetReturn, GetCopy
<1>. QED  BY <1>1, Invariance, PTL DEF Spec, OnlyReadingsChange
=============================================================================

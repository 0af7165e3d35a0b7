------------------------------ MODULE Platform ------------------------------
(***************************************************************************)
(* The platform layer of tt_platform.c: the description of the platform in *)
(* platform_info, the flag platform_initalized, and the functions that     *)
(* threads call without any lock.  The description is looked at by its     *)
(* parts; the init function of a platform writes some of them, memcpy      *)
(* reads all, and neither has an order between parts that others may count *)
(* on.  On Linux the size of the memory and the number of processors are   *)
(* taken from the system by each init anew, the size by way of a structure *)
(* that all inits share; the rest are constants.                           *)
(*                                                                         *)
(* Which init function is called is chosen by the preprocessor, from       *)
(* whether TT_PLATFORM_LINUX, _ARDUINO or _FREERTOS is a macro.  The build *)
(* is compiled for a target, which is chosen by TT_TARGET_LINUX and so on. *)
(* These are different names, and a build has both.                        *)
(*                                                                         *)
(* The client calls tt_platform_cleanup while no other call is under way.  *)
(* Every other call comes at any time, of two threads together too.        *)
(***************************************************************************)
CONSTANTS
  Procs,     \* the threads
  Builds,    \* the builds looked at, [target, macro]
  Readings   \* what the system may tell an init

Platforms == {"linux", "arduino", "freertos"}

ASSUME PlatformAssumption ==
  /\ Builds \subseteq [target : Platforms \cup {"none"}, macro : Platforms \cup {"none"}]
  /\ Readings \cap {"zero", "described"} = {}

VARIABLES
  build,        \* the build this program is; it never changes
  initalized,   \* platform_initalized
  si,           \* the static struct sysinfo: totalram
  info,         \* platform_info: "zero" in the parts that no init has written
  pc,           \* where each thread is
  todo,         \* todo[p]: the parts p has still to write or to copy
  copy,         \* copy[p]: the structure p gave to its last get_info
  answer        \* answer[p]: what the last call of p has returned

vars == <<build, initalized, si, info, pc, todo, copy, answer>>

(***************************************************************************)
(* tt_platform_info_t                                                      *)
(***************************************************************************)
\* identity is platform_type, arch_type and capabilities, ram and cores are ram_size
\* and core_count.  The rest of system is a constant as identity is.
Parts == {"identity", "ram", "cores", "thread", "irq"}

Zero == [x \in Parts |-> "zero"]

\* The parts an init function writes, except with zeros.
LinuxParts == {"identity", "ram", "cores", "thread"}
ArduinoParts == {"identity", "ram", "cores", "irq"}
FreeRTOSParts == {"identity", "cores", "thread"}

PartsOf(platform) ==
  CASE platform = "linux" -> LinuxParts
    [] platform = "arduino" -> ArduinoParts
    [] platform = "freertos" -> FreeRTOSParts
    [] platform = "none" -> {}

Written == PartsOf(build.macro)

\* The parts that are asked of the system.
Measured == IF build.macro = "linux" THEN {"ram", "cores"} ELSE {}

\* What an init may write into the part x: sysconf is called for the cores, sysinfo
\* was called before for the memory.
Contents(x) ==
  IF x \notin Measured THEN {"described"} ELSE IF x = "ram" THEN {si} ELSE Readings

Fields == Readings \cup {"zero", "described"}

Answers == {"none", "success", "info", "already_initialized", "not_initialized",
            "not_supported", "init_failed"}

TypeOK ==
  /\ build \in Builds
  /\ initalized \in BOOLEAN
  /\ si \in Readings \cup {"zero"}
  /\ info \in [Parts -> Fields]
  /\ pc \in [Procs -> {"idle", "sysinfo", "fill", "copy"}]
  /\ todo \in [Procs -> SUBSET Parts]
  /\ copy \in [Procs -> [Parts -> Fields]]
  /\ answer \in [Procs -> Answers]

Init ==
  /\ build \in Builds
  /\ initalized = FALSE
  /\ si = "zero"
  /\ info = Zero
  /\ pc = [p \in Procs |-> "idle"]
  /\ todo = [p \in Procs |-> {}]
  /\ copy = [p \in Procs |-> Zero]
  /\ answer = [p \in Procs |-> "none"]

\* No call is under way.
Quiet == \A p \in Procs : pc[p] = "idle"

Goto(p, l) == pc' = [pc EXCEPT ![p] = l]

Return(p, a) ==
  /\ Goto(p, "idle")
  /\ answer' = [answer EXCEPT ![p] = a]

(***************************************************************************)
(* tt_platfor_init                                                         *)
(***************************************************************************)
\* The flag is set already.
InitRefused(p) ==
  /\ pc[p] = "idle"
  /\ initalized
  /\ Return(p, "already_initialized")
  /\ UNCHANGED <<build, initalized, si, info, todo, copy>>

\* The branch without a platform.
InitUnsupported(p) ==
  /\ pc[p] = "idle"
  /\ ~initalized
  /\ build.macro = "none"
  /\ Return(p, "not_supported")
  /\ UNCHANGED <<build, initalized, si, info, todo, copy>>

\* The init function of the platform is called.
InitCall(p) ==
  /\ pc[p] = "idle"
  /\ ~initalized
  /\ build.macro # "none"
  /\ Goto(p, IF build.macro = "linux" THEN "sysinfo" ELSE "fill")
  /\ todo' = [todo EXCEPT ![p] = Written]
  /\ UNCHANGED <<build, initalized, si, info, copy, answer>>

MutSysInfo(p) ==   \* the structure is cleared first
  /\ pc[p] = "sysinfo"
  /\ info' = Zero
  /\ si' \in Readings
  /\ Goto(p, "fill")
  /\ UNCHANGED <<build, initalized, todo, copy, answer>>

\* Another thread that is in its init will use this reading, too.
SysInfo(p) ==
  /\ pc[p] = "sysinfo"
  /\ si' \in Readings
  /\ Goto(p, "fill")
  /\ UNCHANGED <<build, initalized, info, todo, copy, answer>>

MutSysInfoFails(p) ==   \* sysinfo after the first assignments
  /\ pc[p] = "sysinfo"
  /\ info' = [info EXCEPT !["identity"] = "described"]
  /\ todo' = [todo EXCEPT ![p] = {}]
  /\ Return(p, "init_failed")
  /\ UNCHANGED <<build, initalized, si, copy>>

\* sysinfo fails before anything is written.
SysInfoFails(p) ==
  /\ pc[p] = "sysinfo"
  /\ todo' = [todo EXCEPT ![p] = {}]
  /\ Return(p, "init_failed")
  /\ UNCHANGED <<build, initalized, si, info, copy>>

Fill(p, x) ==
  /\ pc[p] = "fill"
  /\ \E c \in Contents(x) : info' = [info EXCEPT ![x] = c]
  /\ todo' = [todo EXCEPT ![p] = @ \ {x}]
  /\ UNCHANGED <<build, initalized, si, pc, copy, answer>>

MutInitOpen(p) ==   \* the flag is set before the description is complete
  /\ pc[p] = "fill"
  /\ initalized' = TRUE
  /\ IF todo[p] = {}
       THEN Return(p, "success")
       ELSE UNCHANGED <<pc, answer>>
  /\ UNCHANGED <<build, si, info, todo, copy>>

InitOpen(p) ==
  /\ pc[p] = "fill"
  /\ todo[p] = {}
  /\ initalized' = TRUE
  /\ Return(p, "success")
  /\ UNCHANGED <<build, si, info, todo, copy>>

(***************************************************************************)
(* tt_platform_cleanup                                                     *)
(***************************************************************************)
\* The cleanup functions of the platforms do nothing, and the branch without one is
\* not reached: such a build never sets the flag.
Cleanup(p) ==
  /\ Quiet
  /\ initalized
  /\ info' = Zero
  /\ initalized' = FALSE
  /\ Return(p, "success")
  /\ UNCHANGED <<build, si, todo, copy>>

\* get_info or cleanup before init.
Refused(p) ==
  /\ pc[p] = "idle"
  /\ ~initalized
  /\ Return(p, "not_initialized")
  /\ UNCHANGED <<build, initalized, si, info, todo, copy>>

(***************************************************************************)
(* tt_platform_get_info                                                    *)
(***************************************************************************)
\* The answer of the last call is forgotten with the structure it was about.
GetCall(p) ==
  /\ pc[p] = "idle"
  /\ initalized
  /\ Goto(p, "copy")
  /\ todo' = [todo EXCEPT ![p] = Parts]
  /\ answer' = [answer EXCEPT ![p] = "none"]
  /\ UNCHANGED <<build, initalized, si, info, copy>>

GetCopy(p, x) ==
  /\ pc[p] = "copy"
  /\ copy' = [copy EXCEPT ![p][x] = info[x]]
  /\ todo' = [todo EXCEPT ![p] = @ \ {x}]
  /\ UNCHANGED <<build, initalized, si, info, pc, answer>>

GetReturn(p) ==
  /\ pc[p] = "copy"
  /\ todo[p] = {}
  /\ Return(p, "info")
  /\ UNCHANGED <<build, initalized, si, info, todo, copy>>

Next ==
  \E p \in Procs :
    \/ InitRefused(p) \/ InitUnsupported(p) \/ InitCall(p)
    \/ SysInfo(p) \/ SysInfoFails(p) \/ InitOpen(p)
    \/ Cleanup(p) \/ Refused(p)
    \/ GetCall(p) \/ GetReturn(p)
    \/ \E x \in todo[p] : Fill(p, x) \/ GetCopy(p, x)

Spec == Init /\ [][Next]_vars

(***************************************************************************)
(* Properties                                                              *)
(***************************************************************************)
\* The description d has every part that an init of the platform writes, and nothing
\* else.
Whole(d) == \A x \in Parts : d[x] # "zero" <=> x \in Written

\* A get_info that succeeds has copied a whole description, never one half written,
\* although the flag is all that keeps it from threads that are in tt_platfor_init,
\* together or one after the other.
DescriptionComplete == \A p \in Procs : answer[p] = "info" => Whole(copy[p])

\* Between two sessions nothing of the description is left, after a cleanup and after
\* an init that failed.
ClosedIsZero == ~initalized /\ Quiet => info = Zero

\* While the flag is set a description is never taken back and its constants stay; but
\* the init of a thread that was late may still put readings of its own in the place
\* of those that others have seen.
OnlyReadingsChange ==
  [][initalized /\ initalized' =>
       \A x \in Parts :
         info'[x] # info[x] =>
           /\ x \in Measured
           /\ info'[x] \in Readings
           /\ \E p \in Procs : pc[p] = "fill" /\ x \in todo[p]]_vars

\* Init refuses with TT_ERROR_PLATFORM_NOT_SUPPORTED only builds for no platform.
TargetIsSupported ==
  \A p \in Procs : answer[p] = "not_supported" => build.target = "none"

(***************************************************************************)
(* The inductive invariant                                                 *)
(***************************************************************************)
\* What the part x may hold once it is written.
Values(x) == IF x \in Measured THEN Readings ELSE {"described"}

\* What the flag and the threads in init say of the description.
InfoInv ==
  /\ initalized => build.macro # "none" /\ Whole(info)
  /\ \A x \in Parts :
       info[x] # "zero" =>
         x \in Written /\ info[x] \in Values(x)
  /\ \A p \in Procs : pc[p] = "fill" =>
       /\ build.macro = "linux" => si \in Readings
       /\ \A x \in Written : x \in todo[p] \/ info[x] # "zero"
  /\ info # Zero => initalized \/ \E p \in Procs : pc[p] = "fill"

\* What a thread in a call has done so far.
CallInv ==
  \A p \in Procs :
    /\ pc[p] = "idle" => todo[p] = {}
    /\ pc[p] = "sysinfo" => build.macro # "none" /\ todo[p] = Written
    /\ pc[p] = "fill" => build.macro # "none" /\ todo[p] \subseteq Written
    /\ pc[p] = "copy" =>
         /\ initalized /\ answer[p] = "none"
         /\ \A x \in Parts : x \in todo[p] \/ (copy[p][x] # "zero" <=> x \in Written)

Inv == TypeOK /\ InfoInv /\ CallInv /\ DescriptionComplete /\ ClosedIsZero
=============================================================================

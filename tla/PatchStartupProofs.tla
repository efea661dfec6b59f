-------------------------- MODULE PatchStartupProofs --------------------------
(***************************************************************************)
(* Proofs about PatchStartup, for any number of threads.                   *)
(*                                                                         *)
(* What each step of initialize_patch may count on is written down place   *)
(* by place (Place); the promises of the module follow from it and from    *)
(* where the game's threads can be (Detours).                              *)
(***************************************************************************)
EXTENDS PatchStartup, TLAPS

\* What holds where initialize_patch stands.
Place ==
    /\ ipc \in {"attach", "identify", "initialize"} => Nothing /\ reason = "none"
    /\ ipc = "create" => enabled = {} /\ minhook /\ reason = "none"
    /\ ipc = "enable" => enabled = {} /\ created = Hooks /\ minhook /\ reason = "none"
    /\ ipc \in {"writer", "await", "check"} => Everything /\ reason = "none"
    /\ ipc \in {"disable", "remove", "uninitialize"} =>
         /\ minhook
         /\ reason \in {"create"} \cup Late
         /\ reason = "create" => enabled = {}
    /\ ipc = "report" =>
         IF reason = "none" THEN Everything /\ writer_state = 1 ELSE Nothing \/ Kept

\* While the start has not been given up after the batch was enabled, a thread
\* in a detour finds its trampoline.
Detours ==
    reason \notin Late =>
        \A t \in Threads :
            /\ at[t] # "stranded"
            /\ at[t] \in Hooks => enabled = Hooks /\ created = Hooks

StartInv == TypeOK /\ Place /\ AllOrNothing /\ StatusTrue /\ Detours

-----------------------------------------------------------------------------

LEMMA ThreeHooks == Hooks = {"input", "turn", "camera"}
  BY DEF Hooks, HookOrder

LEMMA InitInv == Init => StartInv
<1> SUFFICES ASSUME Init PROVE StartInv
  OBVIOUS
<1>1. TypeOK
  BY DEF Init, TypeOK, StartSteps, Reasons
<1>2. Place /\ AllOrNothing /\ StatusTrue
  BY DEF Init, Place, Nothing, AllOrNothing, StatusTrue
<1>3. Detours
  BY ThreeHooks DEF Init, Detours
<1> QED
  BY <1>1, <1>2, <1>3 DEF StartInv

LEMMA AttachStep == ASSUME StartInv, Attach PROVE StartInv'
<1>1. TypeOK'
  BY ThreeHooks DEF StartInv, TypeOK, StartSteps, Reasons, Attach
<1>2. Place'
  BY ThreeHooks DEF StartInv, TypeOK, Place, Nothing, Everything, Kept, Late, Attach
<1>3. AllOrNothing'
  BY DEF StartInv, AllOrNothing, Place, Nothing, Everything, Kept, Late, Attach
<1>4. StatusTrue'
  BY DEF StartInv, TypeOK, StatusTrue, Place, Nothing, Everything, Kept, Late, Attach
<1>5. Detours'
  BY ThreeHooks DEF StartInv, TypeOK, Detours, Place, Nothing, Everything, Kept, Late, Attach
<1> QED
  BY <1>1, <1>2, <1>3, <1>4, <1>5 DEF StartInv

LEMMA IdentifyStep == ASSUME StartInv, Identify PROVE StartInv'
<1>1. TypeOK'
  BY ThreeHooks DEF StartInv, TypeOK, StartSteps, Reasons, Identify, GiveUp
<1>2. Place'
  BY ThreeHooks DEF StartInv, TypeOK, Place, Nothing, Everything, Kept, Late, Identify, GiveUp
<1>3. AllOrNothing'
  BY DEF StartInv, AllOrNothing, Place, Nothing, Everything, Kept, Late, Identify, GiveUp
<1>4. StatusTrue'
  BY DEF StartInv, TypeOK, StatusTrue, Place, Nothing, Everything, Kept, Late, Identify, GiveUp
<1>5. Detours'
  BY ThreeHooks DEF StartInv, TypeOK, Detours, Place, Nothing, Everything, Kept, Late, Identify, GiveUp
<1> QED
  BY <1>1, <1>2, <1>3, <1>4, <1>5 DEF StartInv

LEMMA InitializeStep == ASSUME StartInv, Initialize PROVE StartInv'
<1>1. TypeOK'
  BY ThreeHooks DEF StartInv, TypeOK, StartSteps, Reasons, Initialize, GiveUp
<1>2. Place'
  BY ThreeHooks DEF StartInv, TypeOK, Place, Nothing, Everything, Kept, Late, Initialize, GiveUp
<1>3. AllOrNothing'
  BY DEF StartInv, AllOrNothing, Place, Nothing, Everything, Kept, Late, Initialize, GiveUp
<1>4. StatusTrue'
  BY DEF StartInv, TypeOK, StatusTrue, Place, Nothing, Everything, Kept, Late, Initialize, GiveUp
<1>5. Detours'
  BY ThreeHooks DEF StartInv, TypeOK, Detours, Place, Nothing, Everything, Kept, Late, Initialize, GiveUp
<1> QED
  BY <1>1, <1>2, <1>3, <1>4, <1>5 DEF StartInv

LEMMA CreateStep == ASSUME StartInv, CreateHook PROVE StartInv'
<1> USE DEF StartInv, TypeOK, StartSteps, Reasons, Place, Nothing, Everything, Kept, Late, AllOrNothing, StatusTrue, Detours
<1>1. ASSUME NEW i \in 1..3, Following(i), created' = created \cup {HookOrder[i]},
             ipc' = IF i = 3 THEN "enable" ELSE "create", UNCHANGED reason
      PROVE  StartInv'
  <2>1. created' \subseteq Hooks
    BY <1>1 DEF Hooks
  <2>2. CASE i = 3
    <3>1. created' = Hooks
      BY <1>1, <2>1, <2>2 DEF Following, Hooks
    <3> QED
      BY <1>1, <2>2, <3>1 DEF CreateHook
  <2>3. CASE i # 3
    BY <1>1, <2>1, <2>3, ThreeHooks DEF CreateHook
  <2> QED
    BY <2>2, <2>3
<1>2. CASE GiveUp("create", "disable") /\ UNCHANGED created
  BY <1>2, ThreeHooks DEF CreateHook, GiveUp
<1> QED
  BY <1>1, <1>2 DEF CreateHook

LEMMA EnableStep == ASSUME StartInv, EnableHooks PROVE StartInv'
<1> USE ThreeHooks DEF StartInv, TypeOK, StartSteps, Reasons, Place, Nothing, Everything, Kept, Late, AllOrNothing, StatusTrue, Detours
<1>1. CASE enabled' = Hooks /\ ipc' = "writer" /\ UNCHANGED reason
  BY <1>1 DEF EnableHooks
<1>2. ASSUME NEW done \in 0..2, enabled' = {HookOrder[i] : i \in 1..done}, GiveUp("enable", "disable")
      PROVE StartInv'
  <2>1. enabled' \subseteq Hooks
    BY <1>2 DEF Hooks
  <2> QED
    BY <1>2, <2>1 DEF EnableHooks, GiveUp
<1> QED
  BY <1>1, <1>2 DEF EnableHooks

LEMMA StartWriterStep == ASSUME StartInv, StartWriter PROVE StartInv'
<1>1. TypeOK'
  BY ThreeHooks DEF StartInv, TypeOK, StartSteps, Reasons, StartWriter, GiveUp
<1>2. Place'
  BY ThreeHooks DEF StartInv, TypeOK, Place, Nothing, Everything, Kept, Late, StartWriter, GiveUp
<1>3. AllOrNothing'
  BY DEF StartInv, AllOrNothing, Place, Nothing, Everything, Kept, Late, StartWriter, GiveUp
<1>4. StatusTrue'
  BY DEF StartInv, TypeOK, StatusTrue, Place, Nothing, Everything, Kept, Late, StartWriter, GiveUp
<1>5. Detours'
  BY ThreeHooks DEF StartInv, TypeOK, Detours, Place, Nothing, Everything, Kept, Late, StartWriter, GiveUp
<1> QED
  BY <1>1, <1>2, <1>3, <1>4, <1>5 DEF StartInv

LEMMA AwaitStep == ASSUME StartInv, AwaitWriter PROVE StartInv'
<1>1. TypeOK'
  BY ThreeHooks DEF StartInv, TypeOK, StartSteps, Reasons, AwaitWriter
<1>2. Place'
  BY ThreeHooks DEF StartInv, TypeOK, Place, Nothing, Everything, Kept, Late, AwaitWriter
<1>3. AllOrNothing'
  BY DEF StartInv, AllOrNothing, Place, Nothing, Everything, Kept, Late, AwaitWriter
<1>4. StatusTrue'
  BY DEF StartInv, TypeOK, StatusTrue, Place, Nothing, Everything, Kept, Late, AwaitWriter
<1>5. Detours'
  BY ThreeHooks DEF StartInv, TypeOK, Detours, Place, Nothing, Everything, Kept, Late, AwaitWriter
<1> QED
  BY <1>1, <1>2, <1>3, <1>4, <1>5 DEF StartInv

LEMMA CheckStep == ASSUME StartInv, CheckWriter PROVE StartInv'
<1>1. TypeOK'
  BY ThreeHooks DEF StartInv, TypeOK, StartSteps, Reasons, CheckWriter, GiveUp
<1>2. Place'
  BY ThreeHooks DEF StartInv, TypeOK, Place, Nothing, Everything, Kept, Late, CheckWriter, GiveUp
<1>3. AllOrNothing'
  BY DEF StartInv, AllOrNothing, Place, Nothing, Everything, Kept, Late, CheckWriter, GiveUp
<1>4. StatusTrue'
  BY DEF StartInv, TypeOK, StatusTrue, Place, Nothing, Everything, Kept, Late, CheckWriter, GiveUp
<1>5. Detours'
  BY ThreeHooks DEF StartInv, TypeOK, Detours, Place, Nothing, Everything, Kept, Late, CheckWriter, GiveUp
<1> QED
  BY <1>1, <1>2, <1>3, <1>4, <1>5 DEF StartInv

\* Taking jumps out puts none in.
LEMMA OnlyOut ==
    ASSUME NEW order, TakeOut(order)
    PROVE  enabled' \subseteq enabled
  BY DEF TakeOut

LEMMA DisableStep == ASSUME StartInv, DisableHooks PROVE StartInv'
<1>1. enabled' \subseteq enabled
  BY OnlyOut DEF DisableHooks
<1> QED
  BY <1>1, ThreeHooks
  DEF StartInv, TypeOK, StartSteps, Reasons, Place, Nothing, Everything, Kept, Late, AllOrNothing,
      StatusTrue, Detours, DisableHooks

LEMMA RemoveStep == ASSUME StartInv, RemoveHook PROVE StartInv'
<1>1. PICK hook :
         /\ targets' = targets \ {hook}
         /\ \/ created' = created \ {hook} /\ enabled' = enabled \ {hook}
            \/ UNCHANGED <<created, enabled>>
  BY DEF RemoveHook
<1>2. enabled' \subseteq enabled /\ created' \subseteq created /\ targets' \subseteq targets
  BY <1>1
<1>3. AllOrNothing /\ enabled' \subseteq created'
  BY <1>1 DEF StartInv, AllOrNothing
<1>4. /\ ipc = "remove" /\ ipc' \in {"remove", "uninitialize"}
      /\ UNCHANGED <<minhook, writer, writer_state, reason, status, at>>
  BY DEF RemoveHook
<1> QED
  BY <1>2, <1>3, <1>4, ThreeHooks
  DEF StartInv, TypeOK, StartSteps, Reasons, Place, Nothing, Everything, Kept, Late, AllOrNothing,
      StatusTrue, Detours

LEMMA UninitializeStep == ASSUME StartInv, Uninitialize PROVE StartInv'
<1>1. enabled' \subseteq enabled
  BY OnlyOut DEF Uninitialize
<1> QED
  BY <1>1, ThreeHooks
  DEF StartInv, TypeOK, StartSteps, Reasons, Place, Nothing, Everything, Kept, Late, AllOrNothing,
      StatusTrue, Detours, Uninitialize

LEMMA ReportStep == ASSUME StartInv, ReportStatus PROVE StartInv'
<1>1. TypeOK'
  BY ThreeHooks DEF StartInv, TypeOK, StartSteps, Reasons, ReportStatus
<1>2. Place'
  BY ThreeHooks DEF StartInv, TypeOK, Place, Nothing, Everything, Kept, Late, ReportStatus
<1>3. AllOrNothing'
  BY DEF StartInv, AllOrNothing, Place, Nothing, Everything, Kept, Late, ReportStatus
<1>4. StatusTrue'
  BY DEF StartInv, TypeOK, StatusTrue, Place, Nothing, Everything, Kept, Late, ReportStatus
<1>5. Detours'
  BY ThreeHooks DEF StartInv, TypeOK, Detours, Place, Nothing, Everything, Kept, Late, ReportStatus
<1> QED
  BY <1>1, <1>2, <1>3, <1>4, <1>5 DEF StartInv

LEMMA WriterStep == ASSUME StartInv, WriterReports PROVE StartInv'
<1>1. TypeOK'
  BY ThreeHooks DEF StartInv, TypeOK, StartSteps, Reasons, WriterReports
<1>2. Place'
  BY ThreeHooks DEF StartInv, TypeOK, Place, Nothing, Everything, Kept, Late, WriterReports
<1>3. AllOrNothing'
  BY DEF StartInv, AllOrNothing, Place, Nothing, Everything, Kept, Late, WriterReports
<1>4. StatusTrue'
  BY DEF StartInv, TypeOK, StatusTrue, Place, Nothing, Everything, Kept, Late, WriterReports
<1>5. Detours'
  BY ThreeHooks DEF StartInv, TypeOK, Detours, Place, Nothing, Everything, Kept, Late, WriterReports
<1> QED
  BY <1>1, <1>2, <1>3, <1>4, <1>5 DEF StartInv

LEMMA EnterStep == ASSUME StartInv, NEW t \in Threads, EnterDetour(t) PROVE StartInv'
<1>1. TypeOK'
  BY ThreeHooks DEF StartInv, TypeOK, StartSteps, Reasons, EnterDetour
<1>2. Place'
  BY ThreeHooks DEF StartInv, TypeOK, Place, Nothing, Everything, Kept, Late, EnterDetour
<1>3. AllOrNothing'
  BY DEF StartInv, AllOrNothing, Place, Nothing, Everything, Kept, Late, EnterDetour
<1>4. StatusTrue'
  BY DEF StartInv, TypeOK, StatusTrue, Place, Nothing, Everything, Kept, Late, EnterDetour
<1>5. Detours'
  <2> SUFFICES ASSUME reason \notin Late PROVE Detours'
    BY DEF Detours, EnterDetour
  <2>1. PICK hook \in enabled : at' = [at EXCEPT ![t] = hook]
    BY DEF EnterDetour
  <2>2. Everything
    BY <2>1, ThreeHooks DEF StartInv, TypeOK, StartSteps, AllOrNothing, Place, Nothing, Everything, Kept, Late, EnterDetour
  <2> QED
    BY <2>1, <2>2, ThreeHooks DEF StartInv, TypeOK, Detours, Everything, EnterDetour
<1> QED
  BY <1>1, <1>2, <1>3, <1>4, <1>5 DEF StartInv

LEMMA CallStep == ASSUME StartInv, NEW t \in Threads, CallOriginal(t) PROVE StartInv'
<1>1. TypeOK'
  BY ThreeHooks DEF StartInv, TypeOK, StartSteps, Reasons, CallOriginal
<1>2. Place'
  BY ThreeHooks DEF StartInv, TypeOK, Place, Nothing, Everything, Kept, Late, CallOriginal
<1>3. AllOrNothing'
  BY DEF StartInv, AllOrNothing, Place, Nothing, Everything, Kept, Late, CallOriginal
<1>4. StatusTrue'
  BY DEF StartInv, TypeOK, StatusTrue, Place, Nothing, Everything, Kept, Late, CallOriginal
<1>5. Detours'
  BY ThreeHooks DEF StartInv, TypeOK, Detours, Place, Nothing, Everything, Kept, Late, CallOriginal
<1> QED
  BY <1>1, <1>2, <1>3, <1>4, <1>5 DEF StartInv

LEMMA Inductive == StartInv /\ [Next]_vars => StartInv'
<1> SUFFICES ASSUME StartInv, [Next]_vars PROVE StartInv'
  OBVIOUS
<1>1. CASE StartStep
  BY <1>1, AttachStep, IdentifyStep, InitializeStep, CreateStep, EnableStep, StartWriterStep, AwaitStep,
     CheckStep, DisableStep, RemoveStep, UninitializeStep, ReportStep
  DEF StartStep
<1>2. CASE WriterReports
  BY <1>2, WriterStep
<1>3. CASE \E t \in Threads : EnterDetour(t) \/ CallOriginal(t)
  BY <1>3, EnterStep, CallStep
<1>4. CASE UNCHANGED vars
  BY <1>4 DEF vars, StartInv, TypeOK, Place, Nothing, Everything, Kept, Late, AllOrNothing, StatusTrue, Detours
<1> QED
  BY <1>1, <1>2, <1>3, <1>4 DEF Next

-----------------------------------------------------------------------------
(* What PatchStartup promises.                                             *)

\* At every step of the start, and of taking it back with calls that fail, hooks,
\* jumps, the reason and the status are what the step calls for
\* (patch_dll.cpp:144-249).
THEOREM StartInvariant == Spec => []StartInv
  BY InitInv, Inductive, PTL DEF Spec

\* Every variable keeps its kind, with any number of threads
\* (patch_dll.cpp:164-249).
THEOREM TypeCorrect == Spec => []TypeOK
  BY StartInvariant, PTL DEF StartInv

\* Whatever fails, in the start or in taking it back, no hook is half there, and
\* a start that is over has left all three hooks, nothing, or the hooks of a
\* batch MinHook would not take out again (patch_dll.cpp:144-156, 197-242).
THEOREM StartAllOrNothing == Spec => []AllOrNothing
  BY StartInvariant, PTL DEF StartInv

\* What this session writes in the status file holds of the hooks, MinHook's
\* refusals included; what an earlier one wrote is no part of it
\* (patch_dll.cpp:144-156, 235-248, telemetry_writer.cpp:66-105).
THEOREM StatusTruthful == Spec => []StatusTrue
  BY StartInvariant, PTL DEF StartInv

\* However many threads the game has, one of them can lose its trampoline only
\* when the start is given up after the batch was enabled (patch_dll.cpp:197-227).
THEOREM TrampolinesKept == Spec => []StrandedOnlyLate
<1>1. StartInv => StrandedOnlyLate
  BY DEF StartInv, Detours, StrandedOnlyLate, Late
<1> QED
  BY <1>1, StartInvariant, PTL

=============================================================================

---------------------------- MODULE PatchStartup ----------------------------
(***************************************************************************)
(* initialize_patch (patch_dll.cpp): the thread DllMain starts finds the   *)
(* three functions, creates a hook for each, enables the three at once,    *)
(* starts the writer and waits for it to report; when a step fails it      *)
(* takes back what it did.  Minecraft's own threads run all the while, and *)
(* may be inside a detour at any of its steps.                             *)
(*                                                                         *)
(* What the detours and the writer do is CaptureSession's subject.         *)
(*                                                                         *)
(* MinHook (hook.c) is what its calls leave: a hook that is created has a  *)
(* trampoline, a hook that is enabled a jump to the detour in the game's   *)
(* code.  A call that puts jumps in or takes them out suspends the game's  *)
(* threads and unprotects a page for every jump.  Either may fail, also    *)
(* when the start is taken back, where nobody looks at the outcome.        *)
(***************************************************************************)
EXTENDS Integers

CONSTANT Threads    \* threads of the game that run hooked functions

VARIABLES
    ipc,           \* what initialize_patch does next
    minhook,       \* MinHook is initialized
    created,       \* hooks with a trampoline
    enabled,       \* hooks with a jump in the game's code
    targets,       \* hooks that taking the start back would still remove
    writer,        \* the writer's thread was started
    writer_state,  \* 0, 1: the artifact is there, -1: it could not be created
    reason,        \* why the start is being given up
    status,        \* patch-status.json
    at             \* each thread: the hook whose detour it is in, or elsewhere

vars ==
    <<ipc, minhook, created, enabled, targets, writer, writer_state, reason, status, at>>

\* In the order they are created, and enabled.
HookOrder == <<"input", "turn", "camera">>
Hooks == {HookOrder[i] : i \in 1..3}

StartSteps ==
    {"attach", "identify", "initialize", "create", "enable", "writer", "await",
     "check", "disable", "remove", "uninitialize", "report", "finished"}
Reasons ==
    {"none", "identity", "text", "scan", "initialize", "create", "enable",
     "writer", "artifact"}

TypeOK ==
    /\ ipc \in StartSteps
    /\ minhook \in BOOLEAN
    /\ created \subseteq Hooks
    /\ enabled \subseteq Hooks
    /\ targets \subseteq Hooks
    /\ writer \in BOOLEAN
    /\ writer_state \in {-1, 0, 1}
    /\ reason \in Reasons
    /\ status \in {"none", "earlier", "torn", "active", "inactive"}
    /\ at \in [Threads -> Hooks \cup {"game", "stranded"}]

\* patch-status.json may be there from another session, whatever it said of
\* that one: the file names the process it is about.
Init ==
    /\ ipc = "attach"
    /\ minhook = FALSE
    /\ created = {}
    /\ enabled = {}
    /\ targets = {}
    /\ writer = FALSE
    /\ writer_state = 0
    /\ reason = "none"
    /\ status \in {"none", "earlier"}
    /\ at = [t \in Threads |-> "game"]

-----------------------------------------------------------------------------

\* DllMain; the thread may not be had, and that is all there is then.
Attach ==
    /\ ipc = "attach"
    /\ ipc' \in {"identify", "finished"}
    /\ UNCHANGED <<minhook, created, enabled, targets, writer, writer_state, reason, status, at>>

\* scan_hook_targets accepts exactly one match for every signature.
ScanAccepts(matches) == \A h \in Hooks : matches[h] = 1

GiveUp(why, step) ==
    /\ reason' = why
    /\ ipc' = step

\* The package, the executable's .text and the scan.
Identify ==
    /\ ipc = "identify"
    /\ \/ \E why \in {"identity", "text"} : GiveUp(why, "report")
       \/ \E matches \in [Hooks -> 0..2] :
             IF ScanAccepts(matches)
             THEN ipc' = "initialize" /\ UNCHANGED reason
             ELSE GiveUp("scan", "report")
    /\ UNCHANGED <<minhook, created, enabled, targets, writer, writer_state, status, at>>

Initialize ==
    /\ ipc = "initialize"
    /\ \/ minhook' = TRUE /\ ipc' = "create" /\ UNCHANGED reason
       \/ GiveUp("initialize", "report") /\ UNCHANGED minhook
    /\ UNCHANGED <<created, enabled, targets, writer, writer_state, status, at>>

\* The i-th hook is the next to be created.
Following(i) == HookOrder[i] \notin created /\ \A j \in 1..i - 1 : HookOrder[j] \in created

\* Mutant: every hook is enabled as soon as it is there.
CreateHookEnabled ==
    /\ ipc = "create"
    /\ \/ \E i \in 1..3 :
             /\ Following(i)
             /\ created' = created \cup {HookOrder[i]}
             /\ enabled' = created'
             /\ targets' = created'
             /\ ipc' = IF i = 3 THEN "enable" ELSE "create"
             /\ UNCHANGED reason
       \/ GiveUp("create", "disable") /\ UNCHANGED <<created, enabled, targets>>
    /\ UNCHANGED <<minhook, writer, writer_state, status, at>>

CreateHook ==
    /\ ipc = "create"
    /\ \/ \E i \in 1..3 :
             /\ Following(i)
             /\ created' = created \cup {HookOrder[i]}
             /\ targets' = created'
             /\ ipc' = IF i = 3 THEN "enable" ELSE "create"
             /\ UNCHANGED reason
       \/ GiveUp("create", "disable") /\ UNCHANGED <<created, targets>>
    /\ UNCHANGED <<minhook, enabled, writer, writer_state, status, at>>

\* Mutant: a batch that was not enabled is taken to have left nothing.
EnableHooksLeaving ==
    /\ ipc = "enable"
    /\ \/ enabled' = Hooks /\ ipc' = "writer" /\ UNCHANGED reason
       \/ /\ \E done \in 0..2 : enabled' = {HookOrder[i] : i \in 1..done}
          /\ GiveUp("enable", "report")
    /\ UNCHANGED <<minhook, created, targets, writer, writer_state, status, at>>

\* MH_ApplyQueued goes through the hooks in their order, with the game's
\* threads suspended, and stops at the first that fails.
EnableHooks ==
    /\ ipc = "enable"
    /\ \/ enabled' = Hooks /\ ipc' = "writer" /\ UNCHANGED reason
       \/ /\ \E done \in 0..2 : enabled' = {HookOrder[i] : i \in 1..done}
          /\ GiveUp("enable", "disable")
    /\ UNCHANGED <<minhook, created, targets, writer, writer_state, status, at>>

\* The writer is a thread of its own.
StartWriter ==
    /\ ipc = "writer"
    /\ \/ ipc' = "await" /\ writer' = TRUE /\ UNCHANGED reason
       \/ GiveUp("writer", "disable") /\ UNCHANGED writer
    /\ UNCHANGED <<minhook, created, enabled, targets, writer_state, status, at>>

\* Mutant: what went wrong is reported, not that something did.
WriterReportsWhy ==
    /\ writer
    /\ writer_state = 0
    /\ writer_state' \in {1, 2}
    /\ UNCHANGED <<ipc, minhook, created, enabled, targets, writer, reason, status, at>>

\* It reports when it can, which may be long after anyone waited for it.
WriterReports ==
    /\ writer
    /\ writer_state = 0
    /\ writer_state' \in {-1, 1}
    /\ UNCHANGED <<ipc, minhook, created, enabled, targets, writer, reason, status, at>>

\* At most 200 looks, ten milliseconds apart.  The last may find nothing.
AwaitWriter ==
    /\ ipc = "await"
    /\ ipc' = "check"
    /\ UNCHANGED <<minhook, created, enabled, targets, writer, writer_state, reason, status, at>>

\* Mutant: only a writer that failed counts against the start.
CheckWriterFailed ==
    /\ ipc = "check"
    /\ IF writer_state # -1 THEN ipc' = "report" /\ UNCHANGED reason
                             ELSE GiveUp("artifact", "disable")
    /\ UNCHANGED <<minhook, created, enabled, targets, writer, writer_state, status, at>>

CheckWriter ==
    /\ ipc = "check"
    /\ IF writer_state = 1 THEN ipc' = "report" /\ UNCHANGED reason
                           ELSE GiveUp("artifact", "disable")
    /\ UNCHANGED <<minhook, created, enabled, targets, writer, writer_state, status, at>>

\* Taking jumps out goes through MinHook's list and stops at the first that
\* stays.
TakeOut(order) == \E done \in 0..3 : enabled' = enabled \ {order[i] : i \in 1..done}

\* remove_created_hooks: every jump, then hook by hook, then the rest, each
\* whatever became of the ones before.
DisableHooks ==
    /\ ipc = "disable"
    /\ TakeOut(HookOrder)
    /\ ipc' = IF targets = {} THEN "uninitialize" ELSE "remove"
    /\ UNCHANGED <<minhook, created, targets, writer, writer_state, reason, status, at>>

\* A hook whose jump cannot be taken out keeps its trampoline.
RemoveHook ==
    /\ ipc = "remove"
    /\ \E i \in 1..3 :
          /\ HookOrder[i] \in targets
          /\ \A j \in 1..i - 1 : HookOrder[j] \notin targets
          /\ targets' = targets \ {HookOrder[i]}
          /\ \/ created' = created \ {HookOrder[i]} /\ enabled' = enabled \ {HookOrder[i]}
             \/ HookOrder[i] \in enabled /\ UNCHANGED <<created, enabled>>
    /\ ipc' = IF targets' = {} THEN "uninitialize" ELSE "remove"
    /\ UNCHANGED <<minhook, writer, writer_state, reason, status, at>>

\* A hook that is deleted leaves its place in the list to the last.
RemainingOrder ==
    IF "input" \in created THEN HookOrder ELSE <<"input", "camera", "turn">>

\* MinHook goes, and every trampoline with it, unless a jump stays.
Uninitialize ==
    /\ ipc = "uninitialize"
    /\ TakeOut(RemainingOrder)
    /\ IF enabled' = {}
       THEN created' = {} /\ minhook' = FALSE
       ELSE UNCHANGED <<created, minhook>>
    /\ ipc' = "report"
    /\ UNCHANGED <<targets, writer, writer_state, reason, status, at>>

\* write_patch_status, whose failures nobody looks at: no directory or no file,
\* or a file cut short.
ReportStatus ==
    /\ ipc = "report"
    /\ status' \in {status, "torn", IF reason = "none" THEN "active" ELSE "inactive"}
    /\ ipc' = "finished"
    /\ UNCHANGED <<minhook, created, enabled, targets, writer, writer_state, reason, at>>

StartStep ==
    \/ Attach \/ Identify \/ Initialize \/ CreateHook \/ EnableHooks
    \/ StartWriter \/ AwaitWriter \/ CheckWriter \/ DisableHooks \/ RemoveHook
    \/ Uninitialize \/ ReportStatus

-----------------------------------------------------------------------------
(* The game.                                                               *)

EnterDetour(t) ==
    /\ at[t] = "game"
    /\ \E hook \in enabled : at' = [at EXCEPT ![t] = hook]
    /\ UNCHANGED <<ipc, minhook, created, enabled, targets, writer, writer_state, reason, status>>

\* A detour ends with a call of the original function, which is reached through
\* the hook's trampoline.  Without it the thread runs into memory that is no
\* longer code.
CallOriginal(t) ==
    /\ at[t] \in Hooks
    /\ at' = [at EXCEPT ![t] = IF @ \in created THEN "game" ELSE "stranded"]
    /\ UNCHANGED <<ipc, minhook, created, enabled, targets, writer, writer_state, reason, status>>

Next ==
    \/ StartStep
    \/ WriterReports
    \/ \E t \in Threads : EnterDetour(t) \/ CallOriginal(t)

Spec == Init /\ [][Next]_vars

-----------------------------------------------------------------------------
(* Properties.                                                             *)

Late == {"enable", "writer", "artifact"}

Everything == enabled = Hooks /\ created = Hooks /\ minhook
Nothing == enabled = {} /\ created = {} /\ ~minhook

\* Hooks MinHook would not take out: the batch had been begun.
Kept == enabled # {} /\ minhook /\ reason \in Late

\* No hook is ever half there: a jump in the game's code has its trampoline and
\* MinHook beside it, at every step and whatever MinHook refuses.  A start that
\* is over has all three hooks, or none of anything, or, given up after the
\* batch was begun, what MinHook would not take out: a start given up before
\* that leaves nothing (patch_dll.cpp:144-156, 197-242).
AllOrNothing ==
    /\ enabled \subseteq created
    /\ created # {} => minhook
    /\ ipc = "finished" => (Everything /\ reason = "none") \/ Nothing \/ Kept

\* What this session says in the status file is its last word, and it says that
\* the patch is active only with all three hooks and a writer that has its
\* artifact.  Where it says inactive there is a reason, and a hook is left only
\* if MinHook would not take it out: then the detours go on, and the file does
\* not tell (patch_dll.cpp:144-156, 235-248).
StatusTrue ==
    /\ status \in {"torn", "active", "inactive"} => ipc = "finished"
    /\ status = "active" => Everything /\ writer_state = 1 /\ reason = "none"
    /\ status = "inactive" => reason # "none" /\ (Nothing \/ Kept)

\* A thread that finds its trampoline gone entered while a jump was in place:
\* the start was given up after the batch was enabled, in part or in whole,
\* never because a hook could not be created (patch_dll.cpp:197-227).
StrandedOnlyLate ==
    (\E t \in Threads : at[t] = "stranded") => reason \in Late

=============================================================================

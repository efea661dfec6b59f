----------------------------- MODULE Deployment -----------------------------
(***************************************************************************)
(* shipping_install and shipping_uninstall                                 *)
(* (installer/shipping_installer.cpp): the direct transaction under a      *)
(* directory guard, and around it the security of the package's files, the *)
(* durable copies the watchdog repairs from, and the watchdog's task.  The *)
(* manifest is written and never read; only whether writing it fails is    *)
(* modelled.                                                               *)
(*                                                                         *)
(* A release is named by its proxy.  A command runs from a folder with a   *)
(* release's four files, or from the durable folder itself, as the         *)
(* watchdog's repair does; there the two DLLs may be of different          *)
(* releases.  The two programs are there or not: those of any release do   *)
(* the same.                                                               *)
(***************************************************************************)
EXTENDS DirectTransaction

CONSTANT CameraOf   \* the camera patch each release ships

ASSUME CameraOfReleases == CameraOf \in [Proxies -> Cameras]

VARIABLES
    directory, captured, gpc,   \* the guard, see DirectoryAccess
    found,         \* history: the directory's security when a command started
    fileSecurity,  \* of the files a transaction writes
    durable,       \* the durable copies
    task,          \* the watchdog's task is registered
    doomed,        \* the durable Patcher.exe is to be deleted at the next start
    settled,       \* history: what the last command to get under way did, "none"
                   \* when it did not report success
    dpc,           \* what each command does next
    command,       \* its kind, the four files it runs from, and whether those
                   \* are the durable ones
    template,      \* the security it captured
    result         \* what it reported

Guard == INSTANCE DirectoryAccess WITH Holders <- Patchers

accessVars == <<directory, captured, gpc>>
storeVars == <<fileSecurity, durable, task, doomed>>
commandVars == <<dpc, command, template, result>>
deployVars == <<vars, accessVars, found, storeVars, settled, commandVars>>

\* What Patcher.exe finds beside it.
FolderType ==
    [proxy : Proxies \cup {Absent}, camera : Proxies \cup {Absent},
     patcher : BOOLEAN, watchdog : BOOLEAN]
PackageFiles == {"runtime", "managed", "camera"}
Securities == {"none", "stock", "inherited"}

NoFiles == [proxy |-> Absent, camera |-> Absent, patcher |-> FALSE, watchdog |-> FALSE]
Release(r) == [proxy |-> r, camera |-> r, patcher |-> TRUE, watchdog |-> TRUE]
NoCommand == [kind |-> "none", files |-> NoFiles, own |-> FALSE]

StagingSteps == {"stage_patcher", "stage_proxy", "stage_camera", "stage_watchdog"}
RemovalSteps ==
    {"remove_task", "remove_camera", "remove_proxy", "remove_watchdog",
     "remove_patcher"}
DeploySteps ==
    {"idle", "acquire", "transaction", "secure", "restore", "unwind", "task",
     "manifest", "returned"} \cup StagingSteps \cup RemovalSteps

CommandTypeOK ==
    /\ found \in [Patchers -> Guard!Descriptors]
    /\ fileSecurity \in [PackageFiles -> Securities]
    /\ durable \in FolderType
    /\ task \in BOOLEAN
    /\ doomed \in BOOLEAN
    /\ settled \in {"none", "install", "uninstall"}
    /\ dpc \in [Patchers -> DeploySteps]
    /\ command \in
          [Patchers -> [kind : {"none", "install", "uninstall"}, files : FolderType,
                        own : BOOLEAN]]
    /\ template \in [Patchers -> Securities]
    /\ result \in [Patchers -> {"none", "ok", "refused", "failed"}]

DeployTypeOK == TypeOK /\ Guard!AccessTypeOK /\ CommandTypeOK

DeployInit ==
    /\ Init
    /\ Guard!AccessInit
    /\ found = [p \in Patchers |-> Guard!Delivered]
    /\ fileSecurity = [f \in PackageFiles |-> IF f = "runtime" THEN "stock" ELSE "none"]
    /\ durable = NoFiles
    /\ task = FALSE
    /\ doomed = FALSE
    /\ settled = "none"
    /\ dpc = [p \in Patchers |-> "idle"]
    /\ command = [p \in Patchers |-> NoCommand]
    /\ template = [p \in Patchers |-> "none"]
    /\ result = [p \in Patchers |-> "none"]

-----------------------------------------------------------------------------
(* Steps common to both commands.                                          *)

Proceed(p, step) == dpc' = [dpc EXCEPT ![p] = step]

Report(p, r) ==
    /\ Proceed(p, "returned")
    /\ result' = [result EXCEPT ![p] = r]

\* An exception on the way out of the guard's scope: the guard is destroyed,
\* which restores the directory if it is held.
Throw(p) ==
    IF gpc[p] = "held"
    THEN Proceed(p, "unwind") /\ UNCHANGED result
    ELSE Report(p, "failed")

\* Where a Patcher.exe is run from: a release's folder, complete or not, or the
\* durable folder.
ReleaseFolders ==
    {Release(r) : r \in Proxies} \cup {[Release(r) EXCEPT !.watchdog = FALSE] : r \in Proxies}

Runs(kind, folder, own) == [kind |-> kind, files |-> folder, own |-> own]

CameraIn(folder) == IF IsFile(folder.camera) THEN CameraOf[folder.camera] ELSE Absent

MayStartCommand(p) ==
    /\ dpc[p] = "idle"
    /\ OneAtATime => \A q \in Patchers : dpc[q] = "idle"

Acquire(p) ==
    /\ dpc[p] = "acquire"
    /\ Guard!Acquire(p)
    /\ IF gpc'[p] = "held" THEN Proceed(p, "transaction") /\ UNCHANGED result
       ELSE IF gpc'[p] = "refused" THEN Report(p, "failed")
       ELSE UNCHANGED <<dpc, result>>
    /\ UNCHANGED <<vars, found, storeVars, settled, command, template>>

\* A temporary of the transaction has become a file of the package; it keeps
\* the security it got when it was created in the directory.
Moved(p, slot) == staged[p][slot] # Absent /\ staged'[p][slot] = Absent

Rewritten(p) ==
    {f \in PackageFiles :
        \/ f = "runtime" /\ (Moved(p, "proxy") \/ Moved(p, "back"))
        \/ f = "managed" /\ Moved(p, "managed")
        \/ f = "camera" /\ Moved(p, "camera")}

Removed ==
    {f \in PackageFiles :
        \/ f = "managed" /\ IsFile(managed) /\ ~IsFile(managed')
        \/ f = "camera" /\ IsFile(installedCamera) /\ ~IsFile(installedCamera')}

TransactionStep(p) ==
    /\ dpc[p] = "transaction"
    /\ InstallStep(p) \/ UninstallStep(p)
    /\ fileSecurity' =
          [f \in PackageFiles |->
              IF f \in Removed THEN "none"
              ELSE IF f \in Rewritten(p) /\ pc[p] # "cleanup" THEN "inherited"
              ELSE fileSecurity[f]]
    /\ UNCHANGED <<accessVars, found, durable, task, doomed, settled, commandVars>>

\* Mutant: a transaction that failed is not told from one that succeeded.
TransactionDoneUnchecked(p) ==
    /\ dpc[p] = "transaction"
    /\ Proceed(p, IF command[p].kind = "install" THEN "secure" ELSE "restore")
    /\ UNCHANGED result
    /\ Exit(p)
    /\ UNCHANGED <<accessVars, found, storeVars, settled, command, template>>

TransactionDone(p) ==
    /\ dpc[p] = "transaction"
    /\ outcome[p] = "ok" =>
          Proceed(p, IF command[p].kind = "install" THEN "secure" ELSE "restore")
    /\ outcome[p] = "ok" => UNCHANGED result
    /\ outcome[p] # "ok" => Throw(p)
    /\ Exit(p)
    /\ UNCHANGED <<accessVars, found, storeVars, settled, command, template>>

\* Mutant: what restore answers is not looked at.
RestoreUnchecked(p) ==
    /\ dpc[p] = "restore"
    /\ Guard!Restore(p)
    /\ Proceed(p, IF command[p].kind = "install" THEN "stage_patcher" ELSE "remove_task")
    /\ UNCHANGED <<vars, found, storeVars, settled, command, template, result>>

RestoreAccess(p) ==
    /\ dpc[p] = "restore"
    /\ Guard!Restore(p)
    /\ IF gpc'[p] = "unrestored" THEN Report(p, "failed")
       ELSE /\ Proceed(p, IF command[p].kind = "install" THEN "stage_patcher"
                                                          ELSE "remove_task")
            /\ UNCHANGED result
    /\ UNCHANGED <<vars, found, storeVars, settled, command, template>>

\* ~DirectoryAccessGuard.
Unwind(p) ==
    /\ dpc[p] = "unwind"
    /\ Guard!Restore(p)
    /\ Report(p, "failed")
    /\ UNCHANGED <<vars, found, storeVars, settled, command, template>>

ForgetCommand(p) ==
    /\ Proceed(p, "idle")
    /\ Guard!Release(p)
    /\ found' = [found EXCEPT ![p] = Guard!Delivered]
    /\ command' = [command EXCEPT ![p] = NoCommand]
    /\ template' = [template EXCEPT ![p] = "none"]
    /\ result' = [result EXCEPT ![p] = "none"]
    /\ UNCHANGED <<storeVars, settled>>

ExitCommand(p) ==
    /\ dpc[p] = "returned"
    /\ ForgetCommand(p)
    /\ UNCHANGED vars

CrashCommand(p) ==
    /\ dpc[p] \notin {"idle", "returned"}
    /\ ForgetCommand(p)
    /\ IF pc[p] = "idle" THEN UNCHANGED vars ELSE Forget(p)

-----------------------------------------------------------------------------
(* shipping_install.                                                       *)

\* Lines 230-246: the first inspection, before anything is unlocked.
PlanFor(folder, running) ==
    MakeDirectInstallPlan(
        InspectFacts(running, folder.proxy, CameraIn(folder), durable.proxy))

Complete(folder) == IsFile(folder.proxy) /\ IsFile(folder.camera) /\ folder.watchdog

\* original_security_template; an earlier tool's copy has the Store's security.
TemplateSecurity(layout) ==
    IF layout = "legacy_proxy" THEN "stock"
    ELSE IF layout # "clean_store" /\ IsFile(managed) THEN fileSecurity["managed"]
    ELSE fileSecurity["runtime"]

\* A package that is not installed ends it as a running game does.
StartInstall(p, folder, own, running) ==
    LET plan == PlanFor(folder, running) IN
    /\ MayStartCommand(p)
    /\ command' = [command EXCEPT ![p] = Runs("install", folder, own)]
    /\ found' = [found EXCEPT ![p] = directory]
    /\ \/ /\ ~Complete(folder) \/ plan.operations # {}
          /\ Report(p, "failed")
          /\ UNCHANGED <<settled, template>>
       \/ /\ Complete(folder) /\ plan.layout \notin AllowedLayouts
          /\ Report(p, "refused")
          /\ UNCHANGED <<settled, template>>
       \/ /\ Complete(folder) /\ plan = Plan("managed_healthy", {})
          /\ Proceed(p, "stage_patcher")
          /\ settled' = "none"
          /\ UNCHANGED <<template, result>>
       \/ /\ Complete(folder) /\ plan.operations # {}
          /\ template' = [template EXCEPT ![p] = TemplateSecurity(plan.layout)]
          /\ Proceed(p, "acquire")
          /\ settled' = "none"
          /\ UNCHANGED result
    /\ UNCHANGED <<vars, accessVars, storeVars>>

\* The transaction inspects again, and takes the game to be closed.
BeginTransaction(p) ==
    LET folder == command[p].files IN
    /\ dpc[p] = "transaction"
    /\ IF command[p].kind = "install"
       THEN BeginInstall(p, FALSE, folder.proxy, CameraIn(folder), durable.proxy)
       ELSE BeginUninstall(p, FALSE, folder.proxy)
    /\ UNCHANGED <<accessVars, found, storeVars, settled, commandVars>>

\* apply_runtime_security: every file is tried, whatever became of the others.
Secure(p) ==
    LET present == {f \in PackageFiles : fileSecurity[f] # "none"} IN
    /\ dpc[p] = "secure"
    /\ \E done \in SUBSET present :
        /\ fileSecurity' =
              [f \in PackageFiles |-> IF f \in done THEN template[p] ELSE fileSecurity[f]]
        /\ IF done = present THEN Proceed(p, "restore") /\ UNCHANGED result
                             ELSE Throw(p)
    /\ UNCHANGED <<vars, accessVars, found, durable, task, doomed, settled,
                   command, template>>

\* copy_atomic_verified: the file whole, or the one that was there and an
\* exception.
StageDurable(p, step, f, next) ==
    /\ dpc[p] = step
    /\ \/ /\ durable' = [durable EXCEPT ![f] = command[p].files[f]]
          /\ Proceed(p, next)
          /\ UNCHANGED result
       \/ Report(p, "failed") /\ UNCHANGED durable
    /\ UNCHANGED <<vars, accessVars, found, fileSecurity, task, doomed, settled,
                   command, template>>

StageFiles(p) ==
    \/ StageDurable(p, "stage_patcher", "patcher", "stage_proxy")
    \/ StageDurable(p, "stage_proxy", "proxy", "stage_camera")
    \/ StageDurable(p, "stage_camera", "camera", "stage_watchdog")
    \/ StageDurable(p, "stage_watchdog", "watchdog", "task")

\* Mutant: a task that could not be registered is no error.
EnsureTaskUnchecked(p) ==
    /\ dpc[p] = "task"
    /\ task' \in {task, TRUE}
    /\ Proceed(p, "manifest")
    /\ UNCHANGED <<vars, accessVars, found, fileSecurity, durable, doomed,
                   settled, command, template, result>>

\* Registered and started, or registered and not restarted, or neither.
EnsureTask(p) ==
    /\ dpc[p] = "task"
    /\ \/ task' = TRUE /\ Proceed(p, "manifest") /\ UNCHANGED result
       \/ task' \in {task, TRUE} /\ Report(p, "failed")
    /\ UNCHANGED <<vars, accessVars, found, fileSecurity, durable, doomed,
                   settled, command, template>>

WriteState(p) ==
    /\ dpc[p] = "manifest"
    /\ \/ Report(p, "ok") /\ settled' = "install"
       \/ Report(p, "failed") /\ UNCHANGED settled
    /\ UNCHANGED <<vars, accessVars, found, fileSecurity, durable, task, doomed, command,
                   template>>

-----------------------------------------------------------------------------
(* shipping_uninstall.                                                     *)

StartUninstall(p, folder, own, running) ==
    LET proxy == IF IsFile(durable.proxy) THEN durable.proxy ELSE folder.proxy IN
    /\ MayStartCommand(p)
    /\ command' = [command EXCEPT ![p] =
                      Runs("uninstall", [folder EXCEPT !.proxy = proxy], own)]
    /\ found' = [found EXCEPT ![p] = directory]
    /\ IF running THEN Report(p, "refused") /\ UNCHANGED settled
       ELSE Proceed(p, "acquire") /\ settled' = "none" /\ UNCHANGED result
    /\ UNCHANGED <<vars, accessVars, storeVars, template>>

\* Nothing from here on is checked.
RemoveTask(p) ==
    /\ dpc[p] = "remove_task"
    /\ task' \in {task, FALSE}
    /\ Proceed(p, "remove_camera")
    /\ UNCHANGED <<vars, accessVars, found, fileSecurity, durable, doomed,
                   settled, command, template, result>>

RemoveDurable(p, step, f, gone, next) ==
    /\ dpc[p] = step
    /\ \E left \in {durable[f], gone} : durable' = [durable EXCEPT ![f] = left]
    /\ Proceed(p, next)
    /\ UNCHANGED <<vars, accessVars, found, fileSecurity, task, doomed, settled,
                   command, template, result>>

RemoveFiles(p) ==
    \/ RemoveDurable(p, "remove_camera", "camera", Absent, "remove_proxy")
    \/ RemoveDurable(p, "remove_proxy", "proxy", Absent, "remove_watchdog")
    \/ RemoveDurable(p, "remove_watchdog", "watchdog", FALSE, "remove_patcher")

\* The durable Patcher.exe cannot delete itself: it asks for that to be done at
\* the next start of the system.
RemovePatcher(p) ==
    /\ dpc[p] = "remove_patcher"
    /\ \/ /\ ~command[p].own
          /\ \E left \in {durable.patcher, FALSE} :
                 durable' = [durable EXCEPT !.patcher = left]
          /\ UNCHANGED doomed
       \/ /\ command[p].own
          /\ doomed' \in {doomed, TRUE}
          /\ UNCHANGED durable
    /\ Report(p, "ok")
    /\ settled' = "uninstall"
    /\ UNCHANGED <<vars, accessVars, found, fileSecurity, task, command, template>>

-----------------------------------------------------------------------------
(* The surroundings, none of them in this repository.                      *)

NoCommandRuns == \A p \in Patchers : dpc[p] = "idle"

ServicePackage(v) ==
    /\ NoCommandRuns
    /\ StoreService(v)
    /\ fileSecurity' = [fileSecurity EXCEPT !["runtime"] = "stock"]
    /\ UNCHANGED <<accessVars, found, durable, task, doomed, settled,
                   commandVars>>

\* A new directory, with the Store's security.
RedeployPackage(v) ==
    /\ NoCommandRuns
    /\ StoreRedeploy(v)
    /\ directory' = Guard!Delivered
    /\ fileSecurity' = [f \in PackageFiles |-> IF f = "runtime" THEN "stock" ELSE "none"]
    /\ UNCHANGED <<captured, gpc, found, durable, task, doomed, settled,
                   commandVars>>

\* What was asked to be deleted is deleted, whatever stands there by then.
Reboot ==
    /\ NoCommandRuns
    /\ doomed
    /\ doomed' = FALSE
    /\ durable' = [durable EXCEPT !.patcher = FALSE]
    /\ UNCHANGED <<vars, accessVars, found, fileSecurity, task, settled,
                   commandVars>>

-----------------------------------------------------------------------------

InstallCommandStep(p) == Secure(p) \/ StageFiles(p) \/ EnsureTask(p) \/ WriteState(p)

UninstallCommandStep(p) ==
    RemoveTask(p) \/ RemoveFiles(p) \/ RemovePatcher(p)

CommandStep(p) ==
    \/ \E folder \in ReleaseFolders, running \in BOOLEAN :
          StartInstall(p, folder, FALSE, running) \/ StartUninstall(p, folder, FALSE, running)
    \/ \E running \in BOOLEAN :
          /\ durable.patcher
          /\ StartInstall(p, durable, TRUE, running) \/ StartUninstall(p, durable, TRUE, running)
    \/ Acquire(p) \/ BeginTransaction(p) \/ TransactionStep(p) \/ TransactionDone(p)
    \/ RestoreAccess(p) \/ Unwind(p)
    \/ InstallCommandStep(p) \/ UninstallCommandStep(p)
    \/ ExitCommand(p) \/ CrashCommand(p)

DeployNext ==
    \/ \E p \in Patchers : CommandStep(p)
    \/ \E v \in Originals : ServicePackage(v) \/ RedeployPackage(v)
    \/ Reboot

DeploySpec == DeployInit /\ [][DeployNext]_deployVars

-----------------------------------------------------------------------------
(* Properties.                                                             *)

\* A command that reports success, or refuses, leaves the owner and the access
\* list of the package directory as it found them, and so does one that fails:
\* unless putting them back failed, or the guard had taken the directory over
\* and then could not open it, when only the owner differs
\* (shipping_installer.cpp:253-275, 300-308; directory_access.cpp:187-243).
AsFound(p) ==
    /\ gpc[p] \in {"idle", "restored"} => directory = found[p]
    /\ gpc[p] = "refused" => directory \in {found[p], [found[p] EXCEPT !.owner = "user"]}
    /\ result[p] # "failed" => gpc[p] \in {"idle", "restored"}
LeftAsFound == \A p \in Patchers : dpc[p] = "returned" => AsFound(p)

\* After a command that reported success a live proxy is the durable one, with a
\* stock runtime preserved: an uninstallation, which knows the live proxy by the
\* durable copy, restores it (shipping_installer.cpp:122-129, 277, 292-302).
Reversible ==
    settled # "none" /\ current \in Proxies => UninstallStart(durable.proxy) = "restore"

\* After an installation that reported success the watchdog's task is registered
\* and, whatever the Store has done to the package since, a repair from the
\* durable files has a plan it may carry out (shipping_installer.cpp:277-279).
Repairable ==
    settled = "install" =>
        /\ task /\ Complete(durable)
        /\ PlanFor(durable, FALSE).layout \in AllowedLayouts

\* The durable proxy, by which a live one is recognised, is given up only when
\* none is live, through kills and removals that fail
\* (shipping_installer.cpp:300-318).
DurableOutlives ==
    [][IsFile(durable.proxy) /\ ~IsFile(durable'.proxy) => current \notin Proxies]_deployVars

\* README.md:38, "A hidden, event-driven watchdog detects when an update removes
\* the bootstrap and repairs it after Minecraft closes": after an installation
\* that reported success the watchdog has a Patcher.exe to repair with.
PatcherAtHand == settled = "install" => durable.patcher

\* README.md:142-143, "Restores the package directory owner, access rules, and
\* original file security": after an installation that reported success no file
\* of the package is left with the security it was created with.
SecurityRestored ==
    settled = "install" => \A f \in PackageFiles : fileSecurity[f] # "inherited"

-----------------------------------------------------------------------------
(* The inductive strengthening of LeftAsFound, for OneAtATime: what the     *)
(* guard has done to the directory, at each step of the command holding it. *)

OneCommand == \A p, q \in Patchers : dpc[p] # "idle" /\ dpc[q] # "idle" => p = q

\* Where the guard can be at each step of its command.
GuardAt(p) ==
    /\ dpc[p] = "idle" => gpc[p] = "idle"
    /\ dpc[p] = "acquire" => gpc[p] \in {"idle", "grant", "own", "grant_again"}
    /\ dpc[p] \in {"transaction", "secure", "restore", "unwind"} => gpc[p] = "held"
    /\ dpc[p] \in StagingSteps \cup RemovalSteps \cup {"task", "manifest"}
          => gpc[p] \in {"idle", "restored"}
    /\ dpc[p] = "returned" /\ result[p] # "failed" => gpc[p] \in {"idle", "restored"}

\* What the directory is at each place of the guard.
DirectoryAt(p) ==
    LET taken == [found[p] EXCEPT !.owner = "user"] IN
    /\ gpc[p] \in {"grant", "own", "grant_again", "held"} => captured[p] = found[p]
    /\ gpc[p] \in {"idle", "grant", "own", "restored"} => directory = found[p]
    /\ gpc[p] = "grant_again" => directory = taken
    /\ gpc[p] = "refused" => directory \in {found[p], taken}

\* What holds between any two steps of the commands and their surroundings
\* (shipping_installer.cpp:226-328, directory_access.cpp:144-243).
AccessInv ==
    /\ Guard!AccessTypeOK
    /\ CommandTypeOK
    /\ OneCommand
    /\ \A p \in Patchers : GuardAt(p) /\ (dpc[p] # "idle" => DirectoryAt(p))

-----------------------------------------------------------------------------
(* The inductive strengthening of Reversible and DurableOutlives, for       *)
(* OneAtATime and ~StaleLegacy, beside that of the transaction: it relates  *)
(* what is live to what is durable.                                         *)

\* What a command has established of the live runtime and the durable proxy.
StoreAt(p) ==
    LET proxy == command[p].files.proxy
        installed == IsFile(proxy) /\ current = proxy
    IN
    /\ dpc[p] # "idle" => command[p].kind # "none"
    /\ dpc[p] # "transaction" => pc[p] = "idle"
    /\ dpc[p] \notin {"idle", "returned"} => settled = "none"
    /\ pc[p] # "idle" => job[p].kind = command[p].kind /\ job[p].proxy = proxy
    /\ dpc[p] = "secure" => command[p].kind = "install"
    /\ dpc[p] \in {"secure", "task", "manifest"} \cup StagingSteps => installed
    /\ dpc[p] = "restore" => IF command[p].kind = "install" THEN installed
                                                          ELSE LooksOriginal(current)
    /\ dpc[p] \in {"stage_camera", "stage_watchdog", "task", "manifest"}
          => durable.proxy = proxy
    /\ dpc[p] \in RemovalSteps => LooksOriginal(current)

Tied == settled # "none" /\ current \in Proxies => current = durable.proxy

\* What holds between any two steps of the commands
\* (shipping_installer.cpp:226-328).
StoreInv ==
    /\ IInv
    /\ CommandTypeOK /\ Guard!AccessTypeOK
    /\ OneCommand
    /\ \A p \in Patchers : StoreAt(p)
    /\ Tied
    /\ HasTarget

\* And of Repairable: what an installation has staged so far is what it runs
\* from, and nothing but a stock runtime is ever preserved.
StagedAt(p) ==
    LET folder == command[p].files IN
    /\ dpc[p] \in {"secure", "task", "manifest"} \cup StagingSteps
          => command[p].kind = "install"
    /\ command[p].kind = "install" /\ dpc[p] \notin {"idle", "returned"} => Complete(folder)
    /\ dpc[p] \in {"stage_watchdog", "task", "manifest"} => durable.camera = folder.camera
    /\ dpc[p] \in {"task", "manifest"} => durable.watchdog
    /\ dpc[p] = "manifest" => task

Ready ==
    settled = "install" => task /\ Complete(durable) /\ current \in Originals \cup Proxies

RepairInv ==
    /\ StoreInv
    /\ \A p \in Patchers : StagedAt(p)
    /\ {managed, legacy} \subseteq Originals \cup {Absent}
    /\ Ready

=============================================================================

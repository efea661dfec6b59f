--------------------------- MODULE DeploymentProofs ---------------------------
(***************************************************************************)
(* What holds of the two commands for any releases: their states are well  *)
(* formed; seen from the package directory's files they are the direct     *)
(* transaction, so that all that is proved of it holds of them; and, when  *)
(* commands do not overlap, they leave the directory's owner and access    *)
(* list as they found them.                                                *)
(***************************************************************************)
EXTENDS Deployment, DirectTransactionProofs

-----------------------------------------------------------------------------
(* Types.                                                                  *)

\* What a command's step does not touch: the other commands.
CommandFrame(p) == \A q \in Patchers \ {p} :
    /\ dpc'[q] = dpc[q] /\ gpc'[q] = gpc[q] /\ captured'[q] = captured[q]
    /\ found'[q] = found[q] /\ result'[q] = result[q]

CommandInv == Guard!AccessTypeOK /\ CommandTypeOK

LEMMA ReportTypes ==
    ASSUME CommandTypeOK, NEW p \in Patchers, NEW r \in {"none", "ok", "refused", "failed"},
           Report(p, r)
    PROVE  /\ dpc' \in [Patchers -> DeploySteps]
           /\ result' \in [Patchers -> {"none", "ok", "refused", "failed"}]
           /\ \A q \in Patchers \ {p} : dpc'[q] = dpc[q] /\ result'[q] = result[q]
BY DEF CommandTypeOK, Report, Proceed, DeploySteps

LEMMA ProceedTypes ==
    ASSUME CommandTypeOK, NEW p \in Patchers, NEW step \in DeploySteps, Proceed(p, step)
    PROVE  /\ dpc' \in [Patchers -> DeploySteps]
           /\ \A q \in Patchers \ {p} : dpc'[q] = dpc[q]
BY DEF CommandTypeOK, Proceed

LEMMA ThrowTypes ==
    ASSUME CommandTypeOK, NEW p \in Patchers, Throw(p)
    PROVE  /\ dpc' \in [Patchers -> DeploySteps]
           /\ result' \in [Patchers -> {"none", "ok", "refused", "failed"}]
           /\ \A q \in Patchers \ {p} : dpc'[q] = dpc[q] /\ result'[q] = result[q]
BY ReportTypes DEF Throw, Proceed, DeploySteps, CommandTypeOK

\* Each place of the guard leads to another (directory_access.cpp:144-243).
LEMMA GuardTypes ==
    ASSUME Guard!AccessTypeOK, NEW p \in Patchers,
           Guard!Acquire(p) \/ Guard!Restore(p) \/ Guard!Release(p)
    PROVE  /\ Guard!AccessTypeOK'
           /\ \A q \in Patchers \ {p} : gpc'[q] = gpc[q] /\ captured'[q] = captured[q]
<1> USE DEF Guard!AccessTypeOK, Guard!Places, Guard!Descriptors, Guard!NoDescriptor,
            Guard!Go, Guard!GiveUp
<1>1. CASE Guard!Capture(p)
  BY <1>1 DEF Guard!Capture
<1>2. CASE Guard!Grant(p)
  BY <1>2 DEF Guard!Grant
<1>3. CASE Guard!TakeOwnership(p)
  BY <1>3 DEF Guard!TakeOwnership
<1>4. CASE Guard!GrantAgain(p)
  BY <1>4 DEF Guard!GrantAgain
<1>5. CASE Guard!Restore(p)
  BY <1>5 DEF Guard!Restore
<1>6. CASE Guard!Release(p)
  BY <1>6 DEF Guard!Release
<1>7. QED
  BY <1>1, <1>2, <1>3, <1>4, <1>5, <1>6 DEF Guard!Acquire

LEMMA ReleaseFolderTypes ==
    ASSUME NEW folder \in ReleaseFolders
    PROVE  folder \in FolderType
<1>1. PICK r \in Proxies :
          folder = Release(r) \/ folder = [Release(r) EXCEPT !.watchdog = FALSE]
  BY DEF ReleaseFolders
<1>2. Release(r) \in FolderType
  BY DEF FolderType, Release
<1>3. [Release(r) EXCEPT !.watchdog = FALSE] \in FolderType
  BY <1>2 DEF FolderType
<1>4. QED
  BY <1>1, <1>2, <1>3

LEMMA StartTypes ==
    ASSUME CommandInv, NEW p \in Patchers, NEW folder \in FolderType, NEW own \in BOOLEAN,
           NEW running \in BOOLEAN,
           \/ StartInstall(p, folder, own, running)
           \/ StartUninstall(p, folder, own, running)
    PROVE  CommandInv' /\ CommandFrame(p)
<1> USE DEF CommandInv
<1>1. Guard!AccessTypeOK' /\ UNCHANGED <<accessVars, storeVars>>
  BY DEF StartInstall, StartUninstall, accessVars, storeVars, Guard!AccessTypeOK
<1>2. /\ found' \in [Patchers -> Guard!Descriptors]
      /\ \A q \in Patchers \ {p} : found'[q] = found[q]
  BY DEF StartInstall, StartUninstall, CommandTypeOK, Guard!AccessTypeOK
<1>3. command' \in [Patchers -> [kind : {"none", "install", "uninstall"},
                                 files : FolderType, own : BOOLEAN]]
  <2>1. CASE StartInstall(p, folder, own, running)
    BY <2>1 DEF StartInstall, Runs, CommandTypeOK
  <2>2. CASE StartUninstall(p, folder, own, running)
    <3> DEFINE proxy == IF IsFile(durable.proxy) THEN durable.proxy ELSE folder.proxy
    <3>1. [folder EXCEPT !.proxy = proxy] \in FolderType
      BY DEF FolderType, CommandTypeOK
    <3>2. QED
      BY <2>2, <3>1 DEF StartUninstall, Runs, CommandTypeOK
  <2>3. QED
    BY <2>1, <2>2
<1>4. template' \in [Patchers -> Securities]
  <2>1. \A layout : TemplateSecurity(layout) \in Securities
    BY DEF TemplateSecurity, Securities, PackageFiles, CommandTypeOK
  <2>2. QED
    BY <2>1 DEF StartInstall, StartUninstall, CommandTypeOK
<1>5. /\ dpc' \in [Patchers -> DeploySteps]
      /\ result' \in [Patchers -> {"none", "ok", "refused", "failed"}]
      /\ \A q \in Patchers \ {p} : dpc'[q] = dpc[q] /\ result'[q] = result[q]
  BY DEF StartInstall, StartUninstall, Report, Proceed, DeploySteps, StagingSteps,
         CommandTypeOK
<1>6. settled' \in {"none", "install", "uninstall"}
  BY DEF StartInstall, StartUninstall, CommandTypeOK
<1>7. QED
  BY <1>1, <1>2, <1>3, <1>4, <1>5, <1>6
     DEF accessVars, storeVars, CommandTypeOK, CommandFrame

LEMMA CommandTypes ==
    ASSUME CommandInv, NEW p \in Patchers, CommandStep(p)
    PROVE  CommandInv' /\ CommandFrame(p)
<1> USE DEF CommandInv, commandVars, storeVars, accessVars, DeploySteps, StagingSteps,
            RemovalSteps
<1>1. ASSUME NEW folder \in ReleaseFolders, NEW running \in BOOLEAN,
             \/ StartInstall(p, folder, FALSE, running)
             \/ StartUninstall(p, folder, FALSE, running)
      PROVE  CommandInv' /\ CommandFrame(p)
  BY <1>1, StartTypes, ReleaseFolderTypes
<1>2. ASSUME NEW running \in BOOLEAN,
             \/ StartInstall(p, durable, TRUE, running)
             \/ StartUninstall(p, durable, TRUE, running)
      PROVE  CommandInv' /\ CommandFrame(p)
  <2>1. durable \in FolderType
    BY DEF CommandTypeOK
  <2>2. QED
    BY <1>2, <2>1, StartTypes
<1>3. CASE Acquire(p)
  BY <1>3, GuardTypes, ReportTypes, ProceedTypes
     DEF Acquire, CommandTypeOK, CommandFrame
<1>4. CASE BeginTransaction(p)
  BY <1>4 DEF BeginTransaction, CommandTypeOK, CommandFrame, Guard!AccessTypeOK
<1>5. CASE TransactionStep(p)
  BY <1>5 DEF TransactionStep, CommandTypeOK, CommandFrame, Guard!AccessTypeOK, Securities
<1>6. CASE TransactionDone(p)
  BY <1>6, ThrowTypes, ProceedTypes
     DEF TransactionDone, CommandTypeOK, CommandFrame, Guard!AccessTypeOK
<1>7. CASE RestoreAccess(p)
  BY <1>7, GuardTypes, ReportTypes, ProceedTypes
     DEF RestoreAccess, CommandTypeOK, CommandFrame
<1>8. CASE Unwind(p)
  BY <1>8, GuardTypes, ReportTypes DEF Unwind, CommandTypeOK, CommandFrame
<1>9. CASE Secure(p)
  <2>1. fileSecurity' \in [PackageFiles -> Securities]
    BY <1>9 DEF Secure, CommandTypeOK
  <2>2. QED
    BY <1>9, <2>1, ThrowTypes, ProceedTypes
       DEF Secure, CommandTypeOK, CommandFrame, Guard!AccessTypeOK
<1>10. CASE StageFiles(p)
  <2>1. command[p].files \in FolderType /\ durable \in FolderType
    BY DEF CommandTypeOK
  <2>2. PICK f \in {"patcher", "proxy", "camera", "watchdog"} :
            durable' = [durable EXCEPT ![f] = command[p].files[f]] \/ UNCHANGED durable
    BY <1>10 DEF StageFiles, StageDurable
  <2>3. durable' \in FolderType
    BY <2>1, <2>2 DEF FolderType
  <2>4. QED
    BY <1>10, <2>3, ReportTypes, ProceedTypes
       DEF StageFiles, StageDurable, CommandTypeOK, CommandFrame, Guard!AccessTypeOK
<1>11. CASE EnsureTask(p)
  BY <1>11, ReportTypes, ProceedTypes
     DEF EnsureTask, CommandTypeOK, CommandFrame, Guard!AccessTypeOK
<1>12. CASE WriteState(p)
  BY <1>12, ReportTypes DEF WriteState, CommandTypeOK, CommandFrame, Guard!AccessTypeOK
<1>13. CASE RemoveTask(p)
  BY <1>13, ProceedTypes DEF RemoveTask, CommandTypeOK, CommandFrame, Guard!AccessTypeOK
<1>14. CASE RemoveFiles(p)
  <2>1. durable' \in FolderType
    BY <1>14 DEF RemoveFiles, RemoveDurable, CommandTypeOK, FolderType
  <2>2. QED
    BY <1>14, <2>1, ProceedTypes
       DEF RemoveFiles, RemoveDurable, CommandTypeOK, CommandFrame, Guard!AccessTypeOK
<1>15. CASE RemovePatcher(p)
  <2>1. durable' \in FolderType
    BY <1>15 DEF RemovePatcher, CommandTypeOK, FolderType
  <2>2. QED
    BY <1>15, <2>1, ReportTypes
       DEF RemovePatcher, CommandTypeOK, CommandFrame, Guard!AccessTypeOK
<1>16. CASE ForgetCommand(p)
  <2>1. NoCommand \in [kind : {"none", "install", "uninstall"}, files : FolderType,
                       own : BOOLEAN]
    BY DEF NoCommand, NoFiles, FolderType
  <2>2. Guard!Delivered \in Guard!Descriptors
    BY DEF Guard!Delivered, Guard!Descriptors
  <2>3. QED
    BY <1>16, <2>1, <2>2, GuardTypes, ProceedTypes
       DEF ForgetCommand, CommandTypeOK, CommandFrame, Securities
<1>17. QED
  BY <1>1, <1>2, <1>3, <1>4, <1>5, <1>6, <1>7, <1>8, <1>9, <1>10, <1>11, <1>12, <1>13,
     <1>14, <1>15, <1>16
     DEF CommandStep, InstallCommandStep, UninstallCommandStep, ExitCommand, CrashCommand

LEMMA CommandInductive == CommandInv /\ [DeployNext]_deployVars => CommandInv'
<1> SUFFICES ASSUME CommandInv, [DeployNext]_deployVars PROVE CommandInv'
  OBVIOUS
<1> USE DEF CommandInv, commandVars, storeVars, accessVars
<1>1. ASSUME NEW p \in Patchers, CommandStep(p) PROVE CommandInv'
  BY <1>1, CommandTypes
<1>2. ASSUME NEW v \in Originals, ServicePackage(v) PROVE CommandInv'
  BY <1>2 DEF ServicePackage, CommandTypeOK, Guard!AccessTypeOK, Securities
<1>3. ASSUME NEW v \in Originals, RedeployPackage(v) PROVE CommandInv'
  BY <1>3 DEF RedeployPackage, CommandTypeOK, Guard!AccessTypeOK, Guard!Delivered,
              Guard!Descriptors, Securities
<1>4. CASE Reboot
  BY <1>4 DEF Reboot, CommandTypeOK, Guard!AccessTypeOK, FolderType
<1>5. CASE UNCHANGED deployVars
  BY <1>5 DEF deployVars, CommandTypeOK, Guard!AccessTypeOK
<1>6. QED
  BY <1>1, <1>2, <1>3, <1>4, <1>5 DEF DeployNext

LEMMA CommandInit == DeployInit => CommandInv
<1> SUFFICES ASSUME DeployInit PROVE CommandInv
  OBVIOUS
<1>1. Guard!AccessTypeOK
  BY DEF DeployInit, Guard!AccessInit, Guard!AccessTypeOK, Guard!Delivered,
         Guard!Descriptors, Guard!NoDescriptor, Guard!Places
<1>2. NoFiles \in FolderType
  BY DEF NoFiles, FolderType
<1>3. NoCommand \in [kind : {"none", "install", "uninstall"}, files : FolderType,
                     own : BOOLEAN]
  BY <1>2 DEF NoCommand
<1>4. QED
  BY <1>1, <1>2, <1>3
     DEF DeployInit, CommandInv, CommandTypeOK, Guard!Delivered, Guard!Descriptors,
         Securities, DeploySteps

LEMMA CommandsTyped == DeploySpec => []CommandInv
BY CommandInit, CommandInductive, PTL DEF DeploySpec

-----------------------------------------------------------------------------
(* The commands seen from the package directory's files.                   *)

\* What a command does to the files is a step of the transaction, or nothing.
LEMMA CommandMoves ==
    ASSUME CommandInv, NEW p \in Patchers, CommandStep(p)
    PROVE  PatcherStep(p) \/ UNCHANGED vars
<1>1. CASE BeginTransaction(p)
  <2>1. /\ command[p].files.proxy \in Proxies \cup {Absent}
        /\ CameraIn(command[p].files) \in Cameras \cup {Absent}
        /\ durable.proxy \in Proxies \cup {Absent}
    BY CameraOfReleases DEF CommandInv, CommandTypeOK, FolderType, CameraIn, IsFile
  <2>2. QED
    BY <1>1, <2>1 DEF BeginTransaction, PatcherStep, Begin
<1>2. CASE TransactionStep(p)
  BY <1>2 DEF TransactionStep, PatcherStep
<1>3. CASE TransactionDone(p)
  BY <1>3 DEF TransactionDone, PatcherStep
<1>4. CASE CrashCommand(p)
  BY <1>4 DEF CrashCommand, PatcherStep, Exit, Crash
<1>5. CASE InstallCommandStep(p) \/ UninstallCommandStep(p)
  BY <1>5 DEF InstallCommandStep, Secure, StageFiles, StageDurable, EnsureTask, WriteState,
              UninstallCommandStep, RemoveTask, RemoveFiles, RemoveDurable, RemovePatcher
<1>6. CASE Acquire(p) \/ RestoreAccess(p) \/ Unwind(p) \/ ExitCommand(p)
  BY <1>6 DEF Acquire, RestoreAccess, Unwind, ExitCommand
<1>7. QED
  BY <1>1, <1>2, <1>3, <1>4, <1>5, <1>6 DEF CommandStep, StartInstall, StartUninstall

\* The commands implement the transaction: whatever is proved of its steps is
\* so when shipping_install and shipping_uninstall make them, with their own
\* payloads, around the steps of the guard, of staging and of the task
\* (shipping_installer.cpp:253-275, 300-308).
THEOREM CommandsTransact == DeploySpec => Spec
<1>1. DeployInit => Init
  BY DEF DeployInit
<1>2. ASSUME CommandInv, [DeployNext]_deployVars PROVE [Next]_vars
  <2>1. CASE \E p \in Patchers : CommandStep(p)
    BY <1>2, <2>1, CommandMoves DEF Next
  <2>2. ASSUME NEW v \in Originals, ServicePackage(v) \/ RedeployPackage(v)
        PROVE  [Next]_vars
    BY <2>2 DEF ServicePackage, RedeployPackage, Next, Environment
  <2>3. CASE Reboot \/ UNCHANGED deployVars
    BY <2>3 DEF Reboot, deployVars
  <2>4. QED
    BY <1>2, <2>1, <2>2, <2>3 DEF DeployNext
<1>3. QED
  BY <1>1, <1>2, CommandsTyped, PTL DEF DeploySpec, Spec

\* Every state of the commands is well formed: in particular each of the
\* package's files is always a whole build.
THEOREM DeployTyped == DeploySpec => []DeployTypeOK
<1>1. CommandInv /\ TypeOK => DeployTypeOK
  BY DEF CommandInv, DeployTypeOK
<1>2. QED
  BY <1>1, CommandsTyped, CommandsTransact, TypeCorrect, PTL

-----------------------------------------------------------------------------
(* The directory's owner and access list.                                  *)

\* A step of a command that holds p's place and leaves the guard alone.
LEMMA AccessKept ==
    ASSUME AccessInv, NEW p \in Patchers, UNCHANGED <<accessVars, found>>, dpc[p] # "idle",
           dpc'[p] # "idle"
    PROVE  DirectoryAt(p)'
BY DEF AccessInv, DirectoryAt, accessVars

\* The steps of the guard (directory_access.cpp:144-206).
LEMMA AcquireAccess ==
    ASSUME AccessInv, NEW p \in Patchers, Acquire(p)
    PROVE  GuardAt(p)' /\ DirectoryAt(p)'
<1> USE DEF AccessInv, CommandTypeOK, Guard!AccessTypeOK, Guard!Go
<1>1. dpc[p] = "acquire" /\ DirectoryAt(p) /\ UNCHANGED found
  BY DEF Acquire
<1>2. /\ gpc'[p] \in {"grant", "own", "grant_again", "held", "refused"}
      /\ DirectoryAt(p)'
  <2>1. CASE Guard!Capture(p)
    BY <1>1, <2>1 DEF Guard!Capture, Guard!GiveUp, DirectoryAt
  <2>2. CASE Guard!Grant(p)
    BY <1>1, <2>2 DEF Guard!Grant, Guard!GiveUp, DirectoryAt
  <2>3. CASE Guard!TakeOwnership(p)
    BY <1>1, <2>3 DEF Guard!TakeOwnership, Guard!GiveUp, DirectoryAt
  <2>4. CASE Guard!GrantAgain(p)
    BY <1>1, <2>4 DEF Guard!GrantAgain, Guard!GiveUp, DirectoryAt
  <2>5. QED
    BY <2>1, <2>2, <2>3, <2>4 DEF Acquire, Guard!Acquire
<1>3. GuardAt(p)'
  BY <1>1, <1>2 DEF Acquire, Report, Proceed, GuardAt, StagingSteps, RemovalSteps
<1>4. QED
  BY <1>2, <1>3

\* Putting the captured security back (directory_access.cpp:208-243).
LEMMA RestoreAccessKept ==
    ASSUME AccessInv, NEW p \in Patchers, RestoreAccess(p) \/ Unwind(p)
    PROVE  GuardAt(p)' /\ DirectoryAt(p)'
<1> USE DEF AccessInv, CommandTypeOK, Guard!AccessTypeOK, Guard!Go
<1>1. /\ gpc'[p] \in {"restored", "unrestored"}
      /\ DirectoryAt(p)'
  BY DEF RestoreAccess, Unwind, Guard!Restore, DirectoryAt
<1>2. GuardAt(p)'
  BY <1>1 DEF RestoreAccess, Unwind, Report, Proceed, GuardAt, StagingSteps, RemovalSteps
<1>3. QED
  BY <1>1, <1>2

\* A command's step keeps its own part of the invariant
\* (shipping_installer.cpp:226-328).
LEMMA CommandAccess ==
    ASSUME AccessInv, NEW p \in Patchers, CommandStep(p)
    PROVE  GuardAt(p)' /\ (dpc'[p] # "idle" => DirectoryAt(p)')
<1> USE DEF AccessInv, CommandTypeOK, Guard!AccessTypeOK, accessVars, GuardAt, Proceed,
            Report, StagingSteps, RemovalSteps
<1>1. ASSUME NEW folder, NEW own, NEW running,
             \/ StartInstall(p, folder, own, running)
             \/ StartUninstall(p, folder, own, running)
      PROVE  GuardAt(p)' /\ DirectoryAt(p)'
  <2>1. /\ gpc[p] = "idle" /\ UNCHANGED accessVars
        /\ dpc'[p] \in {"acquire", "stage_patcher", "returned"}
        /\ found'[p] = directory
    BY <1>1 DEF StartInstall, StartUninstall, MayStartCommand
  <2>2. QED
    BY <2>1 DEF DirectoryAt
<1>2. CASE BeginTransaction(p) \/ TransactionStep(p)
  BY <1>2, AccessKept DEF BeginTransaction, TransactionStep, commandVars
<1>3. CASE TransactionDone(p)
  BY <1>3, AccessKept DEF TransactionDone, Throw
<1>4. CASE Secure(p)
  BY <1>4, AccessKept DEF Secure, Throw
<1>5. CASE StageFiles(p)
  BY <1>5, AccessKept DEF StageFiles, StageDurable
<1>6. CASE EnsureTask(p)
  BY <1>6, AccessKept DEF EnsureTask
<1>7. CASE WriteState(p)
  BY <1>7, AccessKept DEF WriteState
<1>8. CASE RemoveTask(p)
  BY <1>8, AccessKept DEF RemoveTask
<1>9. CASE RemoveFiles(p)
  BY <1>9, AccessKept DEF RemoveFiles, RemoveDurable
<1>10. CASE RemovePatcher(p)
  BY <1>10, AccessKept DEF RemovePatcher
<1>11. CASE ForgetCommand(p)
  BY <1>11 DEF ForgetCommand, Guard!Release, Guard!Go
<1>12. QED
  BY <1>1, <1>2, <1>3, <1>4, <1>5, <1>6, <1>7, <1>8, <1>9, <1>10, <1>11, AcquireAccess,
     RestoreAccessKept
     DEF CommandStep, InstallCommandStep, UninstallCommandStep, ExitCommand, CrashCommand

\* Only a command that starts acts while it is not under way; and none starts
\* while another is.
LEMMA IdleStarts ==
    ASSUME OneAtATime, NEW p \in Patchers, CommandStep(p), dpc[p] = "idle"
    PROVE  \A q \in Patchers \ {p} : dpc[q] = "idle"
BY DEF CommandStep, StartInstall, StartUninstall, MayStartCommand, Acquire,
       BeginTransaction, TransactionStep, TransactionDone, RestoreAccess, Unwind,
       InstallCommandStep, Secure, StageFiles, StageDurable, EnsureTask, WriteState,
       UninstallCommandStep, RemoveTask, RemoveFiles, RemoveDurable, RemovePatcher,
       ExitCommand, CrashCommand

\* A command acts while no other runs.
LEMMA CommandAlone ==
    ASSUME OneAtATime, CommandInv, OneCommand, NEW p \in Patchers, CommandStep(p)
    PROVE  \A q \in Patchers \ {p} : dpc[q] = "idle" /\ dpc'[q] = "idle"
<1>1. \A q \in Patchers \ {p} : dpc[q] = "idle"
  BY IdleStarts DEF OneCommand
<1>2. QED
  BY <1>1, CommandTypes DEF CommandFrame

LEMMA AccessInductive ==
    ASSUME OneAtATime, AccessInv, [DeployNext]_deployVars
    PROVE  AccessInv'
<1>1. CommandInv'
  BY CommandInductive DEF AccessInv, CommandInv
<1>2. ASSUME NEW p \in Patchers, CommandStep(p) PROVE AccessInv'
  <2>1. /\ CommandFrame(p)
        /\ \A q \in Patchers \ {p} : dpc[q] = "idle" /\ dpc'[q] = "idle"
    BY <1>2, CommandTypes, CommandAlone DEF AccessInv, CommandInv
  <2>2. \A q \in Patchers \ {p} : dpc'[q] = "idle" /\ GuardAt(q)'
    BY <2>1 DEF CommandFrame, AccessInv, GuardAt, StagingSteps, RemovalSteps
  <2>3. OneCommand'
    BY <2>2 DEF OneCommand
  <2>4. QED
    BY <1>1, <1>2, <2>2, <2>3, CommandAccess DEF AccessInv, CommandInv
<1>3. ASSUME NoCommandRuns, UNCHANGED <<gpc, dpc, result>> PROVE AccessInv'
  <2>1. \A q \in Patchers : GuardAt(q)' /\ dpc'[q] = "idle"
    BY <1>3 DEF AccessInv, GuardAt, NoCommandRuns, StagingSteps, RemovalSteps
  <2>2. QED
    BY <1>1, <2>1 DEF AccessInv, CommandInv, OneCommand
<1>4. ASSUME NEW v \in Originals, ServicePackage(v) \/ RedeployPackage(v) PROVE AccessInv'
  BY <1>3, <1>4 DEF ServicePackage, RedeployPackage, accessVars, commandVars
<1>5. CASE Reboot
  BY <1>3, <1>5 DEF Reboot, accessVars, commandVars
<1>6. CASE UNCHANGED deployVars
  BY <1>1, <1>6
     DEF deployVars, accessVars, commandVars, AccessInv, CommandInv, OneCommand, GuardAt,
         DirectoryAt
<1>7. QED
  BY <1>2, <1>4, <1>5, <1>6 DEF DeployNext

\* Every command that returns leaves the directory's owner and access list as it
\* found them, but for the two failures that cannot; and while it runs, only the
\* one command holding the guard has changed them, in the ways AccessInv says
\* (shipping_installer.cpp:253-275, 300-308; directory_access.cpp:187-243).
THEOREM DirectoryLeftAsFound == OneAtATime /\ DeploySpec => []LeftAsFound
<1> SUFFICES ASSUME OneAtATime PROVE DeploySpec => []LeftAsFound
  OBVIOUS
<1>1. DeployInit => AccessInv
  BY CommandInit
     DEF DeployInit, Guard!AccessInit, CommandInv, AccessInv, OneCommand, GuardAt,
         StagingSteps, RemovalSteps
<1>2. AccessInv /\ [DeployNext]_deployVars => AccessInv'
  BY AccessInductive
<1>3. AccessInv => LeftAsFound
  BY DEF AccessInv, LeftAsFound, AsFound, GuardAt, DirectoryAt
<1>4. QED
  BY <1>1, <1>2, <1>3, PTL DEF DeploySpec

-----------------------------------------------------------------------------
(* The live runtime and the durable proxy.                                 *)

\* A step of the transaction keeps to its command.
LEMMA StepsKeepJob ==
    ASSUME NEW p \in Patchers, InstallStep(p) \/ UninstallStep(p)
    PROVE  pc[p] # "idle" /\ UNCHANGED job
BY DEF InstallStep, StageManaged, StageProxy, StageCamera, CommitManaged, CommitCamera,
       CommitProxy, Verify, Cleanup, RollbackCopy, RollbackReplace, UninstallStep,
       RestoreCopy, RestoreReplace, RemoveCamera, RemoveManaged

\* A command starts (shipping_installer.cpp:230-251, 290-298): an installation
\* that skips the transaction has the payload's proxy live.
LEMMA StartTied ==
    ASSUME StoreInv, NEW p \in Patchers, NEW folder \in FolderType, NEW own \in BOOLEAN,
           NEW running \in BOOLEAN,
           \/ StartInstall(p, folder, own, running)
           \/ StartUninstall(p, folder, own, running)
    PROVE  StoreAt(p)' /\ Tied'
<1> USE DEF StoreInv, CommandTypeOK
<1>1. /\ pc[p] = "idle"
      /\ UNCHANGED <<vars, storeVars>>
      /\ settled' \in {settled, "none"}
      /\ dpc'[p] \in {"acquire", "stage_patcher", "returned"}
      /\ dpc'[p] # "returned" => settled' = "none"
      /\ command'[p].kind # "none"
  BY DEF StartInstall, StartUninstall, MayStartCommand, StoreAt, Report, Proceed, Runs
<1>2. Tied'
  BY <1>1 DEF Tied, vars, files, storeVars
<1>3. dpc'[p] = "stage_patcher"
        => IsFile(command'[p].files.proxy) /\ current = command'[p].files.proxy
  <2> DEFINE plan == PlanFor(folder, running)
  <2>1. SUFFICES ASSUME dpc'[p] = "stage_patcher"
                 PROVE  IsFile(command'[p].files.proxy) /\ current = command'[p].files.proxy
    OBVIOUS
  <2>2. /\ StartInstall(p, folder, own, running)
        /\ Complete(folder) /\ plan = Plan("managed_healthy", {})
        /\ command'[p].files = folder
    BY <2>1 DEF StartInstall, StartUninstall, Report, Proceed, Runs
  <2>3. /\ folder.proxy \in Proxies \cup Foreign \cup {Absent}
        /\ CameraIn(folder) \in Cameras \cup {Absent}
        /\ durable.proxy \in Proxies \cup {Absent}
    BY CameraOfReleases DEF FolderType, CameraIn, IsFile
  <2>4. plan.layout \in AllowedLayouts /\ plan.operations = {}
    BY <2>2 DEF Plan, AllowedLayouts
  <2>5. PlanFits(plan, folder.proxy, CameraIn(folder))
    BY <2>3, <2>4, PlanSound DEF PlanFor, IInv, TypeInv
  <2>6. current = folder.proxy
    BY <2>4, <2>5 DEF PlanFits, CameraOps, PatchOps
  <2>7. QED
    BY <2>2, <2>6 DEF Complete
<1>4. StoreAt(p)'
  BY <1>1, <1>3 DEF StoreAt, StagingSteps, RemovalSteps, vars, files
<1>5. QED
  BY <1>2, <1>4

\* The transaction under the guard (shipping_installer.cpp:253-264, 300-307):
\* what it reports is what it has done.
LEMMA TransactionTied ==
    ASSUME StoreInv, NEW p \in Patchers,
           BeginTransaction(p) \/ TransactionStep(p) \/ TransactionDone(p)
    PROVE  StoreAt(p)' /\ Tied'
<1> USE DEF StoreInv, CommandTypeOK
<1>1. dpc[p] = "transaction" /\ settled = "none" /\ settled' = "none"
  BY DEF BeginTransaction, TransactionStep, TransactionDone, StoreAt
<1>2. Tied'
  BY <1>1 DEF Tied
<1>3. CASE BeginTransaction(p)
  <2>1. /\ job'[p].kind = command[p].kind
        /\ job'[p].proxy = command[p].files.proxy
    <3>1. job \in [Patchers -> Jobs]
      BY DEF IInv, TypeInv, TypeOK
    <3>2. command[p].kind \in {"install", "uninstall"}
      BY <1>1 DEF StoreAt
    <3>3. CASE command[p].kind = "install"
      BY <1>3, <3>1, <3>3 DEF BeginTransaction, BeginInstall, JobOf
    <3>4. CASE command[p].kind = "uninstall"
      BY <1>3, <3>1, <3>4 DEF BeginTransaction, BeginUninstall, JobOf
    <3>5. QED
      BY <3>2, <3>3, <3>4
  <2>2. QED
    BY <1>1, <1>2, <1>3, <2>1
       DEF BeginTransaction, commandVars, StoreAt, StagingSteps, RemovalSteps
<1>4. CASE TransactionStep(p)
  BY <1>1, <1>2, <1>4, StepsKeepJob
     DEF TransactionStep, commandVars, StoreAt, StagingSteps, RemovalSteps
<1>5. CASE TransactionDone(p)
  <2>1. /\ pc[p] = "returned" /\ pc'[p] = "idle"
        /\ UNCHANGED <<files, command>>
    <3>1. pc \in [Patchers -> Steps]
      BY DEF IInv, TypeInv, TypeOK
    <3>2. QED
      BY <1>5, <3>1 DEF TransactionDone, Exit, Forget, Goto
  <2>2. CASE outcome[p] = "ok"
    <3>1. dpc'[p] = IF command[p].kind = "install" THEN "secure" ELSE "restore"
      BY <1>5, <2>2 DEF TransactionDone, Proceed
    <3>2. InstallDone(p) /\ UninstallDone(p)
      BY DEF IInv, LocalInv
    <3>3. command[p].kind = "install"
            => IsFile(command[p].files.proxy) /\ current = command[p].files.proxy
      BY <2>1, <2>2, <3>2 DEF InstallDone, PostCommitHolds, SameHash, StoreAt
    <3>4. command[p].kind # "install" => LooksOriginal(current)
      BY <1>1, <2>1, <2>2, <3>2 DEF UninstallDone, StoreAt
    <3>5. QED
      BY <1>1, <1>2, <2>1, <3>1, <3>3, <3>4
         DEF StoreAt, StagingSteps, RemovalSteps, files
  <2>3. CASE outcome[p] # "ok"
    <3>1. dpc'[p] \in {"unwind", "returned"}
      BY <1>5, <2>3 DEF TransactionDone, Throw, Report, Proceed
    <3>2. QED
      BY <1>1, <1>2, <2>1, <3>1 DEF StoreAt, StagingSteps, RemovalSteps
  <2>4. QED
    BY <2>2, <2>3
<1>6. QED
  BY <1>3, <1>4, <1>5

\* The steps before and after it (shipping_installer.cpp:122-129, 183-197,
\* 264-287, 308-328).
LEMMA OthersTied ==
    ASSUME StoreInv, NEW p \in Patchers,
           \/ Acquire(p) \/ RestoreAccess(p) \/ Unwind(p)
           \/ InstallCommandStep(p) \/ UninstallCommandStep(p)
    PROVE  StoreAt(p)' /\ Tied'
<1> USE KindsDisjoint
    DEF StoreInv, CommandTypeOK, StoreAt, StagingSteps, RemovalSteps, Report, Proceed, vars,
        files, storeVars, Tied, LooksOriginal
<1>1. CASE Acquire(p)
  BY <1>1 DEF Acquire
<1>2. CASE RestoreAccess(p)
  BY <1>2 DEF RestoreAccess
<1>3. CASE Unwind(p)
  BY <1>3 DEF Unwind
<1>4. CASE Secure(p)
  <2>1. /\ dpc[p] = "secure"
        /\ dpc'[p] \in {"restore", "unwind", "returned"}
        /\ UNCHANGED <<vars, durable, settled, command>>
    BY <1>4 DEF Secure, Throw
  <2>2. QED
    BY <2>1
<1>5. CASE StageFiles(p)
  <2>1. settled' = "none"
    BY <1>5 DEF StageFiles, StageDurable
  <2>2. dpc[p] = "stage_patcher" \/ dpc[p] = "stage_watchdog" \/ dpc[p] = "stage_camera"
          => durable'.proxy = durable.proxy
    BY <1>5 DEF StageFiles, StageDurable, FolderType
  <2>3. dpc[p] = "stage_proxy" /\ dpc'[p] # "returned"
          => durable'.proxy = command[p].files.proxy
    BY <1>5 DEF StageFiles, StageDurable, FolderType
  <2>4. /\ dpc[p] \in StagingSteps
        /\ dpc'[p] \in {"stage_proxy", "stage_camera", "stage_watchdog", "task", "returned"}
        /\ dpc[p] = "stage_patcher" => dpc'[p] \in {"stage_proxy", "returned"}
        /\ UNCHANGED <<vars, command>>
    BY <1>5 DEF StageFiles, StageDurable
  <2>5. QED
    BY <2>1, <2>2, <2>3, <2>4
<1>6. CASE EnsureTask(p)
  BY <1>6 DEF EnsureTask
<1>7. CASE WriteState(p)
  BY <1>7 DEF WriteState
<1>8. CASE RemoveTask(p)
  BY <1>8 DEF RemoveTask
<1>9. CASE RemoveFiles(p)
  BY <1>9 DEF RemoveFiles, RemoveDurable
<1>10. CASE RemovePatcher(p)
  BY <1>10 DEF RemovePatcher
<1>11. QED
  BY <1>1, <1>2, <1>3, <1>4, <1>5, <1>6, <1>7, <1>8, <1>9, <1>10
     DEF InstallCommandStep, UninstallCommandStep

LEMMA CommandTied ==
    ASSUME StoreInv, NEW p \in Patchers, CommandStep(p)
    PROVE  StoreAt(p)' /\ Tied'
<1> USE DEF StoreInv, CommandTypeOK
<1>1. CASE \/ BeginTransaction(p) \/ TransactionStep(p) \/ TransactionDone(p)
           \/ Acquire(p) \/ RestoreAccess(p) \/ Unwind(p)
           \/ InstallCommandStep(p) \/ UninstallCommandStep(p)
  BY <1>1, TransactionTied, OthersTied
<1>2. CASE ForgetCommand(p) /\ (UNCHANGED vars \/ Forget(p)) /\ pc'[p] = "idle"
  <2>1. dpc'[p] = "idle" /\ UNCHANGED <<current, durable, settled>>
    BY <1>2 DEF ForgetCommand, Proceed, storeVars, Forget, vars, files
  <2>2. QED
    BY <1>2, <2>1 DEF Tied, StoreAt, StagingSteps, RemovalSteps
<1>3. CASE ExitCommand(p) \/ CrashCommand(p)
  <2>1. pc'[p] = "idle"
    <3>1. pc \in [Patchers -> Steps]
      BY DEF IInv, TypeInv, TypeOK
    <3>2. CASE UNCHANGED vars
      BY <1>3, <3>1, <3>2 DEF ExitCommand, CrashCommand, StoreAt, vars, Forget, Goto
    <3>3. CASE Forget(p)
      BY <3>1, <3>3 DEF Forget, Goto
    <3>4. QED
      BY <1>3, <3>2, <3>3 DEF ExitCommand, CrashCommand
  <2>2. QED
    BY <1>2, <1>3, <2>1 DEF ExitCommand, CrashCommand
<1>4. CASE \E folder \in ReleaseFolders \cup {durable}, own, running \in BOOLEAN :
              \/ StartInstall(p, folder, own, running)
              \/ StartUninstall(p, folder, own, running)
  BY <1>4, StartTied, ReleaseFolderTypes
<1>5. QED
  BY <1>1, <1>3, <1>4 DEF CommandStep

\* One step of a command, of the Store or of the system keeps the invariant.
LEMMA StoreInductive ==
    ASSUME OneAtATime, ~StaleLegacy, StoreInv, [DeployNext]_deployVars
    PROVE  StoreInv'
<1> USE DEF StoreInv, Tied
<1>1. CommandInv'
  BY CommandInductive DEF CommandInv
<1>2. ASSUME NEW p \in Patchers, CommandStep(p) PROVE StoreInv'
  <2>1. PatcherStep(p) \/ UNCHANGED vars
    BY <1>2, CommandMoves DEF CommandInv
  <2>2. IInv'
    BY <2>1, SafeInductive DEF Next
  <2>3. HasTarget'
    <3>1. CASE PatcherStep(p)
      BY <3>1, StepMoves, KindsDisjoint DEF HasTarget, LooksOriginal
    <3>2. CASE UNCHANGED vars
      BY <3>2 DEF HasTarget, vars, files
    <3>3. QED
      BY <2>1, <3>1, <3>2
  <2>4. \A q \in Patchers \ {p} : dpc[q] = "idle" /\ dpc'[q] = "idle"
    BY <1>2, CommandAlone DEF CommandInv
  <2>5. \A q \in Patchers \ {p} : pc'[q] = "idle"
    <3>1. \A q \in Patchers \ {p} : pc[q] = "idle"
      BY <2>4 DEF StoreAt
    <3>2. CASE PatcherStep(p)
      BY <3>1, <3>2, ForgetTypes, InstallTypes, UninstallTypes, BeginTypes
         DEF PatcherStep, Exit, Crash, Frame, IInv, TypeInv
    <3>3. QED
      BY <2>1, <3>1, <3>2 DEF vars
  <2>6. \A q \in Patchers \ {p} : StoreAt(q)'
    BY <2>4, <2>5 DEF StoreAt, StagingSteps, RemovalSteps
  <2>7. StoreAt(p)' /\ Tied'
    BY <1>2, CommandTied
  <2>8. OneCommand'
    BY <2>4 DEF OneCommand
  <2>9. QED
    BY <1>1, <2>2, <2>3, <2>6, <2>7, <2>8 DEF CommandInv, Tied
<1>3. ASSUME NEW v \in Originals, ServicePackage(v) \/ RedeployPackage(v) PROVE StoreInv'
  <2>1. /\ StoreService(v) \/ StoreRedeploy(v)
        /\ UNCHANGED <<dpc, command, settled, durable>>
        /\ \A q \in Patchers : dpc[q] = "idle"
    BY <1>3 DEF ServicePackage, RedeployPackage, commandVars, NoCommandRuns
  <2>2. IInv'
    BY <2>1, SafeInductive DEF Next, Environment
  <2>3. current' = v /\ UNCHANGED pc
    BY <2>1 DEF StoreService, StoreRedeploy, patcherVars
  <2>4. QED
    BY <1>1, <2>1, <2>2, <2>3, KindsDisjoint
       DEF CommandInv, OneCommand, StoreAt, StagingSteps, RemovalSteps, HasTarget
<1>4. CASE Reboot
  <2>1. /\ UNCHANGED <<vars, dpc, command, settled>>
        /\ \A q \in Patchers : dpc[q] = "idle"
        /\ durable'.proxy = durable.proxy
    BY <1>4 DEF Reboot, commandVars, NoCommandRuns, CommandTypeOK, FolderType
  <2>2. IInv'
    BY <2>1, SafeInductive
  <2>3. QED
    BY <1>1, <2>1, <2>2
       DEF CommandInv, OneCommand, StoreAt, StagingSteps, RemovalSteps, HasTarget, vars,
           files
<1>5. CASE UNCHANGED deployVars
  <2>1. IInv'
    BY <1>5, SafeInductive DEF deployVars
  <2>2. QED
    BY <1>1, <1>5, <2>1
       DEF deployVars, CommandInv, OneCommand, StoreAt, StagingSteps, RemovalSteps,
           HasTarget, vars, files, storeVars, commandVars
<1>6. QED
  BY <1>2, <1>3, <1>4, <1>5 DEF DeployNext

LEMMA StoreInit == DeployInit => StoreInv
<1> SUFFICES ASSUME DeployInit PROVE StoreInv
  OBVIOUS
<1>1. Init /\ IInv
  BY SafeInit DEF DeployInit
<1>2. CommandInv
  BY CommandInit
<1>3. HasTarget
  BY <1>1, KindsDisjoint DEF Init, HasTarget
<1>4. \A p \in Patchers : dpc[p] = "idle" /\ pc[p] = "idle"
  BY DEF DeployInit, Init
<1>5. QED
  BY <1>1, <1>2, <1>3, <1>4
     DEF StoreInv, CommandInv, OneCommand, StoreAt, StagingSteps, RemovalSteps, Tied,
         DeployInit

LEMMA Stored == OneAtATime /\ ~StaleLegacy /\ DeploySpec => []StoreInv
<1> SUFFICES ASSUME OneAtATime, ~StaleLegacy PROVE DeploySpec => []StoreInv
  OBVIOUS
<1>1. StoreInv /\ [DeployNext]_deployVars => StoreInv'
  BY StoreInductive
<1>2. QED
  BY <1>1, StoreInit, PTL DEF DeploySpec

\* What a command reported as done can be undone: a live proxy is the durable
\* one, by which the next uninstallation knows it, over a stock runtime, whatever
\* failed, was killed or was updated before
\* (shipping_installer.cpp:122-129, 277, 292-302).
THEOREM CommandsReversible == OneAtATime /\ ~StaleLegacy /\ DeploySpec => []Reversible
<1> SUFFICES ASSUME OneAtATime, ~StaleLegacy PROVE DeploySpec => []Reversible
  OBVIOUS
<1>1. StoreInv => Reversible
  BY KindsDisjoint
     DEF StoreInv, Tied, Reversible, UninstallStart, HasTarget, IsFile, LooksOriginal, SameHash,
         Runtimes
<1>2. QED
  BY <1>1, Stored, PTL

\* The durable proxy is given up only when no proxy is live
\* (shipping_installer.cpp:300-318).
THEOREM DurableProxyOutlives ==
    OneAtATime /\ ~StaleLegacy /\ DeploySpec => DurableOutlives
<1> SUFFICES ASSUME OneAtATime, ~StaleLegacy PROVE DeploySpec => DurableOutlives
  OBVIOUS
<1> DEFINE GivenUp == IsFile(durable.proxy) /\ ~IsFile(durable'.proxy)
<1>1. ASSUME StoreInv, [DeployNext]_deployVars, GivenUp PROVE current \notin Proxies
  <2>1. durable' # durable
    BY <1>1
  <2>2. CASE Reboot
    BY <1>1, <2>2 DEF Reboot, StoreInv, CommandTypeOK, FolderType
  <2>3. ASSUME NEW p \in Patchers, CommandStep(p) PROVE current \notin Proxies
    <3>1. StageFiles(p) \/ RemoveFiles(p) \/ RemovePatcher(p)
      BY <2>1, <2>3
         DEF CommandStep, StartInstall, StartUninstall, Acquire, BeginTransaction,
             TransactionStep, TransactionDone, RestoreAccess, Unwind, InstallCommandStep,
             Secure, EnsureTask, WriteState, UninstallCommandStep, RemoveTask, ExitCommand,
             CrashCommand, ForgetCommand, storeVars
    <3>2. CASE StageFiles(p)
      BY <1>1, <3>2
         DEF StageFiles, StageDurable, StoreInv, StoreAt, StagingSteps, CommandTypeOK,
             FolderType
    <3>3. CASE RemoveFiles(p) \/ RemovePatcher(p)
      <4>1. LooksOriginal(current)
        BY <1>1, <3>3
           DEF RemoveFiles, RemoveDurable, RemovePatcher, StoreInv, StoreAt, RemovalSteps
      <4>2. QED
        BY <4>1, KindsDisjoint DEF LooksOriginal
    <3>4. QED
      BY <3>1, <3>2, <3>3
  <2>4. QED
    BY <1>1, <2>1, <2>2, <2>3
       DEF DeployNext, ServicePackage, RedeployPackage, deployVars, storeVars
<1>2. StoreInv /\ [DeployNext]_deployVars
        => [GivenUp => current \notin Proxies]_deployVars
  BY <1>1
<1>3. QED
  BY <1>2, Stored, PTL DEF DeploySpec, DurableOutlives

-----------------------------------------------------------------------------
(* Repairs.                                                                *)

LEMMA LegacyKept ==
    ASSUME NEW p \in Patchers, PatcherStep(p)
    PROVE  UNCHANGED legacy
BY DEF PatcherStep, Begin, BeginInstall, BeginUninstall, InstallStep, StageManaged,
       StageProxy, StageCamera, CommitManaged, CommitCamera, CommitProxy, Verify, Cleanup,
       RollbackCopy, RollbackReplace, ReplaceFails, UninstallStep, RestoreCopy,
       RestoreReplace, RemoveCamera, RemoveManaged, Exit, Crash, Forget, files

\* A command's step stages what it runs from, and reports an installation when
\* that is complete (shipping_installer.cpp:122-129, 156-167, 277-287).
LEMMA CommandReady ==
    ASSUME RepairInv, NEW p \in Patchers, CommandStep(p)
    PROVE  StagedAt(p)' /\ Ready'
<1> USE DEF RepairInv, StoreInv, CommandTypeOK, StagedAt, Ready, StagingSteps, Proceed,
            Report, storeVars
<1>1. ASSUME NEW folder, NEW own, NEW running,
             \/ StartInstall(p, folder, own, running)
             \/ StartUninstall(p, folder, own, running)
      PROVE  StagedAt(p)' /\ Ready'
  <2>1. /\ UNCHANGED <<vars, storeVars>>
        /\ settled' \in {settled, "none"}
        /\ dpc'[p] \in {"acquire", "stage_patcher", "returned"}
    BY <1>1 DEF StartInstall, StartUninstall
  <2>2. Ready'
    BY <2>1 DEF vars, files
  <2>3. CASE StartInstall(p, folder, own, running)
    <3>1. command'[p].kind = "install" /\ command'[p].files = folder
      BY <2>3 DEF StartInstall, Runs
    <3>2. dpc'[p] # "returned" => Complete(folder)
      BY <2>3 DEF StartInstall
    <3>3. QED
      BY <2>1, <2>2, <3>1, <3>2
  <2>4. CASE StartUninstall(p, folder, own, running)
    <3>1. dpc'[p] # "stage_patcher" /\ command'[p].kind = "uninstall"
      BY <2>4 DEF StartUninstall, Runs
    <3>2. QED
      BY <2>1, <2>2, <3>1
  <2>5. QED
    BY <1>1, <2>3, <2>4
<1>2. ASSUME dpc[p] \notin {"idle", "returned"} PROVE settled = "none"
  BY <1>2 DEF StoreAt
<1>3. CASE Acquire(p) \/ BeginTransaction(p) \/ TransactionStep(p)
  BY <1>2, <1>3 DEF Acquire, BeginTransaction, TransactionStep, commandVars
<1>4. CASE TransactionDone(p)
  <2>1. dpc'[p] \in {"secure", "restore", "unwind", "returned"}
        /\ (dpc'[p] = "secure" => command[p].kind = "install")
    BY <1>4 DEF TransactionDone, Throw
  <2>2. QED
    BY <1>2, <1>4, <2>1 DEF TransactionDone
<1>5. CASE RestoreAccess(p)
  BY <1>2, <1>5 DEF RestoreAccess
<1>6. CASE Unwind(p)
  BY <1>2, <1>6 DEF Unwind
<1>7. CASE Secure(p)
  <2>1. /\ dpc[p] = "secure"
        /\ dpc'[p] \in {"restore", "unwind", "returned"}
        /\ UNCHANGED <<settled, command>>
    BY <1>7 DEF Secure, Throw
  <2>2. QED
    BY <1>2, <2>1
<1>8. CASE StageFiles(p)
  <2>1. /\ dpc[p] \in StagingSteps /\ UNCHANGED <<settled, command>>
        /\ dpc'[p] \in {"stage_proxy", "stage_camera", "stage_watchdog", "task", "returned"}
        /\ dpc'[p] = "stage_watchdog" => durable'.camera = command[p].files.camera
        /\ dpc'[p] = "task" => /\ dpc[p] = "stage_watchdog"
                               /\ durable'.camera = durable.camera
                               /\ durable'.watchdog = command[p].files.watchdog
    BY <1>8 DEF StageFiles, StageDurable, FolderType
  <2>2. dpc'[p] = "task" => command[p].files.watchdog
    BY <2>1 DEF Complete
  <2>3. QED
    BY <1>2, <2>1, <2>2
<1>9. CASE EnsureTask(p)
  BY <1>2, <1>9 DEF EnsureTask
<1>10. CASE WriteState(p)
  <2>1. /\ dpc[p] = "manifest" /\ dpc'[p] = "returned"
        /\ UNCHANGED <<current, task, durable, command>>
    BY <1>10 DEF WriteState, vars, files
  <2>2. task /\ Complete(durable) /\ current \in Originals \cup Proxies
    <3>1. /\ IsFile(command[p].files.proxy) /\ current = command[p].files.proxy
          /\ durable.proxy = command[p].files.proxy
      BY <2>1 DEF StoreAt
    <3>2. task /\ durable.watchdog /\ durable.camera = command[p].files.camera
          /\ IsFile(command[p].files.camera)
      BY <2>1 DEF Complete
    <3>3. durable.proxy \in Proxies \cup {Absent}
      BY DEF FolderType
    <3>4. QED
      BY <3>1, <3>2, <3>3 DEF Complete, IsFile
  <2>3. QED
    BY <2>1, <2>2
<1>11. CASE UninstallCommandStep(p)
  <2>1. /\ dpc[p] \in RemovalSteps /\ dpc'[p] \in RemovalSteps \cup {"returned"}
        /\ settled' \in {settled, "uninstall"}
    BY <1>11 DEF UninstallCommandStep, RemoveTask, RemoveFiles, RemoveDurable,
                 RemovePatcher, RemovalSteps
  <2>2. settled' # "install"
    BY <1>2, <2>1 DEF RemovalSteps
  <2>3. command' = command
    BY <1>11 DEF UninstallCommandStep, RemoveTask, RemoveFiles, RemoveDurable,
                 RemovePatcher
  <2>4. QED
    BY <2>1, <2>2, <2>3 DEF RemovalSteps
<1>12. CASE ExitCommand(p) \/ CrashCommand(p)
  <2>1. dpc'[p] = "idle" /\ command'[p].kind = "none"
        /\ UNCHANGED <<task, durable, settled>>
    BY <1>12 DEF ExitCommand, CrashCommand, ForgetCommand, NoCommand
  <2>2. settled = "install" => UNCHANGED current
    BY <1>2, <1>12 DEF ExitCommand, CrashCommand, vars, files
  <2>3. QED
    BY <2>1, <2>2
<1>13. QED
  BY <1>1, <1>3, <1>4, <1>5, <1>6, <1>7, <1>8, <1>9, <1>10, <1>11, <1>12
     DEF CommandStep, InstallCommandStep

LEMMA RepairInductive ==
    ASSUME OneAtATime, ~StaleLegacy, RepairInv, [DeployNext]_deployVars
    PROVE  RepairInv'
<1> USE DEF RepairInv, Ready
<1>1. StoreInv'
  BY StoreInductive
<1>2. ASSUME NEW p \in Patchers, CommandStep(p) PROVE RepairInv'
  <2>1. {managed', legacy'} \subseteq Originals \cup {Absent}
    <3>1. PatcherStep(p) \/ UNCHANGED vars
      BY <1>2, CommandMoves DEF StoreInv, CommandInv
    <3>2. CASE PatcherStep(p)
      BY <3>2, StepMoves, LegacyKept DEF StoreInv, LooksOriginal
    <3>3. QED
      BY <3>1, <3>2 DEF vars, files
  <2>2. \A q \in Patchers \ {p} : dpc'[q] = "idle"
    BY <1>2, CommandAlone DEF StoreInv, CommandInv
  <2>3. \A q \in Patchers \ {p} : StagedAt(q)'
    BY <2>2 DEF StagedAt, StagingSteps
  <2>4. QED
    BY <1>1, <1>2, <2>1, <2>3, CommandReady DEF Ready
<1>3. ASSUME NoCommandRuns, UNCHANGED dpc PROVE \A p \in Patchers : StagedAt(p)'
  BY <1>3 DEF NoCommandRuns, StagedAt, StagingSteps
<1>4. ASSUME NEW v \in Originals, ServicePackage(v) \/ RedeployPackage(v) PROVE RepairInv'
  BY <1>1, <1>3, <1>4
     DEF ServicePackage, RedeployPackage, StoreService, StoreRedeploy, commandVars
<1>5. CASE Reboot
  <2>1. Complete(durable) => Complete(durable')
    BY <1>5 DEF Reboot, Complete, StoreInv, CommandTypeOK, FolderType
  <2>2. QED
    BY <1>1, <1>3, <1>5, <2>1 DEF Reboot, commandVars, vars, files
<1>6. CASE UNCHANGED deployVars
  BY <1>1, <1>6 DEF deployVars, vars, files, storeVars, commandVars, StagedAt
<1>7. QED
  BY <1>2, <1>4, <1>5, <1>6 DEF DeployNext

LEMMA RepairInit == DeployInit => RepairInv
<1> SUFFICES ASSUME DeployInit PROVE RepairInv
  OBVIOUS
<1>1. StoreInv
  BY StoreInit
<1>2. {managed, legacy} \subseteq Originals \cup {Absent}
  BY DEF DeployInit, Init
<1>3. QED
  BY <1>1, <1>2 DEF RepairInv, Ready, StagedAt, StagingSteps, DeployInit

\* From what the invariant says of the files, the repair's plan is one of the
\* allowed ones (direct_plan.cpp:5-92).
LEMMA RepairPlanned ==
    ASSUME RepairInv, settled = "install"
    PROVE  PlanFor(durable, FALSE).layout \in AllowedLayouts
<1> DEFINE f == InspectFacts(FALSE, durable.proxy, CameraIn(durable), durable.proxy)
<1>1. /\ durable.proxy \in Proxies /\ CameraIn(durable) \in Cameras
      /\ CameraIn(durable) # Absent /\ durable.proxy # Absent
  BY CameraOfReleases, KindsDisjoint
     DEF RepairInv, Ready, StoreInv, CommandTypeOK, FolderType, Complete, CameraIn, IsFile, Runtimes
<1>2. current = durable.proxy \/ current \in Originals
  BY DEF RepairInv, Ready, StoreInv, Tied
<1>3. current # Absent
  BY <1>1, <1>2, KindsDisjoint DEF Runtimes
<1>4. /\ managed # Absent => managed \in Originals
      /\ legacy # Absent => legacy \in Originals
      /\ current = durable.proxy => managed # Absent
  BY <1>1, KindsDisjoint DEF RepairInv, StoreInv, HasTarget, Runtimes
<1>5. /\ ~f.minecraft_running /\ f.proxy_payload_exists /\ f.camera_payload_exists
      /\ f.proxy_payload_looks_forwarder /\ f.current_runtime_exists
      /\ f.current_runtime_is_proxy_payload = (current = durable.proxy)
      /\ f.current_runtime_looks_original = (current \in Originals)
      /\ f.managed_original_exists = (managed # Absent)
      /\ f.managed_original_looks_original = (managed \in Originals)
      /\ f.legacy_original_exists = (legacy # Absent)
      /\ f.legacy_original_looks_original = (legacy \in Originals)
  BY <1>1, <1>3 DEF InspectFacts, IsFile, SameHash, LooksOriginal, LooksForwarder
<1> DEFINE Allowed(plan) == plan.layout \in AllowedLayouts
<1> USE DEF Plan, AllowedLayouts
<1>6. managed # Absent => Allowed(ManagedPlan(f))
  BY <1>2, <1>4, <1>5 DEF ManagedPlan
<1>7. legacy # Absent => Allowed(LegacyPlan(f))
  BY <1>4, <1>5 DEF LegacyPlan
<1>8. managed = Absent => Allowed(StorePlan(f))
  <2>1. managed = Absent => current # durable.proxy
    BY <1>4
  <2>2. QED
    BY <1>2, <1>5, <2>1 DEF StorePlan
<1>9. PlanFor(durable, FALSE) = MakeDirectInstallPlan(f)
  BY DEF PlanFor
<1> HIDE DEF f
<1>10. QED
  BY <1>5, <1>6, <1>7, <1>8, <1>9 DEF MakeDirectInstallPlan

\* After a reported installation the task is registered and the durable files
\* can repair it, whatever the Store has made of the package since
\* (shipping_installer.cpp:277-279).
THEOREM InstallationRepairable ==
    OneAtATime /\ ~StaleLegacy /\ DeploySpec => []Repairable
<1> SUFFICES ASSUME OneAtATime, ~StaleLegacy PROVE DeploySpec => []Repairable
  OBVIOUS
<1>1. RepairInv /\ [DeployNext]_deployVars => RepairInv'
  BY RepairInductive
<1>2. RepairInv => Repairable
  BY RepairPlanned DEF RepairInv, Ready, Repairable
<1>3. QED
  BY <1>1, <1>2, RepairInit, PTL DEF DeploySpec

=============================================================================

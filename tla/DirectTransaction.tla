-------------------------- MODULE DirectTransaction --------------------------
(***************************************************************************)
(* install_direct_patch and uninstall_direct_patch                         *)
(* (installer/direct_transaction.cpp) as the file operations they are made *)
(* of: every copy, replacement and removal is a step that can fail and     *)
(* after which the patcher can be killed.  The four files of the package   *)
(* directory are variables; a file is the build it holds.  Two files have   *)
(* equal SHA-256 sums when they hold the same build, and only a build of   *)
(* Originals passes looks_original().                                      *)
(*                                                                         *)
(* Around the patchers stand the Store, which services the package, and    *)
(* whatever else deletes or overwrites files.                              *)
(***************************************************************************)
EXTENDS DirectPlan

CONSTANTS
    Patchers,     \* patcher processes
    Originals,    \* stock builds of vcruntime140_1.dll the Store ships
    Proxies,      \* forwarding builds this project ships
    Foreign,      \* any other file under a runtime's name
    Cameras,      \* builds of MCFIXCameraPatch.dll
    Absent,       \* no such file
    Torn,         \* a copy that was cut short
    OneAtATime,   \* no two patchers run at once
    StaleLegacy,  \* the Store services a directory that keeps a legacy original
    Tampering     \* others delete or overwrite files

Runtimes == Originals \cup Proxies \cup Foreign

ASSUME KindsDisjoint ==
    /\ Originals \cap Proxies = {}
    /\ Originals \cap Foreign = {}
    /\ Proxies \cap Foreign = {}
    /\ Absent \notin Runtimes \cup Cameras
    /\ Torn \notin Runtimes \cup Cameras \cup {Absent}

ASSUME FlagsBoolean ==
    /\ OneAtATime \in BOOLEAN
    /\ StaleLegacy \in BOOLEAN
    /\ Tampering \in BOOLEAN

VARIABLES
    current,  \* vcruntime140_1.dll, the runtime the game loads
    managed,  \* vcruntime140_1_mcfix_original.dll
    legacy,   \* vcruntime140_1_orig.dll, an earlier tool's copy
    installedCamera, \* MCFIXCameraPatch.dll
    genuine,  \* history: the stock build last delivered here, Absent once
              \* others have destroyed its last copy
    pc,       \* what each patcher does next
    job,      \* its command, payloads and plan
    staged,   \* its temporaries: managed_temp, proxy_temp, camera_temp and
              \* the rollback or restore copy
    committed,\* proxy_committed
    outcome   \* what it reported

files == <<current, managed, legacy, installedCamera>>
vars == <<files, genuine, pc, job, staged, committed, outcome>>
patcherVars == <<pc, job, staged, committed, outcome>>

Slots == {"managed", "proxy", "camera", "back"}
NoTemps == [s \in Slots |-> Absent]

JobOf(kind, proxy, camera, plan) ==
    [kind |-> kind, proxy |-> proxy, camera |-> camera,
     layout |-> plan.layout, operations |-> plan.operations]

NoJob == JobOf("none", Absent, Absent, Refuse("unknown_runtime"))

InstallSteps ==
    {"stage_managed", "stage_proxy", "stage_camera",
     "commit_managed", "commit_camera", "commit_proxy", "verify",
     "cleanup", "rollback_copy", "rollback_replace"}

UninstallSteps ==
    {"restore_copy", "restore_replace", "remove_camera", "remove_managed"}

Steps == InstallSteps \cup UninstallSteps \cup {"idle", "returned"}

Jobs == [kind : {"none", "install", "uninstall"},
         proxy : Runtimes \cup {Absent},
         camera : Cameras \cup {Absent},
         layout : Layouts,
         operations : SUBSET DirectOperations]

TypeOK ==
    /\ current \in Runtimes \cup {Absent}
    /\ managed \in Runtimes \cup {Absent}
    /\ legacy \in Runtimes \cup {Absent}
    /\ installedCamera \in Cameras \cup {Absent}
    /\ genuine \in Originals \cup {Absent}
    /\ pc \in [Patchers -> Steps]
    /\ job \in [Patchers -> Jobs]
    /\ staged \in [Patchers -> [Slots -> Runtimes \cup Cameras \cup {Absent, Torn}]]
    /\ committed \in [Patchers -> BOOLEAN]
    /\ outcome \in [Patchers -> {"none", "ok", "refused", "failed"}]

\* A directory as the Store leaves it, or one where an earlier tool put its
\* own proxy over a runtime it kept as vcruntime140_1_orig.dll.
Init ==
    /\ \E v \in Originals :
        /\ genuine = v
        /\ \/ current = v /\ legacy = Absent
           \/ current \in Foreign /\ legacy = v
    /\ managed = Absent
    /\ installedCamera = Absent
    /\ pc = [p \in Patchers |-> "idle"]
    /\ job = [p \in Patchers |-> NoJob]
    /\ staged = [p \in Patchers |-> NoTemps]
    /\ committed = [p \in Patchers |-> FALSE]
    /\ outcome = [p \in Patchers |-> "none"]

-----------------------------------------------------------------------------
(* What the code reads.                                                    *)

LooksOriginal(c) == c \in Originals
LooksForwarder(c) == c \in Proxies
IsFile(c) == c # Absent
SameHash(a, b) == IsFile(a) /\ a = b

InspectFacts(running, proxy, camera, known) ==
    [minecraft_running |-> running,
     proxy_payload_exists |-> IsFile(proxy),
     proxy_payload_looks_forwarder |-> LooksForwarder(proxy),
     camera_payload_exists |-> IsFile(camera),
     current_runtime_exists |-> IsFile(current),
     current_runtime_is_proxy_payload |-> SameHash(current, proxy),
     current_runtime_is_known_managed_proxy |-> SameHash(current, known),
     current_runtime_looks_original |-> LooksOriginal(current),
     managed_original_exists |-> IsFile(managed),
     managed_original_looks_original |-> LooksOriginal(managed),
     legacy_original_exists |-> IsFile(legacy),
     legacy_original_looks_original |-> LooksOriginal(legacy),
     installed_camera_exists |-> IsFile(installedCamera),
     installed_camera_matches_payload |-> SameHash(installedCamera, camera)]

PreservesCurrent(p) == "preserve_current_runtime" \in job[p].operations
PreservesLegacy(p) == "preserve_legacy_original" \in job[p].operations
Preserves(p) == PreservesCurrent(p) \/ PreservesLegacy(p)
InstallsProxy(p) == "install_proxy" \in job[p].operations
InstallsCamera(p) == "install_camera_patch" \in job[p].operations

OriginalSource(p) == IF PreservesCurrent(p) THEN current ELSE legacy

-----------------------------------------------------------------------------
(* Steps common to both commands.                                          *)

Goto(p, step) == pc' = [pc EXCEPT ![p] = step]

Stage(p, slot, content) == staged' = [staged EXCEPT ![p][slot] = content]

\* Mutant: a copy cut short is taken for a copy.
CopyUnverified(p, slot, source, next, onError) ==
    \/ /\ IsFile(source)
       /\ \E copy \in {source, Torn} : Stage(p, slot, copy)
       /\ Goto(p, next)
    \/ /\ Stage(p, slot, Absent)
       /\ Goto(p, onError)

\* copy_verified: the copy equals its source, or it throws and leaves nothing
\* or a part of it.
CopyVerified(p, slot, source, next, onError) ==
    \/ /\ IsFile(source)
       /\ Stage(p, slot, source)
       /\ Goto(p, next)
    \/ /\ \E rest \in {Absent, Torn} : Stage(p, slot, rest)
       /\ Goto(p, onError)

\* The command returns; temporaries nobody removed are still there.
Return(p, result) ==
    /\ Goto(p, "returned")
    /\ outcome' = [outcome EXCEPT ![p] = result]

\* A patcher may start when no other runs, or at any time.
MayStart(p) ==
    /\ pc[p] = "idle"
    /\ OneAtATime => \A q \in Patchers : pc[q] = "idle"

\* The process is gone; a later one has another identifier, so it neither uses
\* nor removes the temporaries this one leaves.
Forget(p) ==
    /\ Goto(p, "idle")
    /\ job' = [job EXCEPT ![p] = NoJob]
    /\ staged' = [staged EXCEPT ![p] = NoTemps]
    /\ committed' = [committed EXCEPT ![p] = FALSE]
    /\ outcome' = [outcome EXCEPT ![p] = "none"]
    /\ UNCHANGED <<files, genuine>>

Exit(p) ==
    /\ pc[p] = "returned"
    /\ Forget(p)

\* Power loss, a kill, the end of the session: at any step.
Crash(p) ==
    /\ pc[p] \notin {"idle", "returned"}
    /\ Forget(p)

-----------------------------------------------------------------------------
(* install_direct_patch.                                                   *)

BeginInstall(p, running, proxy, camera, known) ==
    LET plan == MakeDirectInstallPlan(InspectFacts(running, proxy, camera, known))
    IN
    /\ MayStart(p)
    /\ job' = [job EXCEPT ![p] = JobOf("install", proxy, camera, plan)]
    /\ IF plan.layout \notin AllowedLayouts THEN Return(p, "refused")
       ELSE IF plan.operations = {} THEN Return(p, "ok")
       ELSE Goto(p, "stage_managed") /\ UNCHANGED outcome
    /\ UNCHANGED <<files, genuine, staged, committed>>

\* Lines 150-156: the copy that will be the managed original must itself pass
\* the contract of an original.
StageManaged(p) ==
    /\ pc[p] = "stage_managed"
    /\ IF Preserves(p)
       THEN CopyVerified(p, "managed", OriginalSource(p),
                IF LooksOriginal(OriginalSource(p)) THEN "stage_proxy" ELSE "cleanup",
                "cleanup")
       ELSE Goto(p, "stage_proxy") /\ UNCHANGED staged
    /\ UNCHANGED <<files, genuine, job, committed, outcome>>

StageProxy(p) ==
    /\ pc[p] = "stage_proxy"
    /\ IF InstallsProxy(p)
       THEN CopyVerified(p, "proxy", job[p].proxy, "stage_camera", "cleanup")
       ELSE Goto(p, "stage_camera") /\ UNCHANGED staged
    /\ UNCHANGED <<files, genuine, job, committed, outcome>>

\* Mutant: the proxy is committed before the managed original.
StageCameraProxyFirst(p) ==
    /\ pc[p] = "stage_camera"
    /\ InstallsCamera(p)
    /\ CopyVerified(p, "camera", job[p].camera, "commit_proxy", "cleanup")
    /\ UNCHANGED <<files, genuine, job, committed, outcome>>

\* Every plan that has operations installs the camera patch.
StageCamera(p) ==
    /\ pc[p] = "stage_camera"
    /\ InstallsCamera(p)
    /\ CopyVerified(p, "camera", job[p].camera, "commit_managed", "cleanup")
    /\ UNCHANGED <<files, genuine, job, committed, outcome>>

\* replace_with either renames the temporary over its target or throws.
ReplaceFails(p, onError) ==
    /\ Goto(p, onError)
    /\ UNCHANGED <<files, staged, committed>>

CommitManaged(p) ==
    /\ pc[p] = "commit_managed"
    /\ \/ /\ Preserves(p)
          /\ managed' = staged[p]["managed"]
          /\ UNCHANGED <<current, legacy, installedCamera>>
          /\ Stage(p, "managed", Absent)
          /\ Goto(p, "commit_camera")
          /\ UNCHANGED committed
       \/ /\ ~Preserves(p)
          /\ Goto(p, "commit_camera")
          /\ UNCHANGED <<files, staged, committed>>
       \/ Preserves(p) /\ ReplaceFails(p, "cleanup")
    /\ UNCHANGED <<genuine, job, outcome>>

CommitCamera(p) ==
    /\ pc[p] = "commit_camera"
    /\ InstallsCamera(p)
    /\ \/ /\ installedCamera' = staged[p]["camera"]
          /\ UNCHANGED <<current, managed, legacy>>
          /\ Stage(p, "camera", Absent)
          /\ Goto(p, "commit_proxy")
          /\ UNCHANGED committed
       \/ ReplaceFails(p, "cleanup")
    /\ UNCHANGED <<genuine, job, outcome>>

CommitProxy(p) ==
    /\ pc[p] = "commit_proxy"
    /\ \/ /\ InstallsProxy(p)
          /\ current' = staged[p]["proxy"]
          /\ UNCHANGED <<managed, legacy, installedCamera>>
          /\ Stage(p, "proxy", Absent)
          /\ committed' = [committed EXCEPT ![p] = TRUE]
          /\ Goto(p, "verify")
       \/ /\ ~InstallsProxy(p)
          /\ Goto(p, "verify")
          /\ UNCHANGED <<files, staged, committed>>
       \/ InstallsProxy(p) /\ ReplaceFails(p, "cleanup")
    /\ UNCHANGED <<genuine, job, outcome>>

PostCommitHolds(p) ==
    /\ SameHash(current, job[p].proxy)
    /\ SameHash(installedCamera, job[p].camera)
    /\ LooksOriginal(managed)

\* Reading the files back can itself fail.
Verify(p) ==
    /\ pc[p] = "verify"
    /\ \/ PostCommitHolds(p) /\ Return(p, "ok")
       \/ Goto(p, "cleanup") /\ UNCHANGED outcome
    /\ UNCHANGED <<files, genuine, job, staged, committed>>

\* Mutant: rolled back although no proxy was committed.
CleanupAlways(p) ==
    /\ pc[p] = "cleanup"
    /\ \E left \in {staged[p], NoTemps} : staged' = [staged EXCEPT ![p] = left]
    /\ IF LooksOriginal(managed)
       THEN Goto(p, "rollback_copy") /\ UNCHANGED outcome
       ELSE Return(p, "failed")
    /\ UNCHANGED <<files, genuine, job, committed>>

\* The catch handler: remove_if_present ignores a removal that fails.
Cleanup(p) ==
    /\ pc[p] = "cleanup"
    /\ \E left \in {staged[p], NoTemps} : staged' = [staged EXCEPT ![p] = left]
    /\ IF committed[p] /\ LooksOriginal(managed)
       THEN Goto(p, "rollback_copy") /\ UNCHANGED outcome
       ELSE Return(p, "failed")
    /\ UNCHANGED <<files, genuine, job, committed>>

\* The rollback swallows its own failures.
RollbackCopy(p) ==
    /\ pc[p] = "rollback_copy"
    /\ CopyVerified(p, "back", managed, "rollback_replace", "returned")
    /\ outcome' = [outcome EXCEPT ![p] = "failed"]
    /\ UNCHANGED <<files, genuine, job, committed>>

RollbackReplace(p) ==
    /\ pc[p] = "rollback_replace"
    /\ \/ /\ current' = staged[p]["back"]
          /\ UNCHANGED <<managed, legacy, installedCamera>>
          /\ Stage(p, "back", Absent)
          /\ Goto(p, "returned")
          /\ UNCHANGED committed
       \/ ReplaceFails(p, "returned")
    /\ UNCHANGED <<genuine, job, outcome>>

-----------------------------------------------------------------------------
(* uninstall_direct_patch.                                                 *)

\* Mutant: a runtime that is not the payload is left as it is.
UninstallStartUnchecked(proxy) ==
    IF ~IsFile(managed)
    THEN IF LooksOriginal(current) THEN "clean" ELSE "refused"
    ELSE IF ~LooksOriginal(managed) THEN "refused"
    ELSE IF SameHash(current, proxy) THEN "restore" ELSE "discard"

\* Lines 207-237: what is checked before anything is written.
UninstallStart(proxy) ==
    IF ~IsFile(managed)
    THEN IF LooksOriginal(current) THEN "clean" ELSE "refused"
    ELSE IF ~LooksOriginal(managed) THEN "refused"
    ELSE IF SameHash(current, proxy) THEN "restore"
    ELSE IF LooksOriginal(current) THEN "discard" ELSE "refused"

BeginUninstall(p, running, proxy) ==
    LET start == IF running THEN "refused" ELSE UninstallStart(proxy) IN
    /\ MayStart(p)
    /\ job' = [job EXCEPT ![p] = JobOf("uninstall", proxy, Absent, Refuse("unknown_runtime"))]
    /\ \/ start = "refused" /\ Return(p, "refused")
       \/ start = "clean" /\ Return(p, "ok")
       \/ start = "restore" /\ Goto(p, "restore_copy") /\ UNCHANGED outcome
       \/ start = "discard" /\ Goto(p, "remove_camera") /\ UNCHANGED outcome
    /\ UNCHANGED <<files, genuine, staged, committed>>

RestoreCopy(p) ==
    /\ pc[p] = "restore_copy"
    /\ CopyVerified(p, "back", managed, "restore_replace", "returned")
    /\ outcome' = [outcome EXCEPT ![p] = IF pc'[p] = "returned" THEN "failed" ELSE @]
    /\ UNCHANGED <<files, genuine, job, committed>>

RestoreReplace(p) ==
    /\ pc[p] = "restore_replace"
    /\ \/ /\ current' = staged[p]["back"]
          /\ UNCHANGED <<managed, legacy, installedCamera>>
          /\ Stage(p, "back", Absent)
          /\ Goto(p, "remove_camera")
          /\ UNCHANGED <<committed, outcome>>
       \/ /\ ReplaceFails(p, "returned")
          /\ outcome' = [outcome EXCEPT ![p] = "failed"]
    /\ UNCHANGED <<genuine, job>>

\* Removing a file that is not there is no error.
RemoveCamera(p) ==
    /\ pc[p] = "remove_camera"
    /\ \/ /\ installedCamera' = Absent
          /\ UNCHANGED <<current, managed, legacy>>
          /\ Goto(p, "remove_managed")
          /\ UNCHANGED outcome
       \/ /\ IsFile(installedCamera)
          /\ Return(p, "failed")
          /\ UNCHANGED files
    /\ UNCHANGED <<genuine, job, staged, committed>>

RemoveManaged(p) ==
    /\ pc[p] = "remove_managed"
    /\ \/ /\ managed' = Absent
          /\ UNCHANGED <<current, legacy, installedCamera>>
          /\ Return(p, "ok")
       \/ /\ IsFile(managed)
          /\ Return(p, "failed")
          /\ UNCHANGED files
    /\ UNCHANGED <<genuine, job, staged, committed>>

-----------------------------------------------------------------------------
(* The surroundings, none of them in this repository.                      *)

Quiet == \A p \in Patchers : pc[p] = "idle"

\* An update that replaces the runtime in place.
StoreService(v) ==
    /\ Quiet
    /\ StaleLegacy \/ ~IsFile(legacy)
    /\ current' = v
    /\ UNCHANGED <<managed, legacy, installedCamera>>
    /\ genuine' = v
    /\ UNCHANGED patcherVars

\* An update into a directory of its own.
StoreRedeploy(v) ==
    /\ Quiet
    /\ current' = v
    /\ managed' = Absent /\ legacy' = Absent /\ installedCamera' = Absent
    /\ genuine' = v
    /\ UNCHANGED patcherVars

\* A file is deleted or overwritten; with the last copy of the delivered build
\* gone there is nothing left for the installer to keep.
Tamper ==
    /\ Tampering
    /\ Quiet
    /\ \E x \in Foreign \cup {Absent} :
        \/ IsFile(current) /\ current' = x /\ UNCHANGED <<managed, legacy, installedCamera>>
        \/ IsFile(managed) /\ managed' = x /\ UNCHANGED <<current, legacy, installedCamera>>
        \/ IsFile(legacy) /\ legacy' = x /\ UNCHANGED <<current, managed, installedCamera>>
        \/ /\ IsFile(installedCamera)
           /\ installedCamera' = Absent
           /\ UNCHANGED <<current, managed, legacy>>
    /\ genuine' = IF genuine \in {current', managed', legacy'}
                  THEN genuine ELSE Absent
    /\ UNCHANGED patcherVars

-----------------------------------------------------------------------------

InstallStep(p) ==
    \/ StageManaged(p) \/ StageProxy(p) \/ StageCamera(p)
    \/ CommitManaged(p) \/ CommitCamera(p) \/ CommitProxy(p)
    \/ Verify(p) \/ Cleanup(p) \/ RollbackCopy(p) \/ RollbackReplace(p)

UninstallStep(p) ==
    RestoreCopy(p) \/ RestoreReplace(p) \/ RemoveCamera(p) \/ RemoveManaged(p)

Begin(p) ==
    \/ \E running \in BOOLEAN, proxy \in Proxies \cup Foreign \cup {Absent},
          camera \in Cameras \cup {Absent}, known \in Proxies \cup {Absent} :
            BeginInstall(p, running, proxy, camera, known)
    \/ \E running \in BOOLEAN, proxy \in Proxies \cup Foreign \cup {Absent} :
            BeginUninstall(p, running, proxy)

PatcherStep(p) ==
    Begin(p) \/ InstallStep(p) \/ UninstallStep(p) \/ Exit(p) \/ Crash(p)

Environment ==
    \/ \E v \in Originals : StoreService(v) \/ StoreRedeploy(v)
    \/ Tamper

Next == (\E p \in Patchers : PatcherStep(p)) \/ Environment

Spec == Init /\ [][Next]_vars

-----------------------------------------------------------------------------
(* Properties.                                                             *)

\* The stock runtime the Store last delivered is still in the package
\* directory, in place or preserved, at every step of an installation or an
\* uninstallation, killed ones included, unless others destroyed it: so an
\* uninstallation has the right build to restore (direct_transaction.cpp:146-198
\* and 224-243).
OriginalKept ==
    IsFile(genuine) => genuine \in {current, managed, legacy}

\* No step of a patcher leaves the game with a proxy that has no stock runtime
\* to forward to: the managed original is in place before the proxy is
\* committed and stays until the proxy is gone, whatever fails or is killed in
\* between (direct_transaction.cpp:170-179, 191-198 and 229-243).
HasTarget == current \in Proxies => managed \in Originals
TargetKept == [][(\E p \in Patchers : PatcherStep(p)) /\ HasTarget => HasTarget']_vars

\* An installation that reports success has left its own proxy and camera
\* builds live over a stock managed original, on the path that had nothing to
\* do as well as on those that wrote (direct_plan.cpp:34, direct_transaction.cpp:132-186).
InstallDone(p) ==
    pc[p] = "returned" /\ job[p].kind = "install" /\ outcome[p] = "ok"
        => PostCommitHolds(p)
InstallPromise == \A p \in Patchers : InstallDone(p)

\* An uninstallation that reports success has left no managed original, a stock
\* runtime live, and that runtime is the build the Store last delivered
\* (direct_transaction.cpp:213-243).
UninstallDone(p) ==
    pc[p] = "returned" /\ job[p].kind = "uninstall" /\ outcome[p] = "ok"
        => /\ LooksOriginal(current)
           /\ managed = Absent
           /\ IsFile(genuine) => current = genuine
UninstallPromise == \A p \in Patchers : UninstallDone(p)

\* While the files are only the Store's and the installer's, the steps of the
\* transaction are moves of the abstract vault: preserving, patching, restoring
\* and discarding, each under its guard (direct_transaction.cpp:120-247).
Vault == INSTANCE RuntimeVault
             WITH live <- current, vault <- managed, delivered <- genuine
VaultRefined == Vault!VaultSpec

\* Then the delivered build stands live or behind every proxy, at every step
\* and after every kill (direct_transaction.cpp:170-179, 229-243).
DeliveredRecoverable == Vault!Recoverable

\* README.md:136-139, "Validates the original VC runtime [...] Preserves it as
\* vcruntime140_1_mcfix_original.dll": a stock runtime is replaced by a proxy
\* only when it is the one that was preserved.
StockPreserved ==
    [][(current \in Originals /\ current' \in Proxies) => managed = current]_vars

-----------------------------------------------------------------------------
(* The inductive strengthening, for OneAtATime and ~StaleLegacy: it relates *)
(* the delivered build to the four files and, while a patcher is between    *)
(* two steps, those files to its plan and its temporaries.                  *)

Solo == \A p, q \in Patchers : pc[p] # "idle" /\ pc[q] # "idle" => p = q

GenuineInv ==
    /\ ~Tampering => IsFile(genuine)
    /\ IsFile(genuine) =>
        /\ LooksOriginal(legacy) => genuine = legacy
        /\ LooksOriginal(legacy) /\ LooksOriginal(managed) => managed = legacy
        /\ LooksOriginal(current) => genuine = current
        /\ ~LooksOriginal(current) /\ LooksOriginal(managed)
              => genuine = managed

\* What a patcher has staged for a commit is a whole build of the right kind,
\* whoever else is at work.
StagedKinds(p) ==
    /\ pc[p] \in {"stage_proxy", "stage_camera", "commit_managed"} /\ Preserves(p)
          => LooksOriginal(staged[p]["managed"])
    /\ pc[p] \in {"stage_camera", "commit_managed", "commit_camera", "commit_proxy"}
       /\ InstallsProxy(p)
          => staged[p]["proxy"] \in Runtimes
    /\ pc[p] \in {"commit_managed", "commit_camera"} => staged[p]["camera"] \in Cameras
    /\ pc[p] \in {"rollback_replace", "restore_replace"} => staged[p]["back"] \in Runtimes

TypeInv == TypeOK /\ \A p \in Patchers : StagedKinds(p)

\* The plan of an installation under way.
PlanInv(p) ==
    pc[p] \in InstallSteps =>
        /\ job[p].proxy \in Proxies
        /\ job[p].camera \in Cameras
        /\ job[p].kind = "install"
        /\ InstallsCamera(p)
        /\ Preserves(p) => InstallsProxy(p)
        /\ ~(PreservesCurrent(p) /\ PreservesLegacy(p))
        /\ ~InstallsProxy(p) => current = job[p].proxy

\* The temporaries hold what the steps before them copied.
StagedInv(p) ==
    /\ pc[p] \in {"stage_proxy", "stage_camera", "commit_managed"} /\ Preserves(p)
          => staged[p]["managed"] = OriginalSource(p)
    /\ pc[p] \in {"stage_camera", "commit_managed", "commit_camera", "commit_proxy"}
       /\ InstallsProxy(p)
          => staged[p]["proxy"] = job[p].proxy
    /\ pc[p] \in {"commit_managed", "commit_camera"}
          => staged[p]["camera"] = job[p].camera
    /\ pc[p] \in {"rollback_replace", "restore_replace"}
          => staged[p]["back"] = managed

\* The files still bear out the plan until the step that changes them.
SourceInv(p) ==
    /\ pc[p] \in {"stage_managed", "stage_proxy", "stage_camera", "commit_managed"} =>
        /\ PreservesCurrent(p) => LooksOriginal(current)
        /\ PreservesLegacy(p) => LooksOriginal(legacy) /\ managed = Absent
        /\ ~Preserves(p) => LooksOriginal(managed)
    /\ pc[p] \in {"commit_camera", "commit_proxy"} =>
        /\ LooksOriginal(managed)
        /\ PreservesCurrent(p) => managed = current
        /\ PreservesLegacy(p) => managed = legacy
    /\ pc[p] \in {"stage_managed", "stage_proxy", "stage_camera", "commit_managed",
                  "commit_camera", "commit_proxy"} /\ ~Preserves(p)
          => current \in Proxies
    /\ pc[p] \in {"verify", "rollback_copy", "rollback_replace", "restore_copy",
                  "restore_replace"}
          => LooksOriginal(managed)
    /\ committed[p] /\ pc[p] # "returned" => pc[p] # "idle" /\ current \in Proxies
    /\ pc[p] \in {"rollback_copy", "rollback_replace"} => committed[p]
    /\ pc[p] \in {"restore_copy", "restore_replace"}
          => current \in Proxies \cup Foreign
    /\ pc[p] \in {"remove_camera", "remove_managed"} => LooksOriginal(current)
    /\ pc[p] \in UninstallSteps => job[p].kind = "uninstall" /\ ~committed[p]
    /\ pc[p] = "rollback_replace" => outcome[p] = "failed"

LocalInv(p) ==
    PlanInv(p) /\ StagedInv(p) /\ SourceInv(p) /\ InstallDone(p) /\ UninstallDone(p)

\* What holds between any two steps, of a patcher or of its surroundings
\* (direct_transaction.cpp:120-247).
IInv ==
    /\ TypeInv
    /\ Solo
    /\ GenuineInv
    /\ OriginalKept
    /\ \A p \in Patchers : LocalInv(p)

=============================================================================

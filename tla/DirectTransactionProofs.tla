----------------------- MODULE DirectTransactionProofs -----------------------
(***************************************************************************)
(* Proofs about DirectTransaction.  Types need no hypothesis: for any      *)
(* patchers and builds, whoever overlaps and whatever the Store or others  *)
(* do, every file of the package directory is always a whole build.  The   *)
(* inductive invariant is for any number of patchers that do not overlap,  *)
(* in a directory no update lands on while it keeps a legacy original; it  *)
(* carries what is promised: the delivered runtime is kept, reported       *)
(* results are true, and the steps are moves of RuntimeVault.              *)
(***************************************************************************)
EXTENDS DirectTransaction, TLAPS

-----------------------------------------------------------------------------
(* The plan.                                                               *)

\* Whatever inspect_facts saw, the plan is well formed (direct_plan.cpp:5-92).
LEMMA PlanType ==
    ASSUME NEW f \in Facts
    PROVE  /\ MakeDirectInstallPlan(f).layout \in Layouts
           /\ MakeDirectInstallPlan(f).operations \in SUBSET DirectOperations
<1> DEFINE WellFormed(plan) == /\ plan.layout \in Layouts
                               /\ plan.operations \in SUBSET DirectOperations
<1> USE DEF Plan, Refuse, Layouts, AllowedLayouts, RefusedLayouts, DirectOperations,
            PatchOps, CameraOps
<1>1. WellFormed(ManagedPlan(f))
  BY DEF ManagedPlan
<1>2. WellFormed(LegacyPlan(f))
  BY DEF LegacyPlan
<1>3. WellFormed(StorePlan(f))
  BY DEF StorePlan
<1>4. QED
  BY <1>1, <1>2, <1>3 DEF MakeDirectInstallPlan

\* The facts read from the disk are facts.
LEMMA FactsType ==
    ASSUME NEW running \in BOOLEAN, NEW proxy, NEW camera, NEW known
    PROVE  InspectFacts(running, proxy, camera, known) \in Facts
BY DEF InspectFacts, Facts, IsFile, LooksForwarder, LooksOriginal, SameHash

-----------------------------------------------------------------------------
(* Types.                                                                  *)

LEMMA RefuseType == Refuse("unknown_runtime").layout \in Layouts
                    /\ Refuse("unknown_runtime").operations = {}
BY DEF Refuse, Plan, Layouts, RefusedLayouts

LEMMA NoJobType == NoJob \in Jobs
BY RefuseType DEF NoJob, JobOf, Jobs

LEMMA StageType ==
    ASSUME TypeOK, NEW p \in Patchers, NEW slot \in Slots, Stage(p, slot, Absent)
    PROVE  staged' \in [Patchers -> [Slots -> Runtimes \cup Cameras \cup {Absent, Torn}]]
BY DEF Stage, TypeOK

\* What a step that copies does to the patchers' state.
Copied(p, slot, source, next, onError) ==
    /\ staged' \in [Patchers -> [Slots -> Runtimes \cup Cameras \cup {Absent, Torn}]]
    /\ pc' \in [Patchers -> Steps]
    /\ pc'[p] \in {next, onError}
    /\ pc'[p] # onError => IsFile(source) /\ staged'[p][slot] = source
    /\ \A s \in Slots : s # slot => staged'[p][s] = staged[p][s]
    /\ \A q \in Patchers : q # p => staged'[q] = staged[q] /\ pc'[q] = pc[q]

\* A verified copy, or what a failed one leaves, is something a temporary holds.
LEMMA CopyType ==
    ASSUME TypeOK, NEW p \in Patchers, NEW slot \in Slots,
           NEW source \in Runtimes \cup Cameras \cup {Absent},
           NEW next \in Steps, NEW onError \in Steps,
           CopyVerified(p, slot, source, next, onError)
    PROVE  Copied(p, slot, source, next, onError)
<1> USE DEF CopyVerified, Stage, Goto, TypeOK, Copied
<1>1. CASE IsFile(source) /\ Stage(p, slot, source) /\ Goto(p, next)
  BY <1>1
<1>2. CASE (\E rest \in {Absent, Torn} : Stage(p, slot, rest)) /\ Goto(p, onError)
  BY <1>2
<1>3. QED
  BY <1>1, <1>2

Frame(p) == \A q \in Patchers \ {p} :
    /\ pc'[q] = pc[q] /\ job'[q] = job[q] /\ staged'[q] = staged[q]
    /\ committed'[q] = committed[q] /\ outcome'[q] = outcome[q]

\* A step of one patcher does not touch what another has staged.
LEMMA StagedFrame ==
    ASSUME NEW q \in Patchers, StagedKinds(q),
           pc'[q] = pc[q], job'[q] = job[q], staged'[q] = staged[q]
    PROVE  StagedKinds(q)'
BY DEF StagedKinds, Preserves, PreservesCurrent, PreservesLegacy, InstallsProxy,
       LooksOriginal

LEMMA ForgetTypes ==
    ASSUME TypeOK, NEW p \in Patchers, Forget(p)
    PROVE  TypeOK' /\ StagedKinds(p)' /\ Frame(p)
<1>1. NoTemps \in [Slots -> Runtimes \cup Cameras \cup {Absent, Torn}]
  BY DEF NoTemps
<1>2. QED
  BY <1>1, NoJobType DEF Forget, files, Goto, TypeOK, StagedKinds, Frame, Steps

LEMMA InstallTypes ==
    ASSUME TypeOK, NEW p \in Patchers, StagedKinds(p), InstallStep(p)
    PROVE  TypeOK' /\ StagedKinds(p)' /\ Frame(p)
<1>1. CASE StageManaged(p)
  <2>1. OriginalSource(p) \in Runtimes \cup {Absent}
    BY DEF TypeOK, OriginalSource
  <2>2. CASE Preserves(p)
    <3> DEFINE next == IF LooksOriginal(OriginalSource(p)) THEN "stage_proxy" ELSE "cleanup"
    <3>1. CopyVerified(p, "managed", OriginalSource(p), next, "cleanup")
      BY <1>1, <2>2 DEF StageManaged
    <3>2. next \in Steps /\ "cleanup" \in Steps /\ "managed" \in Slots
      BY DEF Steps, InstallSteps, Slots
    <3>3. Copied(p, "managed", OriginalSource(p), next, "cleanup")
      BY <2>1, <3>1, <3>2, CopyType
    <3>4. TypeOK'
      BY <1>1, <3>3 DEF StageManaged, Copied, TypeOK, files
    <3>5. StagedKinds(p)'
      BY <1>1, <3>3
         DEF StageManaged, Copied, StagedKinds, LooksOriginal, Preserves, PreservesCurrent,
             PreservesLegacy, InstallsProxy, Slots
    <3>6. Frame(p)
      BY <1>1, <3>3 DEF StageManaged, Copied, Frame
    <3>7. QED
      BY <3>4, <3>5, <3>6
  <2>3. CASE ~Preserves(p)
    <3>1. TypeOK'
      BY <1>1, <2>3
         DEF TypeOK, Steps, InstallSteps, UninstallSteps, StageManaged, Goto, files
    <3>2. StagedKinds(p)'
      BY <1>1, <2>3
         DEF TypeOK, StagedKinds, Preserves, PreservesCurrent, PreservesLegacy,
             InstallsProxy, StageManaged, Goto, files
    <3>3. Frame(p)
      BY <1>1, <2>3 DEF TypeOK, Frame, StageManaged, Goto, files
    <3>4. QED
      BY <3>1, <3>2, <3>3
  <2>4. QED
    BY <2>2, <2>3
<1>2. CASE StageProxy(p)
  <2>1. job[p].proxy \in Runtimes \cup {Absent}
    BY DEF TypeOK, Jobs
  <2>2. CASE InstallsProxy(p)
    <3>1. CopyVerified(p, "proxy", job[p].proxy, "stage_camera", "cleanup")
      BY <1>2, <2>2 DEF StageProxy
    <3>2. "stage_camera" \in Steps /\ "cleanup" \in Steps /\ "proxy" \in Slots
      BY DEF Steps, InstallSteps, UninstallSteps, Slots
    <3>3. Copied(p, "proxy", job[p].proxy, "stage_camera", "cleanup")
      BY <2>1, <3>1, <3>2, CopyType
    <3>4. TypeOK'
      BY <1>2, <3>3 DEF StageProxy, Copied, TypeOK, files
    <3>5. StagedKinds(p)'
      BY <1>2, <2>1, <3>3
         DEF StageProxy, Copied, StagedKinds, IsFile, Preserves, PreservesCurrent,
             PreservesLegacy, InstallsProxy, Slots
    <3>6. Frame(p)
      BY <1>2, <3>3 DEF StageProxy, Copied, Frame
    <3>7. QED
      BY <3>4, <3>5, <3>6
  <2>3. CASE ~InstallsProxy(p)
    <3>1. TypeOK'
      BY <1>2, <2>3 DEF TypeOK, Steps, InstallSteps, UninstallSteps, StageProxy, Goto, files
    <3>2. StagedKinds(p)'
      BY <1>2, <2>3
         DEF TypeOK, StagedKinds, Preserves, PreservesCurrent, PreservesLegacy,
             InstallsProxy, StageProxy, Goto, files
    <3>3. Frame(p)
      BY <1>2, <2>3 DEF TypeOK, Frame, StageProxy, Goto, files
    <3>4. QED
      BY <3>1, <3>2, <3>3
  <2>4. QED
    BY <2>2, <2>3
<1>3. CASE StageCamera(p)
  <2>1. job[p].camera \in Cameras \cup {Absent}
    BY DEF TypeOK, Jobs
  <2>2. CopyVerified(p, "camera", job[p].camera, "commit_managed", "cleanup")
    BY <1>3 DEF StageCamera
  <2>3. "commit_managed" \in Steps /\ "cleanup" \in Steps /\ "camera" \in Slots
    BY DEF Steps, InstallSteps, UninstallSteps, Slots
  <2>4. Copied(p, "camera", job[p].camera, "commit_managed", "cleanup")
    BY <2>1, <2>2, <2>3, CopyType
  <2>5. TypeOK'
    BY <1>3, <2>4 DEF StageCamera, Copied, TypeOK, files
  <2>6. StagedKinds(p)'
    BY <1>3, <2>1, <2>4
       DEF StageCamera, Copied, StagedKinds, IsFile, Preserves, PreservesCurrent,
           PreservesLegacy, InstallsProxy, Slots
  <2>7. Frame(p)
    BY <1>3, <2>4 DEF StageCamera, Copied, Frame
  <2>8. QED
    BY <2>5, <2>6, <2>7
<1>4. CASE CommitManaged(p)
  <2>1. Preserves(p) => staged[p]["managed"] \in Runtimes
    BY <1>4 DEF CommitManaged, StagedKinds, LooksOriginal, Runtimes
  <2>2. TypeOK'
    <3>1. pc' \in [Patchers -> Steps]
      BY <1>4 DEF CommitManaged, ReplaceFails, Goto, TypeOK, Steps, InstallSteps
    <3>2. staged' \in [Patchers -> [Slots -> Runtimes \cup Cameras \cup {Absent, Torn}]]
      BY <1>4, StageType DEF CommitManaged, ReplaceFails, Slots, TypeOK
    <3>3. QED
      BY <1>4, <2>1, <3>1, <3>2 DEF CommitManaged, ReplaceFails, files, TypeOK
  <2>3. StagedKinds(p)'
    BY <1>4
       DEF TypeOK, StagedKinds, Preserves, PreservesCurrent, PreservesLegacy,
           InstallsProxy, CommitManaged, files, ReplaceFails, Stage, Goto, Slots,
           LooksOriginal, Runtimes
  <2>4. Frame(p)
    BY <1>4 DEF TypeOK, Frame, CommitManaged, files, ReplaceFails, Stage, Goto, Slots
  <2>5. QED
    BY <2>2, <2>3, <2>4
<1>5. CASE CommitCamera(p)
  <2>1. staged[p]["camera"] \in Cameras
    BY <1>5 DEF CommitCamera, StagedKinds, LooksOriginal, Runtimes
  <2>2. TypeOK'
    <3>1. pc' \in [Patchers -> Steps]
      BY <1>5 DEF CommitCamera, ReplaceFails, Goto, TypeOK, Steps, InstallSteps
    <3>2. staged' \in [Patchers -> [Slots -> Runtimes \cup Cameras \cup {Absent, Torn}]]
      BY <1>5, StageType DEF CommitCamera, ReplaceFails, Slots, TypeOK
    <3>3. QED
      BY <1>5, <2>1, <3>1, <3>2 DEF CommitCamera, ReplaceFails, files, TypeOK
  <2>3. StagedKinds(p)'
    BY <1>5
       DEF TypeOK, StagedKinds, Preserves, PreservesCurrent, PreservesLegacy,
           InstallsProxy, CommitCamera, files, ReplaceFails, Stage, Goto, Slots
  <2>4. Frame(p)
    BY <1>5 DEF TypeOK, Frame, CommitCamera, files, ReplaceFails, Stage, Goto, Slots
  <2>5. QED
    BY <2>2, <2>3, <2>4
<1>6. CASE CommitProxy(p)
  <2>1. InstallsProxy(p) => staged[p]["proxy"] \in Runtimes
    BY <1>6 DEF CommitProxy, StagedKinds, LooksOriginal, Runtimes
  <2>2. TypeOK'
    <3>1. pc' \in [Patchers -> Steps]
      BY <1>6 DEF CommitProxy, ReplaceFails, Goto, TypeOK, Steps, InstallSteps
    <3>2. staged' \in [Patchers -> [Slots -> Runtimes \cup Cameras \cup {Absent, Torn}]]
      BY <1>6, StageType DEF CommitProxy, ReplaceFails, Slots, TypeOK
    <3>3. QED
      BY <1>6, <2>1, <3>1, <3>2 DEF CommitProxy, ReplaceFails, files, TypeOK
  <2>3. StagedKinds(p)'
    BY <1>6
       DEF TypeOK, StagedKinds, Preserves, PreservesCurrent, PreservesLegacy,
           InstallsProxy, CommitProxy, files, ReplaceFails, Stage, Goto, Slots
  <2>4. Frame(p)
    BY <1>6 DEF TypeOK, Frame, CommitProxy, files, ReplaceFails, Stage, Goto, Slots
  <2>5. QED
    BY <2>2, <2>3, <2>4
<1>7. CASE Verify(p)
  <2>1. TypeOK'
    BY <1>7 DEF TypeOK, Steps, InstallSteps, UninstallSteps, Verify, files, Return, Goto
  <2>2. StagedKinds(p)'
    BY <1>7
       DEF TypeOK, StagedKinds, Preserves, PreservesCurrent, PreservesLegacy,
           InstallsProxy, Verify, files, Return, Goto
  <2>3. Frame(p)
    BY <1>7 DEF TypeOK, Frame, Verify, files, Return, Goto
  <2>4. QED
    BY <2>1, <2>2, <2>3
<1>8. CASE Cleanup(p)
  <2>1. TypeOK'
    <3>1. pc' \in [Patchers -> Steps]
      BY <1>8 DEF Cleanup, Return, Goto, TypeOK, Steps, InstallSteps
    <3>2. staged' \in [Patchers -> [Slots -> Runtimes \cup Cameras \cup {Absent, Torn}]]
      BY <1>8 DEF Cleanup, NoTemps, TypeOK
    <3>3. QED
      BY <1>8, <3>1, <3>2 DEF Cleanup, Return, files, TypeOK
  <2>2. StagedKinds(p)'
    BY <1>8
       DEF TypeOK, StagedKinds, Preserves, PreservesCurrent, PreservesLegacy,
           InstallsProxy, Cleanup, files, Return, Goto, NoTemps
  <2>3. Frame(p)
    BY <1>8 DEF TypeOK, Frame, Cleanup, files, Return, Goto, NoTemps
  <2>4. QED
    BY <2>1, <2>2, <2>3
<1>9. CASE RollbackCopy(p)
  <2>1. managed \in Runtimes \cup {Absent}
    BY DEF TypeOK, Jobs
  <2>2. CopyVerified(p, "back", managed, "rollback_replace", "returned")
    BY <1>9 DEF RollbackCopy
  <2>3. "rollback_replace" \in Steps /\ "returned" \in Steps /\ "back" \in Slots
    BY DEF Steps, InstallSteps, UninstallSteps, Slots
  <2>4. Copied(p, "back", managed, "rollback_replace", "returned")
    BY <2>1, <2>2, <2>3, CopyType
  <2>5. TypeOK'
    BY <1>9, <2>4 DEF RollbackCopy, Copied, TypeOK, files
  <2>6. StagedKinds(p)'
    BY <1>9, <2>1, <2>4
       DEF RollbackCopy, Copied, StagedKinds, IsFile, Preserves, PreservesCurrent,
           PreservesLegacy, InstallsProxy, Slots
  <2>7. Frame(p)
    BY <1>9, <2>4 DEF RollbackCopy, Copied, Frame
  <2>8. QED
    BY <2>5, <2>6, <2>7
<1>10. CASE RollbackReplace(p)
  <2>1. TypeOK'
    <3>1. pc' \in [Patchers -> Steps]
      BY <1>10 DEF RollbackReplace, ReplaceFails, Goto, TypeOK, Steps, InstallSteps
    <3>2. staged' \in [Patchers -> [Slots -> Runtimes \cup Cameras \cup {Absent, Torn}]]
      BY <1>10, StageType DEF RollbackReplace, ReplaceFails, Slots, TypeOK
    <3>3. QED
      BY <1>10, <3>1, <3>2 DEF RollbackReplace, ReplaceFails, files, StagedKinds, TypeOK
  <2>2. StagedKinds(p)'
    BY <1>10
       DEF TypeOK, StagedKinds, Preserves, PreservesCurrent, PreservesLegacy,
           InstallsProxy, RollbackReplace, files, ReplaceFails, Stage, Goto, Slots
  <2>3. Frame(p)
    BY <1>10 DEF TypeOK, Frame, RollbackReplace, files, ReplaceFails, Stage, Goto, Slots
  <2>4. QED
    BY <2>1, <2>2, <2>3
<1>11. QED
  BY <1>1, <1>2, <1>3, <1>4, <1>5, <1>6, <1>7, <1>8, <1>9, <1>10 DEF InstallStep

LEMMA UninstallTypes ==
    ASSUME TypeOK, NEW p \in Patchers, StagedKinds(p), UninstallStep(p)
    PROVE  TypeOK' /\ StagedKinds(p)' /\ Frame(p)
<1>1. CASE RestoreCopy(p)
  <2>1. managed \in Runtimes \cup {Absent}
    BY DEF TypeOK, Jobs
  <2>2. CopyVerified(p, "back", managed, "restore_replace", "returned")
    BY <1>1 DEF RestoreCopy
  <2>3. "restore_replace" \in Steps /\ "returned" \in Steps /\ "back" \in Slots
    BY DEF Steps, InstallSteps, UninstallSteps, Slots
  <2>4. Copied(p, "back", managed, "restore_replace", "returned")
    BY <2>1, <2>2, <2>3, CopyType
  <2>5. TypeOK'
    BY <1>1, <2>4 DEF RestoreCopy, Copied, TypeOK, files
  <2>6. StagedKinds(p)'
    BY <1>1, <2>1, <2>4
       DEF RestoreCopy, Copied, StagedKinds, IsFile, Preserves, PreservesCurrent,
           PreservesLegacy, InstallsProxy, Slots
  <2>7. Frame(p)
    BY <1>1, <2>4 DEF RestoreCopy, Copied, Frame
  <2>8. QED
    BY <2>5, <2>6, <2>7
<1>2. CASE RestoreReplace(p)
  <2>1. TypeOK'
    <3>1. staged[p]["back"] \in Runtimes
      BY <1>2 DEF RestoreReplace, StagedKinds
    <3>2. "returned" \in Steps /\ "remove_camera" \in Steps
      BY DEF Steps, UninstallSteps
    <3>3. pc' \in [Patchers -> Steps]
      BY <1>2, <3>2 DEF RestoreReplace, ReplaceFails, Goto, TypeOK
    <3>4. current' \in Runtimes \cup {Absent} /\ UNCHANGED <<managed, legacy, installedCamera>>
      BY <1>2, <3>1 DEF RestoreReplace, ReplaceFails, TypeOK, files
    <3>5. staged' \in [Patchers -> [Slots -> Runtimes \cup Cameras \cup {Absent, Torn}]]
      BY <1>2 DEF RestoreReplace, ReplaceFails, Stage, TypeOK, files
    <3>6. /\ committed' = committed /\ UNCHANGED <<genuine, job>>
          /\ outcome' \in [Patchers -> {"none", "ok", "refused", "failed"}]
      BY <1>2 DEF RestoreReplace, ReplaceFails, TypeOK
    <3> QED
      BY <3>3, <3>4, <3>5, <3>6 DEF TypeOK
  <2>2. StagedKinds(p)'
    BY <1>2
       DEF TypeOK, StagedKinds, Preserves, PreservesCurrent, PreservesLegacy,
           InstallsProxy, RestoreReplace, files, ReplaceFails, Stage, Goto, Slots
  <2>3. Frame(p)
    BY <1>2 DEF TypeOK, Frame, RestoreReplace, files, ReplaceFails, Stage, Goto, Slots
  <2>4. QED
    BY <2>1, <2>2, <2>3
<1>3. CASE RemoveCamera(p)
  <2>1. TypeOK'
    BY <1>3
       DEF TypeOK, Steps, InstallSteps, UninstallSteps, RemoveCamera, files, Return, Goto
  <2>2. StagedKinds(p)'
    BY <1>3
       DEF TypeOK, StagedKinds, Preserves, PreservesCurrent, PreservesLegacy,
           InstallsProxy, RemoveCamera, files, Return, Goto
  <2>3. Frame(p)
    BY <1>3 DEF TypeOK, Frame, RemoveCamera, files, Return, Goto
  <2>4. QED
    BY <2>1, <2>2, <2>3
<1>4. CASE RemoveManaged(p)
  <2>1. TypeOK'
    BY <1>4
       DEF TypeOK, Steps, InstallSteps, UninstallSteps, RemoveManaged, files, Return, Goto
  <2>2. StagedKinds(p)'
    BY <1>4
       DEF TypeOK, StagedKinds, Preserves, PreservesCurrent, PreservesLegacy,
           InstallsProxy, RemoveManaged, files, Return, Goto
  <2>3. Frame(p)
    BY <1>4 DEF TypeOK, Frame, RemoveManaged, files, Return, Goto
  <2>4. QED
    BY <2>1, <2>2, <2>3
<1>5. QED
  BY <1>1, <1>2, <1>3, <1>4 DEF UninstallStep

LEMMA BeginTypes ==
    ASSUME TypeOK, NEW p \in Patchers, Begin(p)
    PROVE  TypeOK' /\ StagedKinds(p)' /\ Frame(p)
<1> USE DEF TypeOK, Steps, InstallSteps, UninstallSteps, Frame, StagedKinds
<1>1. ASSUME NEW running \in BOOLEAN, NEW proxy \in Proxies \cup Foreign \cup {Absent},
             NEW camera \in Cameras \cup {Absent}, NEW known \in Proxies \cup {Absent},
             BeginInstall(p, running, proxy, camera, known)
      PROVE  TypeOK' /\ StagedKinds(p)' /\ Frame(p)
  <2> DEFINE plan == MakeDirectInstallPlan(InspectFacts(running, proxy, camera, known))
  <2>1. JobOf("install", proxy, camera, plan) \in Jobs
    BY FactsType, PlanType DEF JobOf, Jobs, Runtimes
  <2> HIDE DEF plan
  <2>2. QED
    BY <1>1, <2>1 DEF BeginInstall, Return, Goto, files, plan
<1>2. ASSUME NEW running \in BOOLEAN, NEW proxy \in Proxies \cup Foreign \cup {Absent},
             BeginUninstall(p, running, proxy)
      PROVE  TypeOK' /\ StagedKinds(p)' /\ Frame(p)
  <2>1. JobOf("uninstall", proxy, Absent, Refuse("unknown_runtime")) \in Jobs
    BY RefuseType DEF JobOf, Jobs, Runtimes
  <2>2. QED
    BY <1>2, <2>1 DEF BeginUninstall, Return, Goto, files
<1>3. QED
  BY <1>1, <1>2 DEF Begin

LEMMA EnvironmentTypes ==
    ASSUME TypeOK, Environment
    PROVE  TypeOK' /\ UNCHANGED patcherVars
<1>1. ASSUME NEW v \in Originals, StoreService(v) PROVE TypeOK' /\ UNCHANGED patcherVars
  BY <1>1 DEF StoreService, TypeOK, patcherVars, files, Runtimes
<1>2. ASSUME NEW v \in Originals, StoreRedeploy(v) PROVE TypeOK' /\ UNCHANGED patcherVars
  BY <1>2 DEF StoreRedeploy, TypeOK, patcherVars, files, Runtimes
<1>3. CASE Tamper
  BY <1>3 DEF Tamper, TypeOK, patcherVars, files, Runtimes
<1>4. QED
  BY <1>1, <1>2, <1>3 DEF Environment

\* Every step keeps the types and what is staged, whoever takes it.
LEMMA TypeInductive == TypeInv /\ [Next]_vars => TypeInv'
<1> SUFFICES ASSUME TypeInv, [Next]_vars PROVE TypeInv'
  OBVIOUS
<1> USE DEF TypeInv
<1>1. ASSUME NEW p \in Patchers, PatcherStep(p) PROVE TypeInv'
  <2>1. TypeOK' /\ StagedKinds(p)' /\ Frame(p)
    BY <1>1, ForgetTypes, InstallTypes, UninstallTypes, BeginTypes
       DEF PatcherStep, Exit, Crash
  <2>2. ASSUME NEW q \in Patchers \ {p} PROVE StagedKinds(q)'
    BY <2>1, StagedFrame DEF Frame
  <2>3. QED
    BY <2>1, <2>2
<1>2. CASE Environment
  BY <1>2, EnvironmentTypes, StagedFrame DEF patcherVars
<1>3. CASE UNCHANGED vars
  BY <1>3, StagedFrame DEF vars, files, TypeOK
<1>4. QED
  BY <1>1, <1>2, <1>3 DEF Next

LEMMA TypeInit == Init => TypeInv
<1> SUFFICES ASSUME Init PROVE TypeInv
  OBVIOUS
<1>1. QED
  BY NoJobType DEF Init, TypeInv, TypeOK, StagedKinds, NoTemps, Steps, Runtimes

\* The variables keep their types, and what is staged for a commit is a whole
\* build, also when patchers overlap: a file of the package directory is never
\* a copy that was cut short (direct_transaction.cpp:38-57).
THEOREM TypeCorrect == Spec => []TypeOK
<1>1. TypeInv => TypeOK
  BY DEF TypeInv
<1>2. QED
  BY <1>1, TypeInit, TypeInductive, PTL DEF Spec

-----------------------------------------------------------------------------
(* The patcher's own steps.                                                *)

\* A step of an installation under way keeps the delivered runtime and its own
\* part of the invariant (direct_transaction.cpp:146-200).
LEMMA InstallSafe ==
    ASSUME TypeOK, NEW p \in Patchers, InstallStep(p), LocalInv(p), GenuineInv, OriginalKept
    PROVE  GenuineInv' /\ OriginalKept' /\ LocalInv(p)'
<1> USE DEF LocalInv, TypeOK
<1>1. CASE StageManaged(p)
  <2>1. GenuineInv' /\ OriginalKept'
    BY <1>1 DEF StageManaged, files, GenuineInv, OriginalKept
  <2>2. PlanInv(p)'
    BY <1>1
       DEF StageManaged, files, PlanInv, InstallSteps, Preserves, PreservesCurrent,
           PreservesLegacy, InstallsProxy, InstallsCamera
  <2>3. StagedInv(p)'
    BY <1>1
       DEF StageManaged, files, CopyVerified, Stage, Goto, Slots, StagedInv,
           OriginalSource, Preserves, PreservesCurrent, PreservesLegacy
  <2>4. SourceInv(p)'
    BY <1>1
       DEF StageManaged, files, CopyVerified, Goto, SourceInv, UninstallSteps, Preserves,
           PreservesCurrent, PreservesLegacy
  <2>5. InstallDone(p)' /\ UninstallDone(p)'
    BY <1>1 DEF StageManaged, CopyVerified, Goto, InstallDone, UninstallDone
  <2>6. QED
    BY <2>1, <2>2, <2>3, <2>4, <2>5
<1>2. CASE StageProxy(p)
  <2>1. GenuineInv' /\ OriginalKept'
    BY <1>2 DEF StageProxy, files, GenuineInv, OriginalKept
  <2>2. PlanInv(p)'
    BY <1>2
       DEF StageProxy, files, PlanInv, InstallSteps, Preserves, PreservesCurrent,
           PreservesLegacy, InstallsProxy, InstallsCamera
  <2>3. StagedInv(p)'
    BY <1>2
       DEF StageProxy, files, CopyVerified, Stage, Goto, Slots, StagedInv, OriginalSource,
           Preserves, PreservesCurrent, PreservesLegacy, InstallsProxy
  <2>4. SourceInv(p)'
    BY <1>2
       DEF StageProxy, files, CopyVerified, Goto, SourceInv, UninstallSteps, Preserves,
           PreservesCurrent, PreservesLegacy
  <2>5. InstallDone(p)' /\ UninstallDone(p)'
    BY <1>2 DEF StageProxy, CopyVerified, Goto, InstallDone, UninstallDone
  <2>6. QED
    BY <2>1, <2>2, <2>3, <2>4, <2>5
<1>3. CASE StageCamera(p)
  <2>1. GenuineInv' /\ OriginalKept'
    BY <1>3 DEF StageCamera, files, GenuineInv, OriginalKept
  <2>2. PlanInv(p)'
    BY <1>3
       DEF StageCamera, files, PlanInv, InstallSteps, Preserves, PreservesCurrent,
           PreservesLegacy, InstallsProxy, InstallsCamera
  <2>3. StagedInv(p)'
    BY <1>3
       DEF StageCamera, files, CopyVerified, Stage, Goto, Slots, StagedInv, OriginalSource,
           Preserves, PreservesCurrent, PreservesLegacy, InstallsProxy
  <2>4. SourceInv(p)'
    BY <1>3
       DEF StageCamera, files, CopyVerified, Goto, SourceInv, UninstallSteps, Preserves,
           PreservesCurrent, PreservesLegacy
  <2>5. InstallDone(p)' /\ UninstallDone(p)'
    BY <1>3 DEF StageCamera, CopyVerified, Goto, InstallDone, UninstallDone
  <2>6. QED
    BY <2>1, <2>2, <2>3, <2>4, <2>5
<1>4. CASE CommitManaged(p)
  <2>1. GenuineInv' /\ OriginalKept'
    <3>1. /\ \/ managed' = managed
             \/ managed' = current /\ LooksOriginal(current)
             \/ managed' = legacy /\ LooksOriginal(legacy) /\ managed = Absent
          /\ UNCHANGED <<current, legacy, genuine>>
      BY <1>4
         DEF CommitManaged, ReplaceFails, files, SourceInv, StagedInv, OriginalSource,
             Preserves
    <3>2. QED
      BY <3>1 DEF GenuineInv, OriginalKept
  <2>2. PlanInv(p)'
    BY <1>4
       DEF CommitManaged, files, PlanInv, InstallSteps, Preserves, PreservesCurrent,
           PreservesLegacy, InstallsProxy, InstallsCamera
  <2>3. StagedInv(p)'
    BY <1>4 DEF CommitManaged, ReplaceFails, Stage, Goto, Slots, StagedInv, InstallsProxy
  <2>4. SourceInv(p)'
    BY <1>4
       DEF CommitManaged, files, ReplaceFails, Goto, SourceInv, PlanInv, StagedInv,
           OriginalSource, InstallSteps, UninstallSteps, Preserves, PreservesCurrent,
           PreservesLegacy
  <2>5. InstallDone(p)' /\ UninstallDone(p)'
    BY <1>4 DEF CommitManaged, ReplaceFails, Goto, InstallDone, UninstallDone
  <2>6. QED
    BY <2>1, <2>2, <2>3, <2>4, <2>5
<1>5. CASE CommitCamera(p)
  <2>1. GenuineInv' /\ OriginalKept'
    BY <1>5 DEF CommitCamera, files, ReplaceFails, GenuineInv, OriginalKept
  <2>2. PlanInv(p)'
    BY <1>5
       DEF CommitCamera, files, ReplaceFails, PlanInv, InstallSteps, Preserves,
           PreservesCurrent, PreservesLegacy, InstallsProxy, InstallsCamera
  <2>3. StagedInv(p)'
    BY <1>5 DEF CommitCamera, ReplaceFails, Stage, Goto, Slots, StagedInv, InstallsProxy
  <2>4. SourceInv(p)'
    BY <1>5
       DEF CommitCamera, files, ReplaceFails, Goto, SourceInv, UninstallSteps, Preserves,
           PreservesCurrent, PreservesLegacy
  <2>5. InstallDone(p)' /\ UninstallDone(p)'
    BY <1>5 DEF CommitCamera, ReplaceFails, Goto, InstallDone, UninstallDone
  <2>6. QED
    BY <2>1, <2>2, <2>3, <2>4, <2>5
<1>6. CASE CommitProxy(p)
  <2>1. GenuineInv' /\ OriginalKept'
    <3>1. \/ UNCHANGED <<current, managed, legacy, genuine>>
          \/ /\ current' \in Proxies
             /\ LooksOriginal(managed)
             /\ managed = current \/ managed = legacy \/ current \in Proxies
             /\ UNCHANGED <<managed, legacy, genuine>>
      BY <1>6
         DEF CommitProxy, ReplaceFails, files, SourceInv, StagedInv, PlanInv, Preserves,
             InstallSteps
    <3>2. QED
      BY <3>1, KindsDisjoint DEF GenuineInv, OriginalKept, LooksOriginal
  <2>2. PlanInv(p)'
    BY <1>6
       DEF CommitProxy, files, PlanInv, InstallSteps, Preserves, PreservesCurrent,
           PreservesLegacy, InstallsProxy, InstallsCamera
  <2>3. StagedInv(p)'
    BY <1>6 DEF CommitProxy, ReplaceFails, Goto, StagedInv
  <2>4. SourceInv(p)'
    BY <1>6
       DEF CommitProxy, files, ReplaceFails, Goto, SourceInv, PlanInv, StagedInv,
           InstallSteps, UninstallSteps
  <2>5. InstallDone(p)' /\ UninstallDone(p)'
    BY <1>6 DEF CommitProxy, ReplaceFails, Goto, InstallDone, UninstallDone
  <2>6. QED
    BY <2>1, <2>2, <2>3, <2>4, <2>5
<1>7. CASE Verify(p)
  <2>1. GenuineInv' /\ OriginalKept'
    BY <1>7 DEF Verify, files, GenuineInv, OriginalKept
  <2>2. PlanInv(p)'
    BY <1>7
       DEF Verify, files, PlanInv, InstallSteps, Preserves, PreservesCurrent,
           PreservesLegacy, InstallsProxy, InstallsCamera
  <2>3. StagedInv(p)'
    BY <1>7 DEF Verify, Goto, Return, StagedInv
  <2>4. SourceInv(p)'
    BY <1>7 DEF Verify, files, Goto, Return, SourceInv, UninstallSteps
  <2>5. InstallDone(p)' /\ UninstallDone(p)'
    BY <1>7
       DEF Verify, files, Goto, InstallDone, UninstallDone, PlanInv, PostCommitHolds,
           InstallSteps
  <2>6. QED
    BY <2>1, <2>2, <2>3, <2>4, <2>5
<1>8. CASE Cleanup(p)
  <2>1. GenuineInv' /\ OriginalKept'
    BY <1>8 DEF Cleanup, files, GenuineInv, OriginalKept
  <2>2. PlanInv(p)'
    BY <1>8
       DEF Cleanup, files, PlanInv, InstallSteps, Preserves, PreservesCurrent,
           PreservesLegacy, InstallsProxy, InstallsCamera
  <2>3. StagedInv(p)'
    BY <1>8 DEF Cleanup, Goto, Return, StagedInv
  <2>4. SourceInv(p)'
    BY <1>8 DEF Cleanup, files, Goto, Return, SourceInv, UninstallSteps
  <2>5. InstallDone(p)' /\ UninstallDone(p)'
    BY <1>8 DEF Cleanup, Goto, Return, InstallDone, UninstallDone
  <2>6. QED
    BY <2>1, <2>2, <2>3, <2>4, <2>5
<1>9. CASE RollbackCopy(p)
  <2>1. GenuineInv' /\ OriginalKept'
    BY <1>9 DEF RollbackCopy, files, GenuineInv, OriginalKept
  <2>2. PlanInv(p)'
    BY <1>9
       DEF RollbackCopy, files, PlanInv, InstallSteps, Preserves, PreservesCurrent,
           PreservesLegacy, InstallsProxy, InstallsCamera
  <2>3. StagedInv(p)'
    BY <1>9 DEF RollbackCopy, files, CopyVerified, Stage, Goto, Slots, StagedInv
  <2>4. SourceInv(p)'
    BY <1>9 DEF RollbackCopy, files, CopyVerified, Goto, SourceInv, UninstallSteps
  <2>5. InstallDone(p)' /\ UninstallDone(p)'
    BY <1>9 DEF RollbackCopy, InstallDone, UninstallDone
  <2>6. QED
    BY <2>1, <2>2, <2>3, <2>4, <2>5
<1>10. CASE RollbackReplace(p)
  <2>1. GenuineInv' /\ OriginalKept'
    BY <1>10, KindsDisjoint
       DEF RollbackReplace, files, ReplaceFails, IsFile, GenuineInv, OriginalKept,
           SourceInv, StagedInv
  <2>2. PlanInv(p)'
    BY <1>10 DEF RollbackReplace, ReplaceFails, Goto, PlanInv, InstallSteps
  <2>3. StagedInv(p)'
    BY <1>10 DEF RollbackReplace, ReplaceFails, Goto, StagedInv
  <2>4. SourceInv(p)'
    BY <1>10 DEF RollbackReplace, ReplaceFails, Goto, SourceInv, UninstallSteps
  <2>5. InstallDone(p)' /\ UninstallDone(p)'
    BY <1>10 DEF RollbackReplace, InstallDone, UninstallDone, SourceInv
  <2>6. QED
    BY <2>1, <2>2, <2>3, <2>4, <2>5
<1>11. QED
  BY <1>1, <1>2, <1>3, <1>4, <1>5, <1>6, <1>7, <1>8, <1>9, <1>10 DEF InstallStep

\* So does a step of an uninstallation (direct_transaction.cpp:229-243).
LEMMA UninstallSafe ==
    ASSUME TypeOK, NEW p \in Patchers, UninstallStep(p), LocalInv(p), GenuineInv, OriginalKept
    PROVE  GenuineInv' /\ OriginalKept' /\ LocalInv(p)'
<1> USE DEF LocalInv, TypeOK
<1>1. CASE RestoreCopy(p)
  <2>1. GenuineInv' /\ OriginalKept'
    BY <1>1 DEF RestoreCopy, files, GenuineInv, OriginalKept
  <2>2. PlanInv(p)'
    BY <1>1 DEF RestoreCopy, CopyVerified, Goto, PlanInv, InstallSteps
  <2>3. StagedInv(p)'
    BY <1>1 DEF RestoreCopy, files, CopyVerified, Stage, Goto, Slots, StagedInv
  <2>4. SourceInv(p)'
    BY <1>1 DEF RestoreCopy, files, CopyVerified, Goto, SourceInv, UninstallSteps
  <2>5. InstallDone(p)' /\ UninstallDone(p)'
    BY <1>1 DEF RestoreCopy, InstallDone, UninstallDone
  <2>6. QED
    BY <2>1, <2>2, <2>3, <2>4, <2>5
<1>2. CASE RestoreReplace(p)
  <2>1. GenuineInv' /\ OriginalKept'
    BY <1>2, KindsDisjoint
       DEF RestoreReplace, files, ReplaceFails, IsFile, GenuineInv, OriginalKept,
           SourceInv, StagedInv
  <2>2. PlanInv(p)'
    BY <1>2 DEF RestoreReplace, ReplaceFails, Goto, PlanInv, InstallSteps
  <2>3. StagedInv(p)'
    BY <1>2 DEF RestoreReplace, ReplaceFails, Goto, StagedInv
  <2>4. SourceInv(p)'
    BY <1>2 DEF RestoreReplace, ReplaceFails, Goto, SourceInv, StagedInv, UninstallSteps
  <2>5. InstallDone(p)' /\ UninstallDone(p)'
    BY <1>2 DEF RestoreReplace, Goto, InstallDone, UninstallDone
  <2>6. QED
    BY <2>1, <2>2, <2>3, <2>4, <2>5
<1>3. CASE RemoveCamera(p)
  <2>1. GenuineInv' /\ OriginalKept'
    BY <1>3 DEF RemoveCamera, files, GenuineInv, OriginalKept
  <2>2. PlanInv(p)'
    BY <1>3 DEF RemoveCamera, Goto, Return, PlanInv, InstallSteps
  <2>3. StagedInv(p)'
    BY <1>3 DEF RemoveCamera, Goto, Return, StagedInv
  <2>4. SourceInv(p)'
    BY <1>3 DEF RemoveCamera, Goto, Return, SourceInv, UninstallSteps
  <2>5. InstallDone(p)' /\ UninstallDone(p)'
    BY <1>3 DEF RemoveCamera, Goto, Return, InstallDone, UninstallDone
  <2>6. QED
    BY <2>1, <2>2, <2>3, <2>4, <2>5
<1>4. CASE RemoveManaged(p)
  <2>1. GenuineInv' /\ OriginalKept'
    BY <1>4, KindsDisjoint
       DEF RemoveManaged, Runtimes, files, GenuineInv, OriginalKept, SourceInv,
           LooksOriginal
  <2>2. PlanInv(p)'
    BY <1>4 DEF RemoveManaged, Goto, Return, PlanInv, InstallSteps
  <2>3. StagedInv(p)'
    BY <1>4 DEF RemoveManaged, Goto, Return, StagedInv
  <2>4. SourceInv(p)'
    BY <1>4 DEF RemoveManaged, Goto, Return, SourceInv, UninstallSteps
  <2>5. InstallDone(p)' /\ UninstallDone(p)'
    BY <1>4
       DEF RemoveManaged, Return, GenuineInv, InstallDone, UninstallDone, SourceInv,
           UninstallSteps
  <2>6. QED
    BY <2>1, <2>2, <2>3, <2>4, <2>5
<1>5. QED
  BY <1>1, <1>2, <1>3, <1>4 DEF UninstallStep

-----------------------------------------------------------------------------
(* The inductive invariant.                                                *)

\* What an allowed plan says of the files it was made from
\* (direct_plan.cpp:5-92): the payloads are whole, and each set of operations
\* comes with the files it relies on.
PlanFits(plan, proxy, camera) ==
    /\ proxy \in Proxies
    /\ camera \in Cameras
    /\ \/ /\ plan.operations = {}
          /\ current = proxy /\ installedCamera = camera /\ LooksOriginal(managed)
       \/ /\ plan.operations = CameraOps
          /\ current = proxy /\ LooksOriginal(managed)
       \/ /\ plan.operations = PatchOps
          /\ current \in Proxies /\ LooksOriginal(managed)
       \/ /\ plan.operations = {"preserve_current_runtime"} \cup PatchOps
          /\ LooksOriginal(current)
       \/ /\ plan.operations = {"preserve_legacy_original"} \cup PatchOps
          /\ LooksOriginal(legacy) /\ managed = Absent

LEMMA PlanSound ==
    ASSUME TypeOK, NEW running \in BOOLEAN, NEW proxy \in Proxies \cup Foreign \cup {Absent},
           NEW camera \in Cameras \cup {Absent}, NEW known \in Proxies \cup {Absent},
           NEW plan, plan = MakeDirectInstallPlan(InspectFacts(running, proxy, camera, known)),
           plan.layout \in AllowedLayouts
    PROVE  PlanFits(plan, proxy, camera)
<1> DEFINE f == InspectFacts(running, proxy, camera, known)
<1>1. /\ f.proxy_payload_looks_forwarder = (proxy \in Proxies)
      /\ f.camera_payload_exists = (camera # Absent)
      /\ f.current_runtime_is_proxy_payload = (current # Absent /\ current = proxy)
      /\ f.current_runtime_is_known_managed_proxy = (current # Absent /\ current = known)
      /\ f.current_runtime_looks_original = LooksOriginal(current)
      /\ f.managed_original_exists = (managed # Absent)
      /\ f.managed_original_looks_original = LooksOriginal(managed)
      /\ f.legacy_original_looks_original = LooksOriginal(legacy)
      /\ CameraHealthy(f) = (installedCamera # Absent /\ installedCamera = camera)
  BY DEF InspectFacts, IsFile, LooksForwarder, SameHash, CameraHealthy
<1> HIDE DEF f
<1> USE DEF Plan, Refuse, AllowedLayouts
<1>2. f.proxy_payload_looks_forwarder /\ f.camera_payload_exists
  BY DEF MakeDirectInstallPlan, f
<1>3. CASE f.managed_original_exists
  <2>1. plan = ManagedPlan(f)
    BY <1>3 DEF MakeDirectInstallPlan, f
  <2>2. CASE f.current_runtime_is_proxy_payload
    <3>1. /\ plan = Plan("managed_healthy", {}) \/ plan = Plan("managed_needs_repair", CameraOps)
          /\ plan.operations = {} => CameraHealthy(f)
          /\ LooksOriginal(managed)
      BY <1>1, <2>1, <2>2 DEF ManagedPlan, CameraOps
    <3>2. camera \in Cameras /\ proxy \in Proxies
      BY <1>1, <1>2
    <3>3. current = proxy /\ (plan.operations = {} => installedCamera = camera)
      BY <1>1, <2>2, <3>1
    <3>4. plan.operations \in {{}, CameraOps}
      BY <3>1
    <3>5. QED
      BY <3>1, <3>2, <3>3, <3>4 DEF PlanFits
  <2>3. CASE ~f.current_runtime_is_proxy_payload /\ f.current_runtime_is_known_managed_proxy
    BY <1>1, <1>2, <2>1, <2>3 DEF ManagedPlan, PlanFits
  <2>4. CASE /\ ~f.current_runtime_is_proxy_payload
             /\ ~f.current_runtime_is_known_managed_proxy
    BY <1>1, <1>2, <2>1, <2>4 DEF ManagedPlan, PlanFits
  <2>5. QED
    BY <2>2, <2>3, <2>4
<1>4. CASE ~f.managed_original_exists
  <2>1. plan = LegacyPlan(f) \/ plan = StorePlan(f)
    BY <1>4 DEF MakeDirectInstallPlan, f
  <2>2. QED
    BY <1>1, <1>2, <1>4, <2>1 DEF LegacyPlan, StorePlan, PlanFits
<1>5. QED
  BY <1>3, <1>4

\* Starting a command writes nothing and sets out from a plan the files bear out.
LEMMA BeginSafe ==
    ASSUME TypeOK, NEW p \in Patchers, Begin(p), LocalInv(p), GenuineInv, OriginalKept
    PROVE  GenuineInv' /\ OriginalKept' /\ LocalInv(p)'
<1>1. ASSUME NEW running \in BOOLEAN, NEW proxy \in Proxies \cup Foreign \cup {Absent},
             NEW camera \in Cameras \cup {Absent}, NEW known \in Proxies \cup {Absent},
             BeginInstall(p, running, proxy, camera, known)
      PROVE  GenuineInv' /\ OriginalKept' /\ LocalInv(p)'
  <2> DEFINE plan == MakeDirectInstallPlan(InspectFacts(running, proxy, camera, known))
  <2>1. /\ UNCHANGED <<current, managed, legacy, installedCamera, genuine>>
        /\ ~committed'[p]
        /\ job'[p] = JobOf("install", proxy, camera, plan)
        /\ \/ pc'[p] = "returned" /\ outcome'[p] = "refused"
           \/ /\ pc'[p] = "returned" /\ plan.layout \in AllowedLayouts
              /\ plan.operations = {}
           \/ /\ pc'[p] = "stage_managed" /\ plan.layout \in AllowedLayouts
              /\ plan.operations # {}
    BY <1>1 DEF BeginInstall, MayStart, Return, Goto, files, LocalInv, SourceInv, TypeOK
  <2>2. plan.layout \in AllowedLayouts => PlanFits(plan, proxy, camera)
    BY PlanSound
  <2> HIDE DEF plan
  <2>3. GenuineInv' /\ OriginalKept'
    BY <2>1 DEF GenuineInv, OriginalKept
  <2>4. PlanInv(p)'
    BY <2>1, <2>2
       DEF PlanFits, PlanInv, JobOf, CameraOps, PatchOps, InstallSteps, Preserves,
           PreservesCurrent, PreservesLegacy, InstallsProxy, InstallsCamera
  <2>5. StagedInv(p)'
    BY <2>1 DEF StagedInv
  <2>6. SourceInv(p)'
    BY <2>1, <2>2
       DEF PlanFits, SourceInv, JobOf, CameraOps, PatchOps, UninstallSteps, Preserves,
           PreservesCurrent, PreservesLegacy
  <2>7. InstallDone(p)' /\ UninstallDone(p)'
    BY <2>1, <2>2, KindsDisjoint
       DEF PlanFits, InstallDone, UninstallDone, PostCommitHolds, SameHash, IsFile, JobOf,
           CameraOps, PatchOps, Runtimes
  <2>8. QED
    BY <2>3, <2>4, <2>5, <2>6, <2>7 DEF LocalInv
<1>2. ASSUME NEW running \in BOOLEAN, NEW proxy \in Proxies \cup Foreign \cup {Absent},
             BeginUninstall(p, running, proxy)
      PROVE  GenuineInv' /\ OriginalKept' /\ LocalInv(p)'
  <2>1. /\ UNCHANGED <<current, managed, legacy, installedCamera, genuine>>
        /\ ~committed'[p]
        /\ job'[p] = JobOf("uninstall", proxy, Absent, Refuse("unknown_runtime"))
        /\ \/ pc'[p] = "returned" /\ outcome'[p] = "refused"
           \/ pc'[p] = "returned" /\ managed = Absent /\ LooksOriginal(current)
           \/ /\ pc'[p] = "restore_copy"
              /\ LooksOriginal(managed) /\ current \in Proxies \cup Foreign
           \/ pc'[p] = "remove_camera" /\ LooksOriginal(current)
    BY <1>2
       DEF BeginUninstall, UninstallStart, MayStart, Return, Goto, files, LocalInv,
           SourceInv, TypeOK, SameHash, IsFile
  <2>2. GenuineInv' /\ OriginalKept'
    BY <2>1 DEF GenuineInv, OriginalKept
  <2>3. PlanInv(p)' /\ StagedInv(p)'
    BY <2>1 DEF PlanInv, StagedInv, InstallSteps
  <2>4. SourceInv(p)'
    BY <2>1 DEF SourceInv, JobOf
  <2>5. InstallDone(p)' /\ UninstallDone(p)'
    BY <2>1 DEF InstallDone, UninstallDone, JobOf, GenuineInv
  <2>6. QED
    BY <2>2, <2>3, <2>4, <2>5 DEF LocalInv
<1>3. QED
  BY <1>1, <1>2 DEF Begin

LEMMA IdleSafe ==
    ASSUME NEW p \in Patchers, pc[p] = "idle", ~committed[p]
    PROVE  LocalInv(p)
BY
   DEF LocalInv, PlanInv, StagedInv, SourceInv, InstallDone, UninstallDone, InstallSteps,
       UninstallSteps

\* Neither the Store nor others make the invariant false between commands.
LEMMA EnvironmentSafe ==
    ASSUME TypeOK, GenuineInv, OriginalKept, ~StaleLegacy, Environment
    PROVE  GenuineInv' /\ OriginalKept'
<1> USE KindsDisjoint DEF TypeOK, GenuineInv, OriginalKept, LooksOriginal, IsFile, Runtimes
<1>1. ASSUME NEW v \in Originals, StoreService(v) PROVE GenuineInv' /\ OriginalKept'
  BY <1>1 DEF StoreService
<1>2. ASSUME NEW v \in Originals, StoreRedeploy(v) PROVE GenuineInv' /\ OriginalKept'
  BY <1>2 DEF StoreRedeploy
<1>3. CASE Tamper
  <2> DEFINE left == {current', managed', legacy'}
  <2>1. \A c \in left : c \in Originals => c \in {current, managed, legacy}
    BY <1>3 DEF Tamper
  <2>2. genuine' = genuine \/ genuine' = Absent
    BY <1>3 DEF Tamper
  <2>3. IsFile(genuine') => genuine' \in left
    BY <1>3 DEF Tamper
  <2>4. /\ LooksOriginal(current') => current' = current
        /\ LooksOriginal(legacy') => legacy' = legacy
        /\ LooksOriginal(managed') => managed' = managed
    BY <1>3 DEF Tamper
  <2>5. ~Tampering => FALSE
    BY <1>3 DEF Tamper
  <2>6. OriginalKept'
    BY <2>3
  <2>7. ASSUME IsFile(genuine'), ~LooksOriginal(current'), LooksOriginal(managed')
        PROVE  genuine' = managed'
    <3>1. CASE LooksOriginal(current)
      <4>1. current' # current /\ UNCHANGED <<managed, legacy>>
        BY <1>3, <2>7, <3>1 DEF Tamper
      <4>2. genuine = current
        BY <2>2, <2>7, <3>1
      <4>3. QED
        BY <2>2, <2>3, <2>7, <4>1, <4>2
    <3>2. CASE ~LooksOriginal(current)
      BY <2>2, <2>4, <2>7, <3>2
    <3>3. QED
      BY <3>1, <3>2
  <2>8. QED
    BY <2>2, <2>4, <2>5, <2>6, <2>7
<1>4. QED
  BY <1>1, <1>2, <1>3 DEF Environment

LEMMA SafeInit == Init => IInv
<1> SUFFICES ASSUME Init PROVE IInv
  OBVIOUS
<1>1. Solo /\ \A p \in Patchers : LocalInv(p)
  BY IdleSafe DEF Init, Solo
<1>2. GenuineInv /\ OriginalKept
  BY KindsDisjoint DEF Init, GenuineInv, OriginalKept, LooksOriginal, IsFile, Runtimes
<1>3. QED
  BY <1>1, <1>2, TypeInit DEF IInv

LEMMA SafeInductive ==
    ASSUME OneAtATime, ~StaleLegacy, IInv, [Next]_vars
    PROVE  IInv'
<1> USE DEF IInv, TypeInv
<1>1. TypeInv'
  BY TypeInductive
<1>2. ASSUME NEW p \in Patchers, PatcherStep(p) PROVE IInv'
  <2>1. Frame(p)
    BY <1>2, ForgetTypes, InstallTypes, UninstallTypes, BeginTypes
       DEF PatcherStep, Exit, Crash
  <2>2. \A q \in Patchers \ {p} : pc[q] = "idle"
    <3>1. CASE Begin(p)
      BY <3>1 DEF Begin, BeginInstall, BeginUninstall, MayStart
    <3>2. CASE ~Begin(p)
      <4>1. pc[p] # "idle"
        BY <1>2, <3>2
           DEF PatcherStep, Exit, Crash, InstallStep, UninstallStep, StageManaged,
               StageProxy, StageCamera, CommitManaged, CommitCamera, CommitProxy, Verify,
               Cleanup, RollbackCopy, RollbackReplace, RestoreCopy, RestoreReplace,
               RemoveCamera, RemoveManaged
      <4>2. QED
        BY <4>1 DEF Solo
    <3>3. QED
      BY <3>1, <3>2
  <2>3. Solo'
    BY <2>1, <2>2 DEF Frame, Solo
  <2>4. GenuineInv' /\ OriginalKept' /\ LocalInv(p)'
    <3>1. CASE Forget(p)
      <4>1. LocalInv(p)'
        BY <3>1
           DEF Forget, Goto, TypeOK, LocalInv, PlanInv, StagedInv, SourceInv, InstallDone,
               UninstallDone, InstallSteps, UninstallSteps
      <4>2. QED
        BY <3>1, <4>1 DEF Forget, files, GenuineInv, OriginalKept
    <3>2. QED
      BY <1>2, <3>1, InstallSafe, UninstallSafe, BeginSafe DEF PatcherStep, Exit, Crash
  <2>5. ASSUME NEW q \in Patchers \ {p} PROVE LocalInv(q)'
    <3>1. pc'[q] = "idle" /\ ~committed'[q]
      BY <2>1, <2>2 DEF Frame, LocalInv, SourceInv
    <3>2. QED
      BY <3>1 DEF LocalInv, PlanInv, StagedInv, SourceInv, InstallDone, UninstallDone,
             InstallSteps, UninstallSteps
  <2>6. QED
    BY <1>1, <2>3, <2>4, <2>5
<1>3. CASE Environment
  <2>1. UNCHANGED patcherVars /\ \A q \in Patchers : pc[q] = "idle"
    BY <1>3 DEF Environment, StoreService, StoreRedeploy, Tamper, Quiet
  <2>2. ASSUME NEW q \in Patchers PROVE LocalInv(q)'
    <3>1. pc'[q] = "idle" /\ ~committed'[q]
      BY <2>1 DEF patcherVars, LocalInv, SourceInv
    <3>2. QED
      BY <3>1 DEF LocalInv, PlanInv, StagedInv, SourceInv, InstallDone, UninstallDone,
             InstallSteps, UninstallSteps
  <2>3. Solo'
    BY <2>1 DEF Solo, patcherVars
  <2>4. QED
    BY <1>1, <1>3, <2>2, <2>3, EnvironmentSafe
<1>4. CASE UNCHANGED vars
  BY <1>1, <1>4
     DEF vars, files, Solo, GenuineInv, OriginalKept, LocalInv, PlanInv, StagedInv,
         SourceInv, InstallDone, UninstallDone, PostCommitHolds, OriginalSource, Preserves,
         PreservesCurrent, PreservesLegacy, InstallsProxy, InstallsCamera
<1>5. QED
  BY <1>2, <1>3, <1>4 DEF Next

\* The inductive invariant holds at every step of every behaviour in which
\* patchers do not overlap (direct_transaction.cpp:120-247, direct_plan.cpp:5-92).
THEOREM Safe == OneAtATime /\ ~StaleLegacy /\ Spec => []IInv
<1> SUFFICES ASSUME OneAtATime, ~StaleLegacy PROVE Spec => []IInv
  OBVIOUS
<1>1. IInv /\ [Next]_vars => IInv'
  BY SafeInductive
<1>2. QED
  BY <1>1, SafeInit, PTL DEF Spec

-----------------------------------------------------------------------------
(* What the invariant carries.                                             *)

\* The delivered runtime is never lost from the package directory, whatever
\* fails, is killed or is updated, while patchers do not overlap
\* (direct_transaction.cpp:146-198 and 224-243).
THEOREM DeliveredKept == OneAtATime /\ ~StaleLegacy /\ Spec => []OriginalKept
<1> SUFFICES ASSUME OneAtATime, ~StaleLegacy PROVE Spec => []OriginalKept
  OBVIOUS
<1>1. Spec => []IInv
  BY Safe
<1>2. IInv => OriginalKept
  BY DEF IInv
<1>3. QED
  BY <1>1, <1>2, PTL

\* A reported installation is in place, whole, over a stock managed original
\* (direct_plan.cpp:34, direct_transaction.cpp:132-186).
THEOREM InstallKept == OneAtATime /\ ~StaleLegacy /\ Spec => []InstallPromise
<1> SUFFICES ASSUME OneAtATime, ~StaleLegacy PROVE Spec => []InstallPromise
  OBVIOUS
<1>1. Spec => []IInv
  BY Safe
<1>2. IInv => InstallPromise
  BY DEF IInv, LocalInv, InstallPromise
<1>3. QED
  BY <1>1, <1>2, PTL

\* A reported uninstallation has restored the delivered build
\* (direct_transaction.cpp:213-243).
THEOREM UninstallKept == OneAtATime /\ ~StaleLegacy /\ Spec => []UninstallPromise
<1> SUFFICES ASSUME OneAtATime, ~StaleLegacy PROVE Spec => []UninstallPromise
  OBVIOUS
<1>1. Spec => []IInv
  BY Safe
<1>2. IInv => UninstallPromise
  BY DEF IInv, LocalInv, UninstallPromise
<1>3. QED
  BY <1>1, <1>2, PTL

-----------------------------------------------------------------------------
(* What the patcher's steps are to the game and to the vault.              *)

\* What a step of a patcher can do to the two runtimes: nothing, or one of the
\* vault's moves with the facts that license it.
LEMMA StepMoves ==
    ASSUME IInv, NEW p \in Patchers, PatcherStep(p)
    PROVE  /\ UNCHANGED genuine
           /\ \/ UNCHANGED <<current, managed>>
              \/ /\ LooksOriginal(current) /\ managed' = current
                 /\ UNCHANGED current
              \/ /\ LooksOriginal(legacy) /\ managed = Absent /\ managed' = legacy
                 /\ UNCHANGED current
              \/ /\ LooksOriginal(managed) /\ current' \in Proxies
                 /\ managed = current \/ managed = legacy \/ current \in Proxies
                 /\ UNCHANGED managed
              \/ /\ LooksOriginal(managed) /\ current \in Proxies \cup Foreign
                 /\ current' = managed /\ UNCHANGED managed
              \/ /\ LooksOriginal(current) /\ managed' = Absent
                 /\ UNCHANGED current
<1> USE DEF IInv, LocalInv, files
<1>1. CASE Begin(p) \/ Exit(p) \/ Crash(p)
  BY <1>1 DEF Begin, BeginInstall, BeginUninstall, Exit, Crash, Forget
<1>2. CASE StageManaged(p) \/ StageProxy(p) \/ StageCamera(p)
  BY <1>2 DEF StageManaged, StageProxy, StageCamera
<1>3. CASE CommitManaged(p)
  BY <1>3 DEF CommitManaged, ReplaceFails, SourceInv, StagedInv, OriginalSource, Preserves
<1>4. CASE CommitCamera(p) \/ Verify(p) \/ Cleanup(p)
  BY <1>4 DEF CommitCamera, ReplaceFails, Verify, Cleanup
<1>5. CASE CommitProxy(p)
  BY <1>5 DEF CommitProxy, ReplaceFails, SourceInv, StagedInv, PlanInv, InstallSteps,
              Preserves
<1>6. CASE RollbackCopy(p) \/ RestoreCopy(p) \/ RemoveCamera(p)
  BY <1>6 DEF RollbackCopy, RestoreCopy, RemoveCamera
<1>7. CASE RollbackReplace(p)
  BY <1>7 DEF RollbackReplace, ReplaceFails, SourceInv, StagedInv
<1>8. CASE RestoreReplace(p)
  BY <1>8 DEF RestoreReplace, ReplaceFails, SourceInv, StagedInv
<1>9. CASE RemoveManaged(p)
  BY <1>9 DEF RemoveManaged, SourceInv
<1>10. QED
  BY <1>1, <1>2, <1>3, <1>4, <1>5, <1>6, <1>7, <1>8, <1>9
     DEF PatcherStep, InstallStep, UninstallStep

\* A proxy is never left live without a stock runtime to forward to
\* (direct_transaction.cpp:170-179, 191-198 and 229-243).
THEOREM ProxyHasTarget == OneAtATime /\ ~StaleLegacy /\ Spec => TargetKept
<1> SUFFICES ASSUME OneAtATime, ~StaleLegacy PROVE Spec => TargetKept
  OBVIOUS
<1>1. Spec => []IInv
  BY Safe
<1>2. ASSUME IInv, NEW p \in Patchers, PatcherStep(p), HasTarget PROVE HasTarget'
  BY <1>2, StepMoves, KindsDisjoint DEF HasTarget, LooksOriginal
<1>3. IInv /\ [Next]_vars
        => [(\E p \in Patchers : PatcherStep(p)) /\ HasTarget => HasTarget']_vars
  BY <1>2
<1>4. QED
  BY <1>1, <1>3, PTL DEF Spec, TargetKept

\* The transaction implements the abstract vault (direct_transaction.cpp:120-247).
THEOREM Refinement == OneAtATime /\ ~StaleLegacy /\ ~Tampering /\ Spec => VaultRefined
<1> SUFFICES ASSUME OneAtATime, ~StaleLegacy, ~Tampering PROVE Spec => VaultRefined
  OBVIOUS
<1>1. Spec => []IInv
  BY Safe
<1>2. Init => Vault!VaultInit
  BY KindsDisjoint DEF Init, Vault!VaultInit
<1>3. ASSUME IInv, NEW p \in Patchers, PatcherStep(p)
      PROVE  Vault!VaultNext \/ UNCHANGED Vault!vaultVars
  <2>1. /\ genuine # Absent
        /\ LooksOriginal(legacy) => genuine = legacy
        /\ LooksOriginal(current) => genuine = current
    BY <1>3 DEF IInv, GenuineInv, IsFile
  <2>2. QED
    BY <1>3, <2>1, StepMoves, KindsDisjoint
       DEF LooksOriginal, Vault!VaultNext, Vault!vaultVars, Vault!Preserve, Vault!Adopt,
           Vault!Patch, Vault!Restore, Vault!Discard
<1>4. ASSUME IInv, [Next]_vars PROVE [Vault!VaultNext]_(Vault!vaultVars)
  <2>1. CASE UNCHANGED vars
    BY <2>1 DEF vars, files, Vault!vaultVars
  <2>2. CASE Environment
    BY <2>2 DEF Environment, StoreService, StoreRedeploy, Tamper, Vault!VaultNext,
                Vault!Service
  <2>3. QED
    BY <1>3, <1>4, <2>1, <2>2 DEF Next
<1>5. QED
  BY <1>1, <1>2, <1>4, PTL DEF Spec, VaultRefined, Vault!VaultSpec

-----------------------------------------------------------------------------
(* The six moves of the vault lose no delivered build.                     *)

LEMMA VaultInductive ==
    ASSUME Vault!VaultInv, [Vault!VaultNext]_(Vault!vaultVars)
    PROVE  Vault!VaultInv'
<1> USE KindsDisjoint DEF Vault!VaultInv, Vault!Recoverable, Runtimes
<1>1. CASE Vault!Preserve
  BY <1>1 DEF Vault!Preserve
<1>2. CASE Vault!Adopt
  BY <1>2 DEF Vault!Adopt
<1>3. CASE Vault!Patch
  BY <1>3 DEF Vault!Patch
<1>4. CASE Vault!Restore
  BY <1>4 DEF Vault!Restore
<1>5. CASE Vault!Discard
  BY <1>5 DEF Vault!Discard
<1>6. CASE Vault!Service
  BY <1>6 DEF Vault!Service
<1>7. CASE UNCHANGED Vault!vaultVars
  BY <1>7 DEF Vault!vaultVars
<1>8. QED
  BY <1>1, <1>2, <1>3, <1>4, <1>5, <1>6, <1>7 DEF Vault!VaultNext

\* A vault with these six moves never shows another version's runtime, live or
\* behind a proxy (direct_transaction.cpp:170-179 and 229-243).
THEOREM VaultRecoverable == Vault!VaultSpec => []Vault!Recoverable
<1>1. Vault!VaultInit => Vault!VaultInv
  BY KindsDisjoint DEF Vault!VaultInit, Vault!VaultInv, Vault!Recoverable, Runtimes
<1>2. Vault!VaultInv /\ [Vault!VaultNext]_(Vault!vaultVars) => Vault!VaultInv'
  BY VaultInductive
<1>3. Vault!VaultInv => Vault!Recoverable
  BY DEF Vault!VaultInv
<1>4. QED
  BY <1>1, <1>2, <1>3, PTL DEF Vault!VaultSpec

\* Hence the delivered build stands live or behind every proxy, after every step
\* and every kill (direct_transaction.cpp:170-179, 229-243).
THEOREM DeliveredBehindProxy ==
    OneAtATime /\ ~StaleLegacy /\ ~Tampering /\ Spec => []DeliveredRecoverable
  BY Refinement, VaultRecoverable, PTL DEF VaultRefined, DeliveredRecoverable

=============================================================================

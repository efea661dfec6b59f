----------------------------- MODULE DirectPlan -----------------------------
(***************************************************************************)
(* The decision table of the installer: which layout the package directory *)
(* is in, given what inspect_facts saw, and which operations bring it to   *)
(* the patched state (installer/direct_plan.cpp).  The plan is a pure      *)
(* function of the facts; the transaction that executes it is module       *)
(* DirectTransaction.  The operations are a set: the transaction runs them *)
(* in an order of its own.                                                 *)
(***************************************************************************)

\* DirectInstallFacts.
Facts ==
    [minecraft_running : BOOLEAN,
     proxy_payload_exists : BOOLEAN,
     proxy_payload_looks_forwarder : BOOLEAN,
     camera_payload_exists : BOOLEAN,
     current_runtime_exists : BOOLEAN,
     current_runtime_is_proxy_payload : BOOLEAN,
     current_runtime_is_known_managed_proxy : BOOLEAN,
     current_runtime_looks_original : BOOLEAN,
     managed_original_exists : BOOLEAN,
     managed_original_looks_original : BOOLEAN,
     legacy_original_exists : BOOLEAN,
     legacy_original_looks_original : BOOLEAN,
     installed_camera_exists : BOOLEAN,
     installed_camera_matches_payload : BOOLEAN]

AllowedLayouts ==
    {"clean_store", "legacy_proxy", "managed_healthy", "managed_needs_repair"}

RefusedLayouts ==
    {"minecraft_running", "payload_missing", "invalid_proxy_payload",
     "missing_runtime", "invalid_managed_original", "invalid_legacy_original",
     "unknown_runtime"}

Layouts == AllowedLayouts \cup RefusedLayouts

DirectOperations ==
    {"preserve_current_runtime", "preserve_legacy_original", "install_proxy",
     "install_camera_patch", "write_install_state"}

PatchOps == {"install_proxy", "install_camera_patch", "write_install_state"}
CameraOps == {"install_camera_patch", "write_install_state"}

Plan(layout, operations) == [layout |-> layout, operations |-> operations]
Refuse(layout) == Plan(layout, {})

\* Mutant: any camera patch is the right one.
CameraPresent(f) == f.installed_camera_exists

CameraHealthy(f) ==
    f.installed_camera_exists /\ f.installed_camera_matches_payload

\* Mutant: a stock runtime that an update delivered is not preserved anew.
ManagedPlanOnce(f) ==
    IF ~f.managed_original_looks_original THEN Refuse("invalid_managed_original")
    ELSE IF f.current_runtime_is_proxy_payload THEN
        IF CameraHealthy(f) THEN Plan("managed_healthy", {})
                            ELSE Plan("managed_needs_repair", CameraOps)
    ELSE IF f.current_runtime_is_known_managed_proxy
            \/ f.current_runtime_looks_original
         THEN Plan("managed_needs_repair", PatchOps)
    ELSE Refuse("unknown_runtime")

\* A managed original is already in place (direct_plan.cpp, first branch).
ManagedPlan(f) ==
    IF ~f.managed_original_looks_original THEN Refuse("invalid_managed_original")
    ELSE IF f.current_runtime_is_proxy_payload THEN
        IF CameraHealthy(f) THEN Plan("managed_healthy", {})
                            ELSE Plan("managed_needs_repair", CameraOps)
    ELSE IF f.current_runtime_is_known_managed_proxy THEN
        Plan("managed_needs_repair", PatchOps)
    ELSE IF f.current_runtime_looks_original THEN
        Plan("managed_needs_repair", {"preserve_current_runtime"} \cup PatchOps)
    ELSE Refuse("unknown_runtime")

\* An earlier, hand-made installation left its own copy of the original.
LegacyPlan(f) ==
    IF f.legacy_original_looks_original
    THEN Plan("legacy_proxy", {"preserve_legacy_original"} \cup PatchOps)
    ELSE Refuse("invalid_legacy_original")

\* Neither a managed nor a legacy original.
StorePlan(f) ==
    IF f.current_runtime_is_proxy_payload \/ ~f.current_runtime_looks_original
    THEN Refuse("unknown_runtime")
    ELSE Plan("clean_store", {"preserve_current_runtime"} \cup PatchOps)

MakeDirectInstallPlan(f) ==
    IF f.minecraft_running THEN Refuse("minecraft_running")
    ELSE IF ~f.proxy_payload_exists \/ ~f.camera_payload_exists
         THEN Refuse("payload_missing")
    ELSE IF ~f.proxy_payload_looks_forwarder THEN Refuse("invalid_proxy_payload")
    ELSE IF ~f.current_runtime_exists THEN Refuse("missing_runtime")
    ELSE IF f.managed_original_exists THEN ManagedPlan(f)
    ELSE IF f.legacy_original_exists THEN LegacyPlan(f)
    ELSE StorePlan(f)

=============================================================================

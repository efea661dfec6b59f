---------------------------- MODULE RuntimeVault ----------------------------
(***************************************************************************)
(* What the installer promises about the game's runtime, with no temporary *)
(* files, no plans and no failures: one live runtime, one vault for the    *)
(* stock build, and moves none of which loses the build the Store          *)
(* delivered.  DirectTransaction implements it.                            *)
(***************************************************************************)
CONSTANTS Originals, Proxies, Absent

VARIABLES live,      \* the runtime the game loads
          vault,     \* the preserved stock runtime, or Absent
          delivered  \* the stock build the Store last delivered

vaultVars == <<live, vault, delivered>>

\* The live runtime is the delivered one, or something else put over it by an
\* earlier tool that kept the delivered one aside.
VaultInit ==
    /\ delivered \in Originals
    /\ live = delivered \/ live \notin Originals \cup Proxies
    /\ vault = Absent

\* The live stock build is copied into the vault.
Preserve ==
    /\ live \in Originals
    /\ vault' = live
    /\ UNCHANGED <<live, delivered>>

\* The delivered build, kept aside by an earlier tool, fills an empty vault
\* under a live runtime that is not stock.
Adopt ==
    /\ live \notin Originals
    /\ vault = Absent
    /\ vault' = delivered
    /\ UNCHANGED <<live, delivered>>

\* A proxy goes live: only over a full vault, and over a stock build only when
\* the vault holds that very build.
Patch ==
    /\ vault \in Originals
    /\ live \in Originals => vault = live
    /\ live' \in Proxies
    /\ UNCHANGED <<vault, delivered>>

\* The vault's build goes live in place of one that is not stock.
Restore ==
    /\ vault \in Originals
    /\ live \notin Originals
    /\ live' = vault
    /\ UNCHANGED <<vault, delivered>>

\* The vault is emptied: only when a stock build is live.
Discard ==
    /\ live \in Originals
    /\ vault' = Absent
    /\ UNCHANGED <<live, delivered>>

\* The Store delivers a stock build, into this directory or into a new one.
Service ==
    /\ live' \in Originals
    /\ delivered' = live'
    /\ vault' \in {vault, Absent}

VaultNext == Preserve \/ Adopt \/ Patch \/ Restore \/ Discard \/ Service

VaultSpec == VaultInit /\ [][VaultNext]_vaultVars

\* A stock build that is live is the delivered one, and under a proxy the vault
\* holds the delivered one: what the game forwards to, and what an
\* uninstallation restores, is never another version's runtime
\* (direct_transaction.cpp:170-179 and 229-243).
Recoverable ==
    /\ live \in Originals => live = delivered
    /\ live \in Proxies => vault = delivered

-----------------------------------------------------------------------------
\* Inductive: a live runtime that is not stock stands over an empty vault (the
\* earlier tool's, before its copy is adopted) or over the delivered build.
VaultInv ==
    /\ delivered \in Originals
    /\ Recoverable
    /\ live \notin Originals => vault \in {Absent, delivered}

=============================================================================

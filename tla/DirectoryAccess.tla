--------------------------- MODULE DirectoryAccess ---------------------------
(***************************************************************************)
(* DirectoryAccessGuard (installer/directory_access.cpp): the owner and    *)
(* the access list of the package directory are captured, write access is  *)
(* granted to the user, if need be after taking the directory over, and    *)
(* what was captured is put back.  A guard's active_ is its place "held".  *)
(***************************************************************************)

CONSTANT Holders   \* processes that may acquire a guard

VARIABLES
    directory,   \* owner and access list of the package directory
    captured,    \* each guard's original_descriptor_
    gpc          \* each guard's place

accessVars == <<directory, captured, gpc>>

Descriptors == [owner : {"package", "user"}, granted : BOOLEAN]
Delivered == [owner |-> "package", granted |-> FALSE]
NoDescriptor == [owner |-> "none", granted |-> FALSE]

Places ==
    {"idle", "grant", "own", "grant_again", "held", "refused", "restored", "unrestored"}

AccessTypeOK ==
    /\ directory \in Descriptors
    /\ captured \in [Holders -> Descriptors \cup {NoDescriptor}]
    /\ gpc \in [Holders -> Places]
    /\ \A g \in Holders :
           gpc[g] \in {"grant", "own", "grant_again", "held"} => captured[g] # NoDescriptor

AccessInit ==
    /\ directory = Delivered
    /\ captured = [g \in Holders |-> NoDescriptor]
    /\ gpc = [g \in Holders |-> "idle"]

-----------------------------------------------------------------------------

Go(g, place) == gpc' = [gpc EXCEPT ![g] = place]

\* A guard that is not active frees the descriptor and puts nothing back.
GiveUp(g) ==
    /\ Go(g, "refused")
    /\ captured' = [captured EXCEPT ![g] = NoDescriptor]

\* Mutant: the descriptor that was read is not kept.
CaptureNothing(g) ==
    /\ gpc[g] = "idle"
    /\ \/ Go(g, "grant") /\ UNCHANGED captured
       \/ GiveUp(g)
    /\ UNCHANGED directory

\* Lines 144-157; what is prepared up to line 185 touches nothing and can fail.
Capture(g) ==
    /\ gpc[g] = "idle"
    /\ \/ captured' = [captured EXCEPT ![g] = directory] /\ Go(g, "grant")
       \/ GiveUp(g)
    /\ UNCHANGED directory

\* Only who does not own the directory can be denied access to its list.
Grant(g) ==
    /\ gpc[g] = "grant"
    /\ \/ /\ directory' = [directory EXCEPT !.granted = TRUE]
          /\ Go(g, "held")
          /\ UNCHANGED captured
       \/ /\ directory.owner # "user"
          /\ Go(g, "own")
          /\ UNCHANGED <<directory, captured>>
       \/ GiveUp(g) /\ UNCHANGED directory

TakeOwnership(g) ==
    /\ gpc[g] = "own"
    /\ \/ /\ directory' = [directory EXCEPT !.owner = "user"]
          /\ Go(g, "grant_again")
          /\ UNCHANGED captured
       \/ GiveUp(g) /\ UNCHANGED directory

GrantAgain(g) ==
    /\ gpc[g] = "grant_again"
    /\ \/ /\ directory' = [directory EXCEPT !.granted = TRUE]
          /\ Go(g, "held")
          /\ UNCHANGED captured
       \/ GiveUp(g) /\ UNCHANGED directory

Acquire(g) == Capture(g) \/ Grant(g) \/ TakeOwnership(g) \/ GrantAgain(g)

\* Owner and list are put back by one call; the descriptor is freed either way,
\* so there is no second try.
Restore(g) ==
    /\ gpc[g] = "held"
    /\ \/ directory' = captured[g] /\ Go(g, "restored")
       \/ Go(g, "unrestored") /\ UNCHANGED directory
    /\ captured' = [captured EXCEPT ![g] = NoDescriptor]

\* The process ends, or is killed: a descriptor it holds is lost.
Release(g) ==
    /\ Go(g, "idle")
    /\ captured' = [captured EXCEPT ![g] = NoDescriptor]
    /\ UNCHANGED directory

=============================================================================

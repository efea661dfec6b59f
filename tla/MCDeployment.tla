---------------------------- MODULE MCDeployment ----------------------------
(***************************************************************************)
(* Deployment with releases that all ship the same camera patch.           *)
(***************************************************************************)
EXTENDS Deployment

MCCameraOf == [release \in Proxies |-> CHOOSE camera \in Cameras : TRUE]

=============================================================================

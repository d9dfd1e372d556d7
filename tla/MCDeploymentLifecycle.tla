------------------------ MODULE MCDeploymentLifecycle ------------------------
(* DeploymentLifecycle for TLC, with deployments as model values. *)
EXTENDS DeploymentLifecycle

CONSTANTS d1, d2

=============================================================================

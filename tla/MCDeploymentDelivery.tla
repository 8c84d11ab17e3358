------------------------ MODULE MCDeploymentDelivery ------------------------
(* Model-checking instance of DeploymentDelivery. *)
EXTENDS DeploymentDelivery

=============================================================================

---------------------------- MODULE MCDeployment ----------------------------
(* Model-checking instance of Deployment. *)
EXTENDS DeploymentRefinement, TLC

Symmetry == Permutations(Workers) \cup Permutations(Completers) \cup Permutations(Runs)
                \cup Permutations(AssessmentIds)

=============================================================================

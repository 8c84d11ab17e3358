-------------------------- MODULE MCWorkflowOutbox --------------------------
(* Model-checking instance of WorkflowOutbox. *)
EXTENDS WorkflowOutbox, TLC

Symmetry == Permutations(Dispatchers) \cup Permutations(Messages)

=============================================================================

----------------------------- MODULE MCWorkflow -----------------------------
(* Model values and small instances for Workflow. *)
EXTENDS Workflow, TLC

\* Requests are interchangeable.  (Only the safety runs use it.)
Symmetry == Permutations(Worker)
=============================================================================

----------------------------- MODULE MCWorkflow -----------------------------
(* Small instances of Workflow for TLC. *)
EXTENDS Workflow, TLC

\* Workers and versions are interchangeable: neither is ever ordered.
WorkersAndVersions == Permutations(Worker) \cup Permutations(Version)
=============================================================================

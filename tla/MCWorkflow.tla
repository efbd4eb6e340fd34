------------------------------ MODULE MCWorkflow ------------------------------
(* Four requests on a case of two revisions; the requests are alike.           *)
EXTENDS Workflow, TLC

Symmetry == Permutations(Calls)
===============================================================================

----------------------------- MODULE MCSubmission -----------------------------
(* Small instances of Submission for TLC. *)
EXTENDS SubmissionInvariant, TLC

(* Attempts, lookups and runners are interchangeable. *)
Symmetry == Permutations(Attempts) \cup Permutations(Workers)
===============================================================================

-------------------------------- MODULE MCStore -------------------------------
(* Two commands on three records, of which a command can write two. *)
EXTENDS Store, TLC

Symmetry == Permutations(Txns) \cup Permutations(Records)
===============================================================================

-------------------------------- MODULE MCUpload ------------------------------
(* Two residents with a key each, and limits that they can reach.              *)
EXTENDS Upload, TLC

CONSTANTS r1, r2, k1, k2

MCOwner == (k1 :> r1) @@ (k2 :> r2)

MCLimit == (r1 :> 1) @@ (r2 :> 1) @@ (Workspace :> 1)

MCReportLimit == (r1 :> 1) @@ (r2 :> 1) @@ (Workspace :> 2)

Symmetry == Permutations(Calls)
===============================================================================

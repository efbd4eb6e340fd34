------------------------------- MODULE MCPortal -------------------------------
(* Two attempts whose receipt keys collide, and two payloads that the  *)
(* form cannot tell apart (they differ in their hash only).                   *)
EXTENDS Portal, TLC

CONSTANTS a1, a2, k1, p1, p2, f1, f2, x1, x2

MCReceiptKey == (a1 :> k1) @@ (a2 :> k1)

MCFormOf == (p1 :> f1) @@ (p2 :> f1)

MCPhotosOf == (f1 :> {x1, x2}) @@ (f2 :> {x1})

(* Requests and clerks are interchangeable, and so are transfers and photos. *)
Symmetry == Permutations(Requests) \cup Permutations(Clerks) \cup Permutations(Grants)
===============================================================================

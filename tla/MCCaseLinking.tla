---------------------------- MODULE MCCaseLinking -----------------------------
(* An observation of one resident and two of another, all in reach of each     *)
(* other; the first is routed, the others are handed off.                      *)
EXTENDS CaseLinking

CONSTANTS r1, r2, a, b, b2

MCAuthor == [o \in Observations |-> IF o = a THEN r1 ELSE r2]

MCShare == [text \in Observations \X (1 .. MaxRevision) |->
              IF text[1] = a THEN "report" ELSE "photos"]

MCVague == {<<a, 1>>}

MCNear == {{o, p} : o, p \in Observations}

Live == {q \in DOMAIN jobs : jobs[q].status = "live"}

(* Commands about photos are not combined with faults, with a case that is     *)
(* fixed, or with followers that leave.  Only the first case is fixed or left. *)
FirstIsTried ==
    /\ \A k \in CaseIds \ {1} : ~cases[k].fixed /\ {m \in members : m[1] = k} \subseteq followers
    /\ faults > 0 => members = followers
    /\ (\E m \in agreed : m[2] = "command") =>
          faults = 0 /\ members = followers /\ \A k \in CaseIds : ~cases[k].fixed

(* The second observation of a resident comes to a case that holds the first,  *)
(* is shared and not disputed, when nothing else is under way.                 *)
Latecomer ==
    b2 \in DOMAIN obs =>
        /\ faults = 0 /\ Len(cases) = 1 /\ ~cases[1].fixed /\ cases[1].shared
        /\ Linked(a) /\ b \in DOMAIN obs /\ obs[b].text = 1 /\ obs[b].analysis = 1
        /\ Linked(b) \/ obs[b].version = 2
        /\ \A m \in agreed : m[2] = "decision"
        /\ \A q \in Live : q.obs = b2
        /\ Cardinality(Live) <= 1

Sym == Permutations(Runners)
====

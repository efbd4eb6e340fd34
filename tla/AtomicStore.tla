----------------------------- MODULE AtomicStore ------------------------------
(***************************************************************************)
(* What `with store.atomic(workspace)` promises to a command that writes:  *)
(* it reads and writes the workspace in one step, or leaves it alone.      *)
(***************************************************************************)
CONSTANTS Txns, Records, Values, Pending

VARIABLES
    items, \* the value of each record
    done   \* what each transaction has read and written, or Pending

vars == <<items, done>>

Init ==
    /\ items \in [Records -> Values]
    /\ done = [t \in Txns |-> Pending]

Take(t, K, W, new) ==
    /\ done' = [done EXCEPT ![t] = [reads  |-> {<<k, items[k]>> : k \in K},
                                    writes |-> [k \in W |-> new[k]]]]
    /\ items' = [k \in Records |-> IF k \in W THEN new[k] ELSE items[k]]

Next ==
    \E t \in Txns :
        /\ done[t] = Pending
        /\ done'[t] # Pending
        /\ \E K, W \in SUBSET Records : \E new \in [W -> Values] : Take(t, K, W, new)

Spec == Init /\ [][Next]_vars
===============================================================================

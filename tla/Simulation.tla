------------------------------ MODULE Simulation ------------------------------
(***************************************************************************)
(* What a resident may rely on when they approve a simulated call, with no *)
(* worker, caption, session or timer in it: an approval is good for one    *)
(* call, one call goes on at a time, and how a call ended is settled once. *)
(***************************************************************************)
CONSTANTS Envelopes, Runs

VARIABLES
    approval, \* of each envelope: none yet, given, or over: used or withdrawn
    call,     \* how each call stands
    heard     \* calls in progress that have been played to their end

vars == <<approval, call, heard>>

Outcomes == {"COMPLETED", "ENDED", "INTERRUPTED"}

Init ==
    /\ approval = [e \in Envelopes |-> "none"]
    /\ call = [v \in Runs |-> "none"]
    /\ heard = {}

Approve(e) ==
    /\ approval[e] = "none"
    /\ approval' = [approval EXCEPT ![e] = "given"]
    /\ UNCHANGED <<call, heard>>

(* Whatever it was given for is replaced, or the envelope itself.            *)
Withdraw(e) ==
    /\ approval' = [approval EXCEPT ![e] = "over"]
    /\ UNCHANGED <<call, heard>>

Begin(v, e) ==
    /\ call[v] = "none" /\ \A u \in Runs : call[u] # "active"
    /\ approval[e] = "given"
    /\ approval' = [approval EXCEPT ![e] = "over"]
    /\ call' = [call EXCEPT ![v] = "active"]
    /\ UNCHANGED heard

Hear(v) ==
    /\ call[v] = "active"
    /\ heard' = heard \cup {v}
    /\ UNCHANGED <<approval, call>>

Fail(v) ==
    /\ call[v] = "active"
    /\ call' = [call EXCEPT ![v] = "FAILED"]
    /\ heard' = heard \ {v}
    /\ UNCHANGED approval

(* A call that failed may be put away as ended, but was never completed.     *)
End(v, outcome) ==
    /\ call[v] \in {"active", "FAILED"}
    /\ outcome = "COMPLETED" => v \in heard
    /\ call' = [call EXCEPT ![v] = outcome]
    /\ heard' = heard \ {v}
    /\ UNCHANGED approval

Next ==
    \/ \E e \in Envelopes : Approve(e) \/ Withdraw(e) \/ \E v \in Runs : Begin(v, e)
    \/ \E v \in Runs : Hear(v) \/ Fail(v) \/ \E outcome \in Outcomes : End(v, outcome)

Spec == Init /\ [][Next]_vars
===============================================================================

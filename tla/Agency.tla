-------------------------------- MODULE Agency --------------------------------
(***************************************************************************)
(* What a submission workflow and its agency agree on, with no page, POST, *)
(* receipt key, race or status in it: a payload is handed over for an      *)
(* attempt, at most one payload of an attempt is accepted, for good, and   *)
(* what is answered with a receipt is that one.  Portal implements it as   *)
(* the agency, Submission as the one that relies on it.                    *)
(***************************************************************************)
CONSTANTS Attempts, Payloads

VARIABLES
    transfers,  \* what was handed over: pairs of an attempt and a payload
    accepted,   \* what the agency holds a ticket for
    answered    \* what it has answered with the receipt

vars == <<transfers, accepted, answered>>

Init == transfers = {} /\ accepted = {} /\ answered = {}

Transfer(a, p) ==
    /\ transfers' = transfers \cup {<<a, p>>}
    /\ UNCHANGED <<accepted, answered>>

Accept(a, p) ==
    /\ <<a, p>> \in transfers
    /\ \A q \in Payloads : <<a, q>> \notin accepted
    /\ accepted' = accepted \cup {<<a, p>>}
    /\ UNCHANGED <<transfers, answered>>

Answer(a, p) ==
    /\ <<a, p>> \in accepted
    /\ answered' = answered \cup {<<a, p>>}
    /\ UNCHANGED <<transfers, accepted>>

Next == \E a \in Attempts, p \in Payloads : Transfer(a, p) \/ Accept(a, p) \/ Answer(a, p)

Spec == Init /\ [][Next]_vars

-------------------------------------------------------------------------------

(* An attempt has one ticket, for a payload that was handed over for it, and *)
(* its receipt is for that payload.                                          *)
OneTicket ==
    /\ accepted \subseteq transfers
    /\ answered \subseteq accepted
    /\ \A a \in Attempts, p, q \in Payloads : <<a, p>> \in accepted /\ <<a, q>> \in accepted => p = q
===============================================================================

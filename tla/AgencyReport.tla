----------------------------- MODULE AgencyReport -----------------------------
(***************************************************************************)
(* What the submission workflow promises about one incident, with no       *)
(* worker, lease, transaction or crash in it: one attempt at a time is     *)
(* reserved, a reservation that has been sent is never given up, it is     *)
(* sent at most once, and the ticket the incident follows is the one the   *)
(* agency issued for it.                                                   *)
(***************************************************************************)
CONSTANTS Attempts, NoAttempt

VARIABLES
    current,   \* the attempt the incident is reserved for, or NoAttempt
    sent,      \* attempts submitted to the agency
    accepted,  \* attempts the agency has a ticket for
    known      \* the attempt whose ticket the incident follows, or NoAttempt

vars == <<current, sent, accepted, known>>

Init ==
    /\ current = NoAttempt
    /\ sent = {}
    /\ accepted = {}
    /\ known = NoAttempt

Reserve(a) ==
    /\ current = NoAttempt
    /\ a \notin sent
    /\ current' = a
    /\ UNCHANGED <<sent, accepted, known>>

Release ==
    /\ current # NoAttempt
    /\ current \notin sent
    /\ current' = NoAttempt
    /\ UNCHANGED <<sent, accepted, known>>

Send(a) ==
    /\ current = a
    /\ a \notin sent
    /\ sent' = sent \cup {a}
    /\ UNCHANGED <<current, accepted, known>>

Accept(a) ==
    /\ a \in sent
    /\ accepted' = accepted \cup {a}
    /\ UNCHANGED <<current, sent, known>>

Learn(a) ==
    /\ known = NoAttempt
    /\ current = a
    /\ a \in accepted
    /\ known' = a
    /\ UNCHANGED <<current, sent, accepted>>

Next ==
    \/ Release
    \/ \E a \in Attempts : Reserve(a) \/ Send(a) \/ Accept(a) \/ Learn(a)

Spec == Init /\ [][Next]_vars

-------------------------------------------------------------------------------

(* At most one report of the incident is ever sent, hence at most one ticket *)
(* exists, and the ticket followed is that one.                              *)
OneReport ==
    /\ sent \subseteq {current}
    /\ accepted \subseteq sent
    /\ known # NoAttempt => known \in accepted
===============================================================================

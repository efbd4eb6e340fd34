-------------------------- MODULE SubmissionInvariant --------------------------
(***************************************************************************)
(* The inductive invariants behind the safety properties of Submission.    *)
(* ClickInv needs nothing but the lease token; CustodyInv also needs that  *)
(* a lease outlives the run it covers.                                     *)
(***************************************************************************)
EXTENDS Submission

Busy(w) == ~At(w, "idle")

SubmitSteps == {"prepared", "authorized", "clicked", "receipt", "unknown", "refused"}
LookupSteps == {"looking", "found"}

(* A busy runner holds a token that was handed out for a job that exists.    *)
RunnersOk ==
    \A w \in Workers :
        /\ At(w, "idle") <=> workers[w].job = NoJob
        /\ Busy(w) => /\ jobs[workers[w].job].status \notin {"absent", "pending"}
                      /\ workers[w].token <= jobs[workers[w].job].claims
        /\ workers[w].pc \in SubmitSteps => workers[w].job \in Attempts
        /\ workers[w].pc \in LookupSteps => workers[w].job \in Lookups
        /\ At(w, "refused") => workers[w].result \in Refusals
        /\ At(w, "returned") => workers[w].result \in Outcomes

(* No token is handed out twice.                                             *)
TokensUnique ==
    \A v, w \in Workers :
        v # w /\ Busy(v) /\ workers[v].job = workers[w].job =>
            workers[v].token # workers[w].token

(* A job is about an attempt that exists.                                    *)
JobsOk ==
    /\ \A a \in Attempts : jobs[a].status = "absent" <=> attempts[a].status = "UNUSED"
    /\ \A j \in Jobs : jobs[j].status # "absent" =>
          jobs[j].attempt \in Attempts /\ attempts[jobs[j].attempt].status # "UNUSED"
    /\ \A a \in Attempts : jobs[a].status # "absent" => jobs[a].attempt = a

IncidentOk ==
    /\ incident.attempt \in Attempts => attempts[incident.attempt].status # "UNUSED"
    /\ incident.attempt = NoAttempt =>
          incident.status \notin Reserved /\ \A a \in Attempts : attempts[a].status = "UNUSED"

(* Nothing has been done for a job that was never claimed.                   *)
PendingUntouched ==
    \A a \in Attempts : jobs[a].status = "pending" =>
        clicks[a] = 0 /\ (attempts[a].status = "IN_FLIGHT" => ~attempts[a].writeStarted)

(* Nobody can pass before_write for this attempt any more: it is closed, or  *)
(* started by the holder of the current token, which is past before_write.   *)
Spent(a) ==
    \/ attempts[a].status \notin {"UNUSED", "IN_FLIGHT"}
    \/ /\ attempts[a].writeStarted
       /\ attempts[a].status = "IN_FLIGHT"
       /\ \A w \in Workers : workers[w].job = a /\ workers[w].pc \in {"claimed", "prepared"}
                                => ~Holds(w)

ClicksOk ==
    \A a \in Attempts :
        /\ clicks[a] <= 1
        /\ clicks[a] > 0 => Spent(a)
        /\ \A w \in Workers : workers[w].job = a /\ At(w, "authorized") =>
              /\ Spent(a)
              /\ clicks[a] = 0
              /\ \A v \in Workers \ {w} : workers[v].job = a => ~At(v, "authorized")

(* Receipts are for what was sent and accepted.                              *)
ReceiptsOk ==
    /\ posts \cup tickets \subseteq Sent
    /\ \A w \in Workers : workers[w].pc \in {"receipt", "found"} => Target(w) \in tickets
    /\ TicketIsIssued

ClickInv ==
    TypeOK /\ RunnersOk /\ TokensUnique /\ JobsOk /\ IncidentOk /\ PendingUntouched
           /\ ClicksOk /\ ReceiptsOk

-------------------------------------------------------------------------------

(* A busy runner holds the current token, and its lease has not run out; only*)
(* a settlement whose answer was lost leaves it without.                     *)
Exclusive ==
    \A w \in Workers : Busy(w) =>
        /\ Holds(w)
        /\ \/ jobs[workers[w].job].status = "running" /\ jobs[workers[w].job].leased
           \/ jobs[workers[w].job].status = "completed" /\ At(w, "erred")

(* A started attempt is the incident's, approved, and keeps it reserved.     *)
StartedIsReserved ==
    \A a \in Attempts : attempts[a].writeStarted =>
        /\ incident.attempt = a
        /\ incident.status \in Reserved
        /\ incident.draft = attempts[a].draft
        /\ attempts[a].status \in Reserved
        /\ approvals[a] = "RESERVED"
        /\ jobs[a].status # "pending"

SentIsStarted ==
    /\ \A a \in Sent : attempts[a].writeStarted
    /\ \A w \in Workers : At(w, "authorized") => attempts[Target(w)].writeStarted
    /\ \A w \in Workers : workers[w].job \in Attempts =>
          /\ workers[w].pc \in {"claimed", "prepared"} => ~attempts[Target(w)].writeStarted
          /\ At(w, "refused") => Target(w) \notin Sent
          /\ workers[w].pc \in {"prepared", "refused"} =>
                attempts[Target(w)].status \in {"IN_FLIGHT", "CANCELLED"}

(* A runner's copy of the attempt agrees with the record where it matters.   *)
ViewsOk ==
    \A w \in Workers : workers[w].pc \in SubmitSteps \cup LookupSteps =>
        /\ workers[w].view.draft = attempts[Target(w)].draft
        /\ ~At(w, "looking") /\ workers[w].view.writeStarted =>
              attempts[Target(w)].writeStarted
        /\ ~At(w, "refused") /\ attempts[Target(w)].writeStarted =>
              workers[w].view.writeStarted

(* While the incident is in flight nobody looks up its attempt's receipt.    *)
LookupsOk ==
    \A r \in Lookups : jobs[r].status # "absent" /\ jobs[r].attempt = incident.attempt =>
        incident.status # "IN_FLIGHT"

InFlightIsApproved ==
    \A a \in Attempts : attempts[a].status = "IN_FLIGHT" => approvals[a] = "RESERVED"

CustodyInv ==
    Exclusive /\ StartedIsReserved /\ SentIsStarted /\ ViewsOk /\ LookupsOk
              /\ InFlightIsApproved /\ ReservationConsistent /\ ConfirmedIsOwn
===============================================================================

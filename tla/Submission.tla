------------------------------ MODULE Submission ------------------------------
(***************************************************************************)
(* The submission workflow of one incident: services/api/domain.py (the    *)
(* commands make_draft, approve, cancel, reconcile and the job runner      *)
(* claim_job, run_job, execute_submission), the browser of                 *)
(* services/worker/browser.py and the receiving portal as the browser sees *)
(* it.                                                                     *)
(*                                                                         *)
(* Every `with self.authorized / self.job_transaction / store.atomic`      *)
(* block is one atomic step: SQLite runs it under BEGIN IMMEDIATE and      *)
(* DynamoDB under the workspace revision guard (module Store).  Between    *)
(* two blocks a worker holds only what it read: its copy of the attempt    *)
(* (`view`) and the lease token it was given (`token`).                    *)
(***************************************************************************)
EXTENDS Naturals

CONSTANTS
    Attempts,            \* attempt identifiers; the submit job of attempt a is job a
    Lookups,             \* identifiers of the reconcile jobs
    Workers,             \* concurrent runners: local worker processes or Lambda invocations
    NoAttempt, NoJob,    \* absent identifiers
    MaxDrafts,           \* bound on report revisions
    MaxClaims,           \* bound on claims of one job, hence on crashes
    MaintenancePossible, \* AWS mode: an administrator may close admission
    LeaseCoversRun       \* lease_seconds exceeds the longest run of a job

Jobs == Attempts \cup Lookups

ASSUME ConstantsAssumption ==
    /\ Attempts \cap Lookups = {}
    /\ NoAttempt \notin Attempts
    /\ NoJob \notin Jobs
    /\ MaxDrafts \in Nat \ {0}
    /\ MaxClaims \in Nat \ {0}
    /\ MaintenancePossible \in BOOLEAN
    /\ LeaseCoversRun \in BOOLEAN

VARIABLES
    incident,  \* the incident record: status, draft, attempt, ticket, polls
    expired,   \* revisions whose preview, hence whose approval, has expired
    attempts,  \* the attempt records
    approvals, \* the status of the approval reserved for each attempt
    jobs,      \* the job records, the operation record of the same id included
    workers,   \* where each runner is and what it holds in memory
    admission, \* the workspace admits commands and job transactions
    posts,     \* attempts whose form POST has left the browser and is not answered
    tickets,   \* attempts for which the portal holds a ticket
    clicks     \* history: how often the submit button was clicked for each attempt

vars == <<incident, expired, attempts, approvals, jobs, workers, admission,
          posts, tickets, clicks>>
agency == <<posts, tickets, clicks>>

-------------------------------------------------------------------------------
(* Types *)

Reserved == {"IN_FLIGHT", "RECEIPT_CONFIRMED", "OUTCOME_UNKNOWN"}

Refusals == {"HANDOFF_REQUIRED", "FAILED_BEFORE_SUBMISSION"}

Outcomes == Reserved \cup Refusals \cup {"CANCELLED"}

IncidentRecord ==
    [status  : Outcomes \cup {"AWAITING_APPROVAL"},
     draft   : Nat,
     attempt : Attempts \cup {NoAttempt},
     ticket  : Attempts \cup {NoAttempt},
     polls   : Nat]

AttemptRecord ==
    [status : Outcomes \cup {"UNUSED"}, writeStarted : BOOLEAN, draft : Nat]

JobRecord ==
    [status  : {"absent", "pending", "running", "completed", "failed"},
     leased  : BOOLEAN,
     claims  : Nat,
     attempt : Attempts \cup {NoAttempt},
     result  : Outcomes \cup {"none"}]

WorkerRecord ==
    [pc     : {"idle", "claimed", "prepared", "authorized", "clicked", "receipt",
               "unknown", "refused", "looking", "found", "returned", "erred"},
     job    : Jobs \cup {NoJob},
     token  : Nat,
     view   : AttemptRecord,
     result : Outcomes \cup {"none"}]

TypeOK ==
    /\ incident \in IncidentRecord
    /\ expired \subseteq Nat
    /\ attempts \in [Attempts -> AttemptRecord]
    /\ approvals \in [Attempts -> {"none", "RESERVED", "CANCELLED"}]
    /\ jobs \in [Jobs -> JobRecord]
    /\ workers \in [Workers -> WorkerRecord]
    /\ admission \in BOOLEAN
    /\ posts \subseteq Attempts
    /\ tickets \subseteq Attempts
    /\ clicks \in [Attempts -> Nat]

-------------------------------------------------------------------------------
(* A confirmed decision has just created the incident with its first report  *)
(* revision (execute_job, kind "decide", calls make_draft).                  *)

UnusedAttempt == [status |-> "UNUSED", writeStarted |-> FALSE, draft |-> 0]

AbsentJob == [status |-> "absent", leased |-> FALSE, claims |-> 0,
              attempt |-> NoAttempt, result |-> "none"]

IdleWorker == [pc |-> "idle", job |-> NoJob, token |-> 0,
               view |-> UnusedAttempt, result |-> "none"]

Init ==
    /\ incident = [status |-> "AWAITING_APPROVAL", draft |-> 1,
                   attempt |-> NoAttempt, ticket |-> NoAttempt, polls |-> 0]
    /\ expired = {}
    /\ attempts = [a \in Attempts |-> UnusedAttempt]
    /\ approvals = [a \in Attempts |-> "none"]
    /\ jobs = [j \in Jobs |-> AbsentJob]
    /\ workers = [w \in Workers |-> IdleWorker]
    /\ admission = TRUE
    /\ posts = {}
    /\ tickets = {}
    /\ clicks = [a \in Attempts |-> 0]

-------------------------------------------------------------------------------
(* Commands of the reporting resident *)

(* make_draft: a fresh revision replaces the current one unless the case is  *)
(* reserved.                                                                 *)
CreateDraft ==
    /\ admission
    /\ incident.status \notin Reserved
    /\ incident.draft < MaxDrafts
    /\ incident' = [incident EXCEPT !.draft = @ + 1, !.status = "AWAITING_APPROVAL"]
    /\ UNCHANGED <<expired, attempts, approvals, jobs, workers, admission, agency>>

(* Mutant of ApproveAllowed: an unknown outcome does not reserve the case.   *)
ApproveAllowedWhileUnknown ==
    incident.status \notin {"IN_FLIGHT", "RECEIPT_CONFIRMED", "CANCELLED"}

ApproveAllowed == incident.status \notin Reserved \cup {"CANCELLED"}

(* approve: reserves the attempt and enqueues its submit job in one          *)
(* transaction.  A repeated approval of a reserved case returns the earlier  *)
(* operation and changes nothing.                                            *)
Approve(a) ==
    /\ admission
    /\ attempts[a].status = "UNUSED"
    /\ incident.draft \notin expired
    /\ ApproveAllowed
    /\ attempts' = [attempts EXCEPT ![a] =
         [status |-> "IN_FLIGHT", writeStarted |-> FALSE, draft |-> incident.draft]]
    /\ approvals' = [approvals EXCEPT ![a] = "RESERVED"]
    /\ jobs' = [jobs EXCEPT ![a] = [AbsentJob EXCEPT !.status = "pending", !.attempt = a]]
    /\ incident' = [incident EXCEPT !.attempt = a, !.status = "IN_FLIGHT"]
    /\ UNCHANGED <<expired, workers, admission, agency>>

(* Mutant of CancelAllowed: looks at the incident, not at the started write. *)
CancelAllowedUntilConfirmed == incident.status # "RECEIPT_CONFIRMED"

CancelAllowed ==
    \A a \in Attempts : a = incident.attempt => ~attempts[a].writeStarted

(* cancel: refused once the agency write has begun, and only then.           *)
Cancel ==
    /\ admission
    /\ CancelAllowed
    /\ attempts' = [a \in Attempts |->
         IF a = incident.attempt THEN [attempts[a] EXCEPT !.status = "CANCELLED"]
                                 ELSE attempts[a]]
    /\ approvals' = [a \in Attempts |->
         IF a = incident.attempt THEN "CANCELLED" ELSE approvals[a]]
    /\ incident' = [incident EXCEPT !.status = "CANCELLED"]
    /\ UNCHANGED <<expired, jobs, workers, admission, agency>>

(* reconcile: enqueues a receipt lookup for the current attempt.             *)
Reconcile(r) ==
    /\ admission
    /\ jobs[r].status = "absent"
    /\ incident.status = "OUTCOME_UNKNOWN"
    /\ jobs' = [jobs EXCEPT ![r] =
         [AbsentJob EXCEPT !.status = "pending", !.attempt = incident.attempt]]
    /\ UNCHANGED <<incident, expired, attempts, approvals, workers, admission, agency>>

-------------------------------------------------------------------------------
(* Claiming a job *)

(* Mutant of Claimable: a job whose runner vanished is never claimed again.  *)
ClaimableOnce(j) == jobs[j].status = "pending" /\ ~jobs[j].leased

Claimable(j) == jobs[j].status \in {"pending", "running"} /\ ~jobs[j].leased

(* Mutant of Interrupted: recovery does not look at write_started.           *)
InterruptedNever == {}

(* Submit jobs whose runner vanished after the write may have started.       *)
Interrupted ==
    {a \in Attempts : /\ Claimable(a)
                      /\ jobs[a].status = "running"
                      /\ attempts[a].writeStarted}

(* claim_job: one transaction walks the pending jobs (or the one it is       *)
(* given).  Interrupted ones it meets are closed as OUTCOME_UNKNOWN without  *)
(* being run; the first other claimable one is leased under a new token.     *)
ClaimJob(w, S, j) ==
    /\ admission
    /\ workers[w].pc = "idle"
    /\ S \subseteq Interrupted
    /\ S # {} \/ j # NoJob
    /\ j # NoJob => Claimable(j) /\ j \notin Interrupted /\ jobs[j].claims < MaxClaims
    /\ attempts' = [a \in Attempts |->
         IF a \in S THEN [attempts[a] EXCEPT !.status = "OUTCOME_UNKNOWN"]
                    ELSE attempts[a]]
    /\ incident' = IF S = {} THEN incident
                   ELSE [incident EXCEPT !.status = "OUTCOME_UNKNOWN"]
    /\ jobs' = [k \in Jobs |->
         IF k \in S
         THEN [jobs[k] EXCEPT !.status = "completed", !.result = "OUTCOME_UNKNOWN"]
         ELSE IF k = j
         THEN [jobs[k] EXCEPT !.status = "running", !.leased = TRUE, !.claims = @ + 1]
         ELSE jobs[k]]
    /\ workers' = IF j = NoJob THEN workers
                  ELSE [workers EXCEPT ![w] =
                    [IdleWorker EXCEPT !.pc = "claimed", !.job = j,
                                       !.token = jobs[j].claims + 1]]
    /\ UNCHANGED <<expired, approvals, admission, agency>>

-------------------------------------------------------------------------------
(* Running a job.  At(w, pc) is the guard; Goto moves the runner on.         *)

At(w, pc) == workers[w].pc = pc

Goto(w, pc, result) ==
    workers' = [workers EXCEPT ![w] = [@ EXCEPT !.pc = pc, !.result = result]]

(* The runner moves on with a copy of the attempt record.                    *)
Keep(w, pc, record) ==
    workers' = [workers EXCEPT ![w] = [@ EXCEPT !.pc = pc, !.view = record]]

(* execute_job returns or raises; its local copy of the attempt is gone.     *)
Return(w, result) ==
    workers' = [workers EXCEPT ![w] = [@ EXCEPT
        !.pc = "returned", !.view = UnusedAttempt, !.result = result]]

Raise(w) ==
    workers' = [workers EXCEPT ![w] = [@ EXCEPT
        !.pc = "erred", !.view = UnusedAttempt, !.result = "none"]]

(* A transaction has committed, but its answer may be lost on the way back:  *)
(* the command then raises although its writes are durable.                  *)
Committed(w, result) == Return(w, result) \/ Raise(w)

(* The attempt a runner's job is about.                                      *)
Target(w) == jobs[workers[w].job].attempt

Holds(w) == jobs[workers[w].job].claims = workers[w].token

Write(a, record) == attempts' = [attempts EXCEPT ![a] = record]

SetStatus(status) == incident' = [incident EXCEPT !.status = status]

(* Mutants of CloseAttempt: one of its two records is forgotten.             *)
CloseAttemptOnly(a, status) ==
    Write(a, [attempts[a] EXCEPT !.status = status]) /\ UNCHANGED incident
CloseIncidentOnly(a, status) == SetStatus(status) /\ UNCHANGED attempts

CloseAttempt(a, status) ==
    Write(a, [attempts[a] EXCEPT !.status = status]) /\ SetStatus(status)

(* execute_submission, first transaction: the attempt must still be in       *)
(* flight, its approval unexpired and its revision the current one, and the  *)
(* attachments must match their hashes.                                      *)
PrepareSubmission(w) ==
    /\ At(w, "claimed") /\ workers[w].job \in Attempts /\ admission
    /\ LET a    == Target(w)
           gone == attempts[a].status = "CANCELLED" \/ incident.status = "CANCELLED"
           live == ~gone /\ attempts[a].status = "IN_FLIGHT"
       IN  \/ /\ gone
              /\ Return(w, "CANCELLED")
              /\ UNCHANGED <<incident, attempts>>
           \/ /\ ~gone /\ ~live
              /\ Return(w, attempts[a].status)
              /\ UNCHANGED <<incident, attempts>>
           \/ /\ live /\ attempts[a].draft \in expired
              /\ CloseAttempt(a, "FAILED_BEFORE_SUBMISSION")
              /\ Committed(w, "FAILED_BEFORE_SUBMISSION")
           \/ /\ live /\ attempts[a].draft \notin expired
              /\ Raise(w)  \* stale revision or changed attachment
              /\ UNCHANGED <<incident, attempts>>
           \/ /\ live /\ attempts[a].draft \notin expired
              /\ incident.draft = attempts[a].draft
              /\ Keep(w, "prepared", attempts[a])
              /\ UNCHANGED <<incident, attempts>>
    /\ UNCHANGED <<expired, approvals, jobs, admission, agency>>

(* submit_report before the click: a refused destination, form or grant, or  *)
(* any error inside the guarded block (a before_write transaction that fails *)
(* included), stops the browser before sending; an interruption outside it   *)
(* leaves the runner unable to tell.                                         *)
BrowserStops(w) ==
    /\ At(w, "prepared")
    /\ \/ \E state \in Refusals : Goto(w, "refused", state)
       \/ Goto(w, "unknown", "OUTCOME_UNKNOWN")
    /\ UNCHANGED <<incident, expired, attempts, approvals, jobs, admission, agency>>

(* Mutant of WriteAllowed: any runner of the attempt may write.              *)
WriteAllowedWithoutLease(w) ==
    LET a == Target(w)
    IN  /\ attempts[a].status = "IN_FLIGHT"
        /\ incident.status = "IN_FLIGHT"
        /\ attempts[a].draft \notin expired
        /\ incident.draft = attempts[a].draft

(* Mutant of WriteAllowed: a cancellation since the preparation is missed.   *)
WriteAllowedIfCancelled(w) == Holds(w) /\ attempts[Target(w)].draft \notin expired

WriteAllowed(w) ==
    LET a == Target(w)
    IN  /\ attempts[a].status = "IN_FLIGHT"
        /\ incident.status = "IN_FLIGHT"
        /\ Holds(w)
        /\ attempts[a].draft \notin expired
        /\ incident.draft = attempts[a].draft

(* before_write: the last check before the click, which persists             *)
(* write_started.  If the answer of the commit is lost the browser reports a *)
(* failure before submission.                                                *)
BeforeWrite(w) ==
    /\ At(w, "prepared") /\ admission
    /\ LET a       == Target(w)
           started == [attempts[a] EXCEPT !.writeStarted = TRUE]
       IN  \/ /\ WriteAllowed(w)
              /\ Write(a, started)
              /\ \/ Keep(w, "authorized", started)
                 \/ Goto(w, "refused", "FAILED_BEFORE_SUBMISSION")
           \/ /\ ~WriteAllowed(w)
              /\ Goto(w, "refused", "HANDOFF_REQUIRED")
              /\ UNCHANGED attempts
    /\ UNCHANGED <<incident, expired, approvals, jobs, admission, agency>>

(* The click on "Submit approved report" sends the POST.                     *)
Click(w) ==
    /\ At(w, "authorized")
    /\ workers' = [workers EXCEPT ![w].pc = "clicked"]
    /\ posts' = posts \cup {Target(w)}
    /\ clicks' = [clicks EXCEPT ![Target(w)] = @ + 1]
    /\ UNCHANGED <<incident, expired, attempts, approvals, jobs, admission, tickets>>

(* After the write started the browser either reads the receipt page or      *)
(* fails (crash, time-out, lost receipt), which proves nothing either way.   *)
BrowserReturns(w) ==
    /\ \/ /\ At(w, "clicked") /\ Target(w) \in tickets
          /\ Goto(w, "receipt", "RECEIPT_CONFIRMED")
       \/ /\ workers[w].pc \in {"authorized", "clicked"}
          /\ Goto(w, "unknown", "OUTCOME_UNKNOWN")
    /\ UNCHANGED <<incident, expired, attempts, approvals, jobs, admission, agency>>

(* The handler of HandoffRequired and FailedBeforeSubmission writes the      *)
(* runner's own copy of the attempt, write_started cleared, unless the       *)
(* stored attempt was cancelled.                                             *)
HandleRefusal(w) ==
    /\ At(w, "refused") /\ admission
    /\ LET a == Target(w)
       IN  \/ /\ attempts[a].status = "CANCELLED"
              /\ Return(w, "CANCELLED")
              /\ UNCHANGED <<incident, attempts>>
           \/ /\ attempts[a].status # "CANCELLED"
              /\ Write(a, [workers[w].view EXCEPT !.status = workers[w].result,
                                                  !.writeStarted = FALSE])
              /\ SetStatus(workers[w].result)
              /\ Committed(w, workers[w].result)
    /\ UNCHANGED <<expired, approvals, jobs, admission, agency>>

(* The handlers of OutcomeUnknown and of any other interruption call         *)
(* mark_unknown on the runner's own copy of the attempt.                     *)
MarkUnknown(w) ==
    /\ At(w, "unknown") /\ admission
    /\ Write(Target(w), [workers[w].view EXCEPT !.status = "OUTCOME_UNKNOWN"])
    /\ SetStatus("OUTCOME_UNKNOWN")
    /\ Committed(w, "OUTCOME_UNKNOWN")
    /\ UNCHANGED <<expired, approvals, jobs, admission, agency>>

(* Mutant of ReceiptKnown: every receipt found is recorded as the first.     *)
ReceiptNeverKnown == FALSE

ReceiptKnown == incident.ticket # NoAttempt

(* record_receipt, from the browser (a settlement, admitted during           *)
(* maintenance) or from a lookup.  The first receipt is recorded and starts  *)
(* status polling if commands are admitted; a later one changes nothing.     *)
RecordReceipt(w) ==
    /\ At(w, "receipt") \/ (At(w, "found") /\ admission)
    /\ IF ReceiptKnown
       THEN UNCHANGED <<incident, attempts>>
       ELSE /\ Write(Target(w), [workers[w].view EXCEPT !.status = "RECEIPT_CONFIRMED"])
            /\ incident' = [incident EXCEPT !.status = "RECEIPT_CONFIRMED",
                                            !.ticket = Target(w),
                                            !.polls = IF admission THEN @ + 1 ELSE @]
    /\ Committed(w, "RECEIPT_CONFIRMED")
    /\ UNCHANGED <<expired, approvals, jobs, admission, agency>>

(* execute_job, kind "reconcile": read the attempt, ask the portal, record.  *)
ReadAttempt(w) ==
    /\ At(w, "claimed") /\ workers[w].job \in Lookups /\ admission
    /\ Keep(w, "looking", attempts[Target(w)])
    /\ UNCHANGED <<incident, expired, attempts, approvals, jobs, admission, agency>>

LookupReceipt(w) ==
    /\ At(w, "looking")
    /\ \/ Target(w) \in tickets /\ Goto(w, "found", "none")
       \/ Target(w) \notin tickets /\ Return(w, "OUTCOME_UNKNOWN")
       \/ Raise(w)  \* the portal could not be read
    /\ UNCHANGED <<incident, expired, attempts, approvals, jobs, admission, agency>>

(* Any transaction of the run may be refused: admission is closed or, on     *)
(* DynamoDB, another command won the workspace revision.                     *)
TransactionFails(w) ==
    /\ workers[w].pc \in {"claimed", "receipt", "found", "unknown", "refused", "returned"}
    /\ Raise(w)
    /\ UNCHANGED <<incident, expired, attempts, approvals, jobs, admission, agency>>

-------------------------------------------------------------------------------
(* run_job: settling the job under the lease *)

Closed(j, status, result) ==
    jobs' = [jobs EXCEPT ![j].status = status, ![j].leased = FALSE, ![j].result = result]

Release(w) == workers' = [workers EXCEPT ![w] = IdleWorker]

Settle(w) ==
    /\ At(w, "returned")
    /\ \/ /\ Holds(w)
          /\ Closed(workers[w].job, "completed", workers[w].result)
          /\ \/ Release(w)
             \/ Raise(w)  \* committed, answer lost
       \/ /\ ~Holds(w)
          /\ Release(w)
          /\ UNCHANGED jobs
    /\ UNCHANGED <<incident, expired, attempts, approvals, admission, agency>>

(* Mutant of FailureStatus: every failure counts as one before submission.   *)
FailureStatusUnsent(a) == "FAILED_BEFORE_SUBMISSION"

FailureStatus(a) ==
    IF attempts[a].writeStarted THEN "OUTCOME_UNKNOWN" ELSE "FAILED_BEFORE_SUBMISSION"

(* The exception branch: an attempt still in flight is closed as unknown if  *)
(* its write has started and as failed before submission if not.             *)
SettleFailure(w) ==
    /\ At(w, "erred")
    /\ Release(w)
    /\ LET j == workers[w].job
       IN  \/ /\ ~Holds(w)
              /\ UNCHANGED <<incident, attempts, jobs>>
           \/ /\ Holds(w)
              /\ Closed(j, "failed", jobs[j].result)
              /\ IF j \in Attempts /\ attempts[j].status = "IN_FLIGHT"
                 THEN CloseAttempt(j, FailureStatus(j))
                 ELSE UNCHANGED <<incident, attempts>>
    /\ UNCHANGED <<expired, approvals, admission, agency>>

(* The runner dies, or its final settlement fails too: the job stays leased  *)
(* and running.                                                              *)
Abandon(w) ==
    /\ ~At(w, "idle")
    /\ jobs[workers[w].job].claims < MaxClaims
    /\ Release(w)
    /\ UNCHANGED <<incident, expired, attempts, approvals, jobs, admission, agency>>

-------------------------------------------------------------------------------
(* Time, the administrator and the portal *)

ExpireDraft ==
    /\ incident.draft \notin expired
    /\ expired' = expired \cup {incident.draft}
    /\ UNCHANGED <<incident, attempts, approvals, jobs, workers, admission, agency>>

ExpireLease(j) ==
    /\ jobs[j].leased
    /\ LeaseCoversRun => \A w \in Workers : workers[w].job # j
    /\ jobs' = [jobs EXCEPT ![j].leased = FALSE]
    /\ UNCHANGED <<incident, expired, attempts, approvals, workers, admission, agency>>

SetAdmission ==
    /\ MaintenancePossible
    /\ admission' = ~admission
    /\ UNCHANGED <<incident, expired, attempts, approvals, jobs, workers, agency>>

(* The portal keys its ticket by the attempt, so accepting is idempotent     *)
(* (module Portal); a POST may also be rejected or never arrive.             *)
PortalAccepts(a) ==
    /\ a \in posts
    /\ posts' = posts \ {a}
    /\ tickets' = tickets \cup {a}
    /\ UNCHANGED <<incident, expired, attempts, approvals, jobs, workers, admission, clicks>>

PortalRejects(a) ==
    /\ a \in posts
    /\ posts' = posts \ {a}
    /\ UNCHANGED <<incident, expired, attempts, approvals, jobs, workers, admission,
                   tickets, clicks>>

-------------------------------------------------------------------------------

(* What a runner does with the job it has claimed.                           *)
Run(w) ==
    \/ PrepareSubmission(w)
    \/ BrowserStops(w)
    \/ BeforeWrite(w)
    \/ Click(w)
    \/ BrowserReturns(w)
    \/ HandleRefusal(w)
    \/ MarkUnknown(w)
    \/ RecordReceipt(w)
    \/ ReadAttempt(w)
    \/ LookupReceipt(w)
    \/ TransactionFails(w)
    \/ Settle(w)
    \/ SettleFailure(w)

Claim(w) == \E S \in SUBSET Attempts, j \in Jobs \cup {NoJob} : ClaimJob(w, S, j)

Next ==
    \/ CreateDraft
    \/ \E a \in Attempts : Approve(a)
    \/ Cancel
    \/ \E r \in Lookups : Reconcile(r)
    \/ \E w \in Workers : Claim(w) \/ Run(w) \/ Abandon(w)
    \/ ExpireDraft
    \/ \E j \in Jobs : ExpireLease(j)
    \/ SetAdmission
    \/ \E a \in Attempts : PortalAccepts(a) \/ PortalRejects(a)

Spec == Init /\ [][Next]_vars

(* The local worker polls for claimable jobs and runs them to the end, and   *)
(* leases run out.  Nobody is obliged to draft, approve, cancel or           *)
(* reconcile, the portal need not answer, and drafts need not expire.        *)
Fairness ==
    /\ \A w \in Workers : WF_vars(Claim(w)) /\ WF_vars(Run(w))
    /\ \A j \in Jobs : WF_vars(ExpireLease(j))

FairSpec == Spec /\ Fairness

-------------------------------------------------------------------------------
(* Properties *)

Sent == {a \in Attempts : clicks[a] > 0}

(* The submit button is clicked at most once for an attempt, whatever        *)
(* crashes, re-claims of its job and overlapping runners there are: the page *)
(* says "no automatic resubmission".                                         *)
ClickOnce == \A a \in Attempts : clicks[a] <= 1

(* An attempt that may have reached the agency stays the incident's attempt  *)
(* and keeps the incident reserved, so that no second report of the same     *)
(* incident can be approved: there is at most one ticket per incident.       *)
SentStaysReserved ==
    \A a \in Sent : incident.attempt = a /\ incident.status \in Reserved

(* What the resident is told was cancelled, handed off or failed before      *)
(* submission was never sent, and no runner is still about to send it.       *)
ClosedMeansUnsent ==
    \A a \in Attempts : attempts[a].status \in Refusals \cup {"CANCELLED"} =>
        /\ a \notin Sent
        /\ \A w \in Workers : workers[w].job = a => workers[w].pc # "authorized"

(* At the moment of the click the resident's approval still stands: the      *)
(* attempt is the incident's, is marked as started, was not cancelled, and   *)
(* its revision is the current one.                                          *)
ClickIsApproved ==
    [][\A a \in Attempts : clicks'[a] > clicks[a] =>
          /\ incident.attempt = a
          /\ incident.status \in Reserved
          /\ incident.draft = attempts[a].draft
          /\ attempts[a].writeStarted
          /\ approvals[a] = "RESERVED"]_vars

(* An attempt in flight is the incident's one, and the incident is in flight *)
(* only while its attempt is.                                                *)
ReservationConsistent ==
    /\ \A a \in Attempts : attempts[a].status = "IN_FLIGHT" =>
          incident.attempt = a /\ incident.status \in Reserved
    /\ \A a \in Attempts : incident.status = "IN_FLIGHT" /\ incident.attempt = a =>
          attempts[a].status = "IN_FLIGHT"

(* A recorded ticket is one the portal issued, whoever recorded it, and it   *)
(* started at most one chain of status polls.                                *)
TicketIsIssued ==
    /\ incident.ticket # NoAttempt => incident.ticket \in tickets
    /\ incident.polls <= IF incident.ticket = NoAttempt THEN 0 ELSE 1

(* A confirmed incident follows the ticket of its own attempt.               *)
ConfirmedIsOwn ==
    incident.status = "RECEIPT_CONFIRMED" => incident.ticket = incident.attempt

(* Reconciliation settles an unknown outcome: when a receipt lookup          *)
(* completes with a receipt the incident is confirmed.  The documents say so *)
(* (docs/IMPLEMENTATION-CONTRACT.md:21, docs/TEST-REPORT.md:69); the code    *)
(* does not ensure it.                                                       *)
ReconciliationConfirms ==
    [][\A r \in Lookups :
          /\ jobs[r].status = "running"
          /\ jobs'[r].status = "completed"
          /\ jobs'[r].result = "RECEIPT_CONFIRMED"
          => incident'.status = "RECEIPT_CONFIRMED"]_vars

(* A cancelled report leaves that state only by a fresh revision.  The       *)
(* command announces it ("Submission cancelled before any agency write.");   *)
(* the code does not ensure it.                                              *)
CancelledStaysCancelled ==
    [][incident.status = "CANCELLED" =>
          incident'.status \in {"CANCELLED", "AWAITING_APPROVAL"}]_vars

(* Every claimed or pending job is eventually settled, and no approved       *)
(* report stays in flight for ever.                                          *)
JobsSettle ==
    \A j \in Jobs : jobs[j].status \in {"pending", "running"} ~>
                     jobs[j].status \in {"completed", "failed"}

NothingStaysInFlight ==
    \A a \in Attempts : attempts[a].status = "IN_FLIGHT" ~>
                         attempts[a].status # "IN_FLIGHT"

-------------------------------------------------------------------------------
(* The workflow implements its abstract promise.                             *)

Reservation == IF incident.status \in Reserved THEN incident.attempt ELSE NoAttempt

Report == INSTANCE AgencyReport WITH
    current <- Reservation, sent <- Sent, accepted <- tickets, known <- incident.ticket

(* Every step of the workflow is a step of the abstract report or a stutter. *)
ImplementsReport == Report!Spec

(* What it hands over to the agency, and what it knows of it, with the       *)
(* revision that was handed over: the abstraction module Portal implements.   *)
Revisions(S) == {<<a, attempts[a].draft>> : a \in S}

Handover == INSTANCE Agency WITH
    Payloads <- Nat, transfers <- Revisions(Sent), accepted <- Revisions(tickets),
    answered <- Revisions({incident.ticket} \cap Attempts)

(* A revision once sent is neither sent anew nor changed, the agency's       *)
(* ticket is for it, and so is the receipt that the incident follows.        *)
UsesAgency == Handover!Spec
===============================================================================

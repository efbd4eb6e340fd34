------------------------------- MODULE Tracking -------------------------------
(***************************************************************************)
(* Following a confirmed ticket: the check_status jobs of                  *)
(* services/api/domain.py with their runners, record_status, the demo      *)
(* control of the agency's status, verification by residents, and what a   *)
(* submission that was not settled may still write.                        *)
(*                                                                         *)
(* A poll reads the portal between two transactions; the job that records  *)
(* it enqueues the next poll in the same transaction, and is settled in a  *)
(* third one.                                                              *)
(***************************************************************************)
EXTENDS Naturals, Sequences, FiniteSets

CONSTANTS
    Runners,      \* concurrent runners of jobs
    Operators,    \* POSTs to the local demo control of a ticket's status
    Answers,      \* what a resident may verify: looks fixed, still present, unable to tell
    Notes,        \* the closure notes the agency may write
    MaxChecks,    \* max_status_checks, the length of one chain of polls
    MaxRetries,   \* 3, the runs of a check_status job that raises
    MaxHistory,   \* 50, the history kept with a ticket
    MaxJobs,      \* bound on jobs, hence on forked chains
    MaxFaults,    \* bound on crashes and on transactions whose answer is lost
    MaxChanges    \* bound on the changes of status at the portal

ASSUME TrackingAssumption ==
    /\ {MaxChecks, MaxRetries, MaxHistory, MaxJobs} \subseteq Nat \ {0}
    /\ {MaxFaults, MaxChanges} \subseteq Nat
    /\ IsFiniteSet(Runners)
    /\ Answers \cap {"none", "UNVERIFIED", "VERIFICATION_REQUESTED"} = {}

JobIds == 1 .. MaxJobs

Statuses == {"RECEIVED", "OPEN", "CLOSED"}

(* What the portal shows of a ticket.                                        *)
Reading == [status : Statuses, note : Notes \cup {"none"}]

FirstReading == [status |-> "RECEIVED", note |-> "none"]

VARIABLES
    portal,     \* what the agency shows of the ticket, and how often it changed
    incident,   \* agency_status and resolution_status of the incident
    ticket,     \* the recorded ticket: the last reading and the history
    submission, \* whether the job that sent the report is still to be settled
    jobs,       \* the check_status jobs
    runners,    \* where each runner is, and what it holds in memory
    operators,  \* where each demo POST is
    answered,   \* history: the last verification, or "none"
    recorder,   \* history: who recorded the agency status last
    faults      \* history: crashes and lost answers so far

vars == <<portal, incident, ticket, submission, jobs, runners, operators,
          answered, recorder, faults>>
world == <<portal, operators, submission>>
memory == <<runners, jobs, faults>>

-------------------------------------------------------------------------------
(* Types *)

AbsentJob == [status |-> "absent", checks |-> 0, runs |-> 0, leased |-> FALSE]

FirstJob == [AbsentJob EXCEPT !.status = "pending"]

IdleRunner == [pc |-> "idle", job |-> 0, seen |-> FirstReading]

TypeOK ==
    /\ portal \in [shows : Reading, changes : 0 .. MaxChanges]
    /\ incident \in [agency : Statuses \cup {"UNKNOWN"},
                     resolution : Answers \cup {"UNVERIFIED", "VERIFICATION_REQUESTED"}]
    /\ ticket.reading \in Reading
    /\ submission \in {"running", "over"}
    /\ ticket.history \in Seq(Reading) /\ Len(ticket.history) <= MaxHistory
    /\ jobs \in [JobIds -> [status : {"absent", "pending", "running", "completed", "failed"},
                            checks : 0 .. MaxChecks - 1, runs : 0 .. MaxRetries, leased : BOOLEAN]]
    /\ runners \in [Runners -> [pc : {"idle", "claimed", "polled", "recorded", "erred"},
                                job : JobIds \cup {0}, seen : Reading]]
    /\ operators \in [Operators -> [pc : {"new", "set", "done"}, seen : Reading]]
    /\ answered \in Answers \cup {"none"}
    /\ recorder \in {"poll", "demo"}
    /\ faults \in 0 .. MaxFaults

(* record_receipt has just stored the ticket and enqueued the first check;   *)
(* the job that sent the report is not settled yet.                          *)
Init ==
    /\ portal = [shows |-> FirstReading, changes |-> 0]
    /\ incident = [agency |-> "RECEIVED", resolution |-> "UNVERIFIED"]
    /\ ticket = [reading |-> FirstReading, history |-> <<>>]
    /\ submission = "running"
    /\ jobs = [j \in JobIds |-> IF j = 1 THEN FirstJob ELSE AbsentJob]
    /\ runners = [w \in Runners |-> IdleRunner]
    /\ operators = [o \in Operators |-> [pc |-> "new", seen |-> FirstReading]]
    /\ answered = "none"
    /\ recorder = "poll"
    /\ faults = 0

-------------------------------------------------------------------------------
(* record_status *)

Latest(history) ==
    LET n == Len(history)
    IN  IF n > MaxHistory THEN SubSeq(history, n - MaxHistory + 1, n) ELSE history

(* Mutant of IsNews: every poll counts as a change.                          *)
AlwaysNews(reading) == reading \in Reading

(* A new note is news too.                                                   *)
IsNews(reading) == reading # ticket.reading

(* Mutant of ResolutionAfter: a closure asks for verification again.         *)
ResolutionAfterAnyClosure(status) ==
    IF status = "CLOSED" THEN "VERIFICATION_REQUESTED" ELSE incident.resolution

ResolutionAfter(status) ==
    IF status = "CLOSED" /\ incident.resolution = "UNVERIFIED"
    THEN "VERIFICATION_REQUESTED" ELSE incident.resolution

RecordStatus(reading, who) ==
    /\ ticket' = [reading |-> reading,
                  history |-> IF IsNews(reading) THEN Latest(Append(ticket.history, reading))
                              ELSE ticket.history]
    /\ incident' = [agency |-> reading.status, resolution |-> ResolutionAfter(reading.status)]
    /\ recorder' = who
    /\ UNCHANGED answered

-------------------------------------------------------------------------------
(* The check_status job *)

Goto(w, pc) ==
    runners' = [runners EXCEPT ![w] = [@ EXCEPT !.pc = pc, !.seen = FirstReading]]

Fault == faults < MaxFaults /\ faults' = faults + 1

Live(j) == jobs[j].status \in {"pending", "running"}

Claimed(job) ==
    [job EXCEPT !.status = "running", !.leased = TRUE,
                !.runs = IF @ < MaxRetries THEN @ + 1 ELSE @]

(* claim_job; a lease that ran out makes a running job claimable again.      *)
Claim(w, j) ==
    /\ runners[w].pc = "idle"
    /\ Live(j)
    /\ ~jobs[j].leased
    /\ jobs' = [jobs EXCEPT ![j] = Claimed(@)]
    /\ runners' = [runners EXCEPT ![w] = [IdleRunner EXCEPT !.pc = "claimed", !.job = j]]
    /\ UNCHANGED <<world, incident, ticket, answered, recorder, faults>>

(* get_ticket_status answers what the portal shows now, or raises.           *)
Poll(w) ==
    /\ runners[w].pc = "claimed"
    /\ \/ runners' = [runners EXCEPT ![w] = [@ EXCEPT !.pc = "polled", !.seen = portal.shows]]
       \/ Goto(w, "erred")
    /\ UNCHANGED <<world, incident, ticket, jobs, answered, recorder, faults>>

(* Mutant of WantsNext: a ticket the agency has opened is not polled again.  *)
WantsNextWhileReceived(status, j) == status = "RECEIVED" /\ jobs[j].checks + 1 < MaxChecks

WantsNext(status, j) == status # "CLOSED" /\ jobs[j].checks + 1 < MaxChecks

Fresh == {j \in JobIds : jobs[j].status = "absent"}

(* The second transaction of the job: record what was seen and enqueue the   *)
(* next check.  When its answer is lost the runner takes it for a failure.   *)
Record(w) ==
    /\ runners[w].pc = "polled"
    /\ LET reading == runners[w].seen
           j == runners[w].job
       IN  /\ RecordStatus(reading, "poll")
           /\ \/ /\ WantsNext(reading.status, j)
                 /\ Fresh # {}
                 /\ LET k == CHOOSE k \in Fresh : \A i \in Fresh : k <= i
                    IN  jobs' = [jobs EXCEPT ![k] =
                                   [FirstJob EXCEPT !.checks = jobs[j].checks + 1]]
              \/ ~WantsNext(reading.status, j) /\ UNCHANGED jobs
    /\ \/ Goto(w, "recorded") /\ UNCHANGED faults
       \/ Goto(w, "erred") /\ Fault
    /\ UNCHANGED world

(* The second transaction fails and nothing is recorded.                     *)
RecordFails(w) ==
    /\ runners[w].pc = "polled"
    /\ Goto(w, "erred")
    /\ UNCHANGED <<world, incident, ticket, jobs, answered, recorder, faults>>

(* Mutant of Completed: the settled job is left where it was.                *)
CompletedNever(job) == [job EXCEPT !.status = "pending", !.leased = FALSE]

Completed(job) == [job EXCEPT !.status = "completed", !.leased = FALSE]

(* run_job settles the job; the settlement may fail, with or without effect. *)
Settle(w) ==
    /\ runners[w].pc = "recorded"
    /\ \/ /\ jobs' = [jobs EXCEPT ![runners[w].job] = Completed(@)]
          /\ runners' = [runners EXCEPT ![w] = IdleRunner]
          /\ UNCHANGED faults
       \/ /\ Goto(w, "erred") /\ Fault
          /\ \/ UNCHANGED jobs
             \/ jobs' = [jobs EXCEPT ![runners[w].job] = Completed(@)]
    /\ UNCHANGED <<world, incident, ticket, answered, recorder>>

(* Mutant of Retried: a job that raises is tried for ever.                   *)
RetriedAlways(job) == job.runs > 0

Retried(job) == job.runs < MaxRetries

(* The exception branch of run_job: back to pending, or failed for good.     *)
SettleFailure(w) ==
    /\ runners[w].pc = "erred"
    /\ LET j == runners[w].job
       IN  jobs' = [jobs EXCEPT ![j].status = IF Retried(jobs[j]) THEN "pending" ELSE "failed",
                                ![j].leased = FALSE]
    /\ runners' = [runners EXCEPT ![w] = IdleRunner]
    /\ UNCHANGED <<world, incident, ticket, answered, recorder, faults>>

(* The runner dies; its job stays running until the lease runs out.          *)
Crash(w) ==
    /\ runners[w].pc # "idle"
    /\ Fault
    /\ runners' = [runners EXCEPT ![w] = IdleRunner]
    /\ UNCHANGED <<world, incident, ticket, jobs, answered, recorder>>

(* lease_seconds is longer than a poll: only a lease left behind runs out.   *)
ExpireLease(j) ==
    /\ jobs[j].leased
    /\ \A w \in Runners : runners[w].job # j
    /\ jobs' = [jobs EXCEPT ![j].leased = FALSE]
    /\ UNCHANGED <<world, incident, ticket, runners, answered, recorder, faults>>

-------------------------------------------------------------------------------
(* The agency, the demo control, the submission, residents *)

(* What a clerk may put on the ticket: it is never only received again.      *)
Answer == {reading \in Reading : reading.status # "RECEIVED"}

AgencyMoves(reading) ==
    /\ portal.changes < MaxChanges
    /\ reading # portal.shows
    /\ portal' = [shows |-> reading, changes |-> portal.changes + 1]
    /\ UNCHANGED <<memory, incident, ticket, submission, operators, answered, recorder>>

(* ticket_status of the API: sets the status at the portal, then records the *)
(* answer in a transaction of its own.                                       *)
DemoSets(o, reading) ==
    /\ operators[o].pc = "new"
    /\ portal.changes < MaxChanges
    /\ portal' = [shows |-> reading, changes |-> portal.changes + 1]
    /\ operators' = [operators EXCEPT ![o] = [pc |-> "set", seen |-> reading]]
    /\ UNCHANGED <<memory, incident, ticket, submission, answered, recorder>>

DemoRecords(o) ==
    /\ operators[o].pc = "set"
    /\ RecordStatus(operators[o].seen, "demo")
    /\ operators' = [operators EXCEPT ![o].pc = "done"]
    /\ UNCHANGED <<memory, portal, submission>>

(* The runner that stored the receipt settles its job.                       *)
SubmissionSettles ==
    /\ submission = "running"
    /\ submission' = "over"
    /\ UNCHANGED <<memory, portal, incident, ticket, operators, answered, recorder>>

(* mark_unknown: claim_job finds the job running and the write begun, or a   *)
(* runner whose job was taken from it comes back after the receipt was found.*)
SubmissionUnknown ==
    /\ submission = "running"
    /\ submission' = "over"
    /\ incident' = [incident EXCEPT !.agency = "UNKNOWN"]
    /\ UNCHANGED <<memory, portal, ticket, operators, answered, recorder>>

(* verification: a resident's answer is the resolution.                      *)
Verify(answer) ==
    /\ incident' = [incident EXCEPT !.resolution = answer]
    /\ answered' = answer
    /\ UNCHANGED <<memory, world, ticket, recorder>>

RunnerStep(w) ==
    \/ \E j \in JobIds : Claim(w, j)
    \/ Poll(w) \/ Record(w) \/ RecordFails(w) \/ Settle(w) \/ SettleFailure(w)

Next ==
    \/ \E w \in Runners : RunnerStep(w) \/ Crash(w)
    \/ \E j \in JobIds : ExpireLease(j)
    \/ \E reading \in Answer : AgencyMoves(reading) \/ \E o \in Operators : DemoSets(o, reading)
    \/ \E o \in Operators : DemoRecords(o)
    \/ SubmissionSettles \/ SubmissionUnknown
    \/ \E answer \in Answers : Verify(answer)

(* The worker loop keeps claiming and running, and a lease is a matter of    *)
(* time.  Residents, the agency and the demo control owe nothing.            *)
Fairness ==
    /\ \A w \in Runners : WF_vars(RunnerStep(w))
    /\ \A j \in JobIds : WF_vars(ExpireLease(j))

Spec == Init /\ [][Next]_vars /\ Fairness

-------------------------------------------------------------------------------
(* Properties *)

LiveJobs == {j \in JobIds : Live(j)}

(* A second chain of polls needs a fault: a job whose recording committed    *)
(* and which is run again after a crash or a lost answer has enqueued its    *)
(* successor already.  Each such fault adds one chain and no more.           *)
OneChainPerFault == Cardinality(LiveJobs) <= 1 + faults + Cardinality({w \in Runners : runners[w].pc = "recorded"})

(* Polling is not given up while the ticket is not recorded as closed by a   *)
(* poll: there is a job to come, or one failed for good, or the chain has    *)
(* reached its length.  A stale poll recorded over a later one is therefore  *)
(* followed by another, and so is an incident whose agency status was lost.  *)
StatusIsPursued ==
    ticket.reading.status # "CLOSED" /\ recorder = "poll" =>
        \/ LiveJobs # {}
        \/ \E j \in JobIds : jobs[j].status = "failed"
        \/ \E j \in JobIds : jobs[j].status = "completed" /\ jobs[j].checks + 1 = MaxChecks

(* The history ends with what the ticket says, and repeats nothing: a poll   *)
(* repeated by a retry or a second chain is not news, a new note is.  The    *)
(* incident says the same as the ticket, or that its outcome is unknown, and *)
(* that only once the job that sent the report is over.                      *)
HistoryIsNews ==
    LET history == ticket.history
    IN  /\ history # <<>> => history[Len(history)] = ticket.reading
        /\ \A i \in 1 .. Len(history) - 1 : history[i] # history[i + 1]
        /\ incident.agency # ticket.reading.status =>
               incident.agency = "UNKNOWN" /\ submission = "over"

(* Whatever the agency says and in whatever order it is recorded, what a     *)
(* resident answered about the repair stands until a resident answers again. *)
ResolutionIsResidents ==
    IF answered = "none"
    THEN incident.resolution \in {"UNVERIFIED", "VERIFICATION_REQUESTED"}
    ELSE incident.resolution = answered

(* Every chain of polls ends, failing polls and crashes included.            *)
PollingEnds == <>[](LiveJobs = {})
===============================================================================

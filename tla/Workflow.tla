------------------------------- MODULE Workflow -------------------------------
(***************************************************************************)
(* The Step Functions workflow of AWS mode, on one case: an execution runs *)
(* an operation, and after a decision it may wait, with a task token, for  *)
(* the approval of the report's exact revision.  Its handlers are in       *)
(* services/agents/aws_workflow.py, its states in infra/cdk/stack.ts, and  *)
(* the API routes that start and wake it in services/api/main.py.          *)
(* What a submission does is Submission.tla, the status checks that follow *)
(* it are Tracking.tla.                                                    *)
(***************************************************************************)
EXTENDS Naturals

CONSTANTS
    Calls,        \* API requests, each used once
    None,         \* no operation
    MaxOperations, MaxRevisions, \* bounds: operations, revisions of the report
    MaxFaults     \* bound: calls and Lambdas that fail or find admission closed

ASSUME WorkflowAssumption ==
    /\ None \notin Nat
    /\ Calls \cap Nat = {}
    /\ {MaxOperations, MaxFaults} \subseteq Nat
    /\ MaxRevisions \in Nat \ {0}

Operations == 1..MaxOperations

Revisions == 1..MaxRevisions

VARIABLES
    incident,  \* the case: its current revision, status and reserved attempt
    jobs,      \* the persisted operations
    execs,     \* the execution named after each operation
    callbacks, \* the callback record of each revision, with its task token
    threads,   \* API requests, and the registering Lambda of each execution
    unwoken,   \* revisions whose wake-up was cut off since their last approval
    faults     \* faults so far

vars == <<incident, jobs, execs, callbacks, threads, unwoken, faults>>

-------------------------------------------------------------------------------
(* Types *)

Reserved == {"IN_FLIGHT", "SUBMITTED"}

Threads == Calls \cup Operations

JobRecord ==
    [kind : {"none", "decide", "submit"}, status : {"absent", "pending", "running", "completed", "failed"},
     leased : BOOLEAN]

ThreadRecord ==
    [pc : {"idle", "dispatching", "registering", "waking", "sending", "marking", "over"},
     op : Operations \cup {None}, revision : 0..MaxRevisions, token : Operations \cup {None}]

TypeOK ==
    /\ incident \in [revision : 0..MaxRevisions, attempt : 0..MaxRevisions, op : Operations \cup {None},
                     status : Reserved \cup {"NONE", "AWAITING_APPROVAL", "CANCELLED",
                                             "FAILED_BEFORE_SUBMISSION"}]
    /\ jobs \in [Operations -> JobRecord]
    /\ execs \in [Operations -> {"absent", "run", "working", "choosing", "delay", "awaiting",
                                 "finished", "failed"}]
    /\ callbacks \in [Revisions -> [token : Operations \cup {None}, consumed : BOOLEAN]]
    /\ threads \in [Threads -> ThreadRecord]
    /\ unwoken \subseteq Revisions
    /\ faults \in 0..MaxFaults

Init ==
    /\ incident = [revision |-> 0, attempt |-> 0, op |-> None, status |-> "NONE"]
    /\ jobs = [o \in Operations |-> [kind |-> "none", status |-> "absent", leased |-> FALSE]]
    /\ execs = [o \in Operations |-> "absent"]
    /\ callbacks = [d \in Revisions |-> [token |-> None, consumed |-> FALSE]]
    /\ threads = [t \in Threads |-> [pc |-> "idle", op |-> None, revision |-> 0, token |-> None]]
    /\ unwoken = {}
    /\ faults = 0

Fault == faults < MaxFaults /\ faults' = faults + 1

NextOperation ==
    {o \in Operations : /\ jobs[o].kind = "none"
                        /\ \A p \in Operations : p < o => jobs[p].kind # "none"}

Enqueued(o, kind) == [jobs EXCEPT ![o] = [kind |-> kind, status |-> "pending", leased |-> FALSE]]

Goto(t, pc) == threads' = [threads EXCEPT ![t].pc = pc]

GoOver(t) ==
    threads' = [threads EXCEPT ![t] = [pc |-> "over", op |-> None, revision |-> 0, token |-> None]]

(* A thread raises: admission was closed before this transaction, a commit   *)
(* conflicted, a call failed.  A request is answered with an error, and a    *)
(* registering Lambda's execution stops waiting.                             *)
CutOff(t) ==
    /\ Fault
    /\ GoOver(t)
    /\ execs' = IF t \in Operations /\ execs[t] = "awaiting"
                THEN [execs EXCEPT ![t] = "finished"] ELSE execs

(* A request cut off before it woke anyone.                                  *)
NotWoken(t) == unwoken' = IF t \in Calls THEN unwoken \cup {threads[t].revision} ELSE unwoken

-------------------------------------------------------------------------------
(* The API: a request commits, dispatches, and an approval wakes *)

(* POST decision: enqueued once, answered with its operation when repeated.  *)
Decide(c) ==
    /\ threads[c].pc = "idle"
    /\ \E o \in Operations :
          /\ \/ o \in NextOperation /\ jobs' = Enqueued(o, "decide")
             \/ /\ jobs[o].kind = "decide" /\ jobs[o].status # "failed"
                /\ UNCHANGED jobs
          /\ threads' = [threads EXCEPT ![c] = [@ EXCEPT !.pc = "dispatching", !.op = o]]
    /\ UNCHANGED <<incident, execs, callbacks, unwoken, faults>>

(* POST approve: reserves the revision, or answers the reserved operation;   *)
(* a repeated approval starts the wake-up anew.                              *)
Approve(c) ==
    /\ threads[c].pc = "idle"
    /\ incident.revision # 0
    /\ \E o \in Operations :
          /\ \/ /\ incident.status \in {"AWAITING_APPROVAL", "FAILED_BEFORE_SUBMISSION"}
                /\ o \in NextOperation
                /\ jobs' = Enqueued(o, "submit")
                /\ incident' = [incident EXCEPT !.status = "IN_FLIGHT", !.attempt = incident.revision, !.op = o]
             \/ /\ incident.status \in Reserved /\ incident.attempt = incident.revision
                /\ o = incident.op
                /\ UNCHANGED <<incident, jobs>>
          /\ threads' = [threads EXCEPT ![c] =
                            [@ EXCEPT !.pc = "dispatching", !.op = o, !.revision = incident.revision]]
    /\ unwoken' = unwoken \ {incident.revision}
    /\ UNCHANGED <<execs, callbacks, faults>>

(* dispatch and start_operation: the execution has the operation's name, so  *)
(* a second dispatch does nothing.  A request whose dispatch fails answers   *)
(* 503 there and then.                                                       *)
Dispatch(c) ==
    /\ threads[c].pc = "dispatching"
    /\ \/ /\ execs' = [execs EXCEPT ![threads[c].op] = IF @ = "absent" THEN "run" ELSE @]
          /\ IF threads[c].revision = 0 THEN GoOver(c) ELSE Goto(c, "waking")
          /\ UNCHANGED <<unwoken, faults>>
       \/ /\ Fault
          /\ GoOver(c)
          /\ unwoken' = unwoken \cup ({threads[c].revision} \ {0})
          /\ UNCHANGED execs
    /\ UNCHANGED <<incident, jobs, callbacks>>

(* POST draft: a new revision of the report.                                 *)
Revise ==
    /\ incident.revision \in 1..MaxRevisions - 1
    /\ incident.status \notin Reserved
    /\ incident' = [incident EXCEPT !.revision = @ + 1, !.status = "AWAITING_APPROVAL"]
    /\ UNCHANGED <<jobs, execs, callbacks, threads, unwoken, faults>>

(* POST cancel: before the write; no one is woken.                           *)
Cancel ==
    /\ incident.status \in {"AWAITING_APPROVAL", "IN_FLIGHT"}
    /\ incident' = [incident EXCEPT !.status = "CANCELLED"]
    /\ UNCHANGED <<jobs, execs, callbacks, threads, unwoken, faults>>

-------------------------------------------------------------------------------
(* The execution *)

(* Phase run: run_job claims the job unless another holds its lease.         *)
Run(o) ==
    /\ execs[o] = "run"
    /\ \/ /\ jobs[o].status = "pending" \/ (jobs[o].status = "running" /\ ~jobs[o].leased)
          /\ jobs' = [jobs EXCEPT ![o].status = "running", ![o].leased = TRUE]
          /\ execs' = [execs EXCEPT ![o] = "working"]
          /\ UNCHANGED faults
       \/ /\ jobs[o].status = "running" /\ jobs[o].leased
          /\ execs' = [execs EXCEPT ![o] = "delay"]
          /\ UNCHANGED <<jobs, faults>>
       \/ /\ Fault  \* admission is closed: the job stays as it was
          /\ execs' = [execs EXCEPT ![o] = "failed"]
          /\ UNCHANGED jobs
    /\ UNCHANGED <<incident, callbacks, threads, unwoken>>

(* What the job did to the case when it completes: a decision opens the case *)
(* with its first draft or joins it, a submission is sent unless cancelled.  *)
Completed(o) ==
    IF jobs[o].kind = "decide"
    THEN IF incident.revision = 0
         THEN [incident EXCEPT !.revision = 1, !.status = "AWAITING_APPROVAL"]
         ELSE incident
    ELSE IF incident.status = "IN_FLIGHT" /\ incident.op = o
         THEN [incident EXCEPT !.status = "SUBMITTED"]
         ELSE incident

Work(o) ==
    /\ execs[o] = "working"
    /\ \/ /\ jobs' = [jobs EXCEPT ![o].status = "completed", ![o].leased = FALSE]
          /\ incident' = Completed(o)
          /\ execs' = [execs EXCEPT ![o] = "choosing"]
          /\ UNCHANGED faults
       \/ /\ Fault  \* the operation fails, and the execution with it
          /\ jobs' = [jobs EXCEPT ![o].status = "failed", ![o].leased = FALSE]
          /\ incident' = IF jobs[o].kind = "submit" /\ incident.status = "IN_FLIGHT" /\ incident.op = o
                         THEN [incident EXCEPT !.status = "FAILED_BEFORE_SUBMISSION"]
                         ELSE incident
          /\ execs' = [execs EXCEPT ![o] = "failed"]
       \/ /\ Fault  \* ConcurrentUpdate: the phase is retried
          /\ execs' = [execs EXCEPT ![o] = "run"]
          /\ UNCHANGED <<incident, jobs>>
       \/ /\ Fault  \* the Lambda stops: the execution ends, the job stays running
          /\ execs' = [execs EXCEPT ![o] = "failed"]
          /\ UNCHANGED <<incident, jobs>>
    /\ UNCHANGED <<callbacks, threads, unwoken>>

(* The wait before the job is tried again, its lease over.                   *)
Delay(o) ==
    /\ execs[o] = "delay"
    /\ execs' = [execs EXCEPT ![o] = "run"]
    /\ jobs' = [jobs EXCEPT ![o].leased = FALSE]
    /\ UNCHANGED <<incident, callbacks, threads, unwoken, faults>>

(* The end of phase run, a transaction of its own: after a decision whose    *)
(* case awaits approval, the execution waits for that revision.              *)
Choose(o) ==
    /\ execs[o] = "choosing"
    /\ \/ /\ IF jobs[o].kind = "decide" /\ incident.status = "AWAITING_APPROVAL"
             THEN /\ execs' = [execs EXCEPT ![o] = "awaiting"]
                  /\ threads' = [threads EXCEPT ![o] =
                                    [@ EXCEPT !.pc = "registering", !.revision = incident.revision]]
             ELSE execs' = [execs EXCEPT ![o] = "finished"] /\ UNCHANGED threads
          /\ UNCHANGED faults
       \/ /\ Fault  \* admission is closed
          /\ execs' = [execs EXCEPT ![o] = "failed"]
          /\ UNCHANGED threads
    /\ UNCHANGED <<incident, jobs, callbacks, unwoken>>

-------------------------------------------------------------------------------
(* The approval callback *)

(* One workflow at a time awaits a revision.                                 *)
MayRegister(o, d) == callbacks[d].token = None \/ callbacks[d].consumed \/ callbacks[d].token = o

(* Mutant of Registered: no reconciliation after the record is stored.       *)
RegisteredOnly(o) == GoOver(o)

(* After the record is stored the registering Lambda tries to wake.          *)
Registered(o) == Goto(o, "waking")

(* Phase register_approval; a refusal ends the execution.                    *)
Register(o) ==
    /\ threads[o].pc = "registering"
    /\ LET d == threads[o].revision
       IN  \/ /\ MayRegister(o, d)
              /\ callbacks' = [callbacks EXCEPT ![d] = [token |-> o, consumed |-> FALSE]]
              /\ Registered(o)
              /\ UNCHANGED <<execs, faults>>
           \/ /\ ~MayRegister(o, d)
              /\ execs' = [execs EXCEPT ![o] = "finished"]
              /\ GoOver(o)
              /\ UNCHANGED <<callbacks, faults>>
           \/ CutOff(o) /\ UNCHANGED callbacks
    /\ UNCHANGED <<incident, jobs, unwoken>>

(* _decision                                                                 *)
Decision(d) ==
    CASE incident.revision # d -> "stale"
      [] incident.revision = d /\ incident.status = "CANCELLED" -> "cancelled"
      [] incident.revision = d /\ incident.status # "CANCELLED" /\ incident.attempt = d -> "approved"
      [] OTHER -> "pending"

(* wake_approval, its first transaction: is there a token to use?            *)
ReadCallback(t) ==
    /\ threads[t].pc = "waking"
    /\ LET d == threads[t].revision
       IN  \/ /\ IF callbacks[d].token = None \/ callbacks[d].consumed \/ Decision(d) = "pending"
                 THEN GoOver(t)
                 ELSE threads' = [threads EXCEPT ![t] =
                                     [@ EXCEPT !.pc = "sending", !.token = callbacks[d].token]]
              /\ UNCHANGED <<execs, unwoken, faults>>
           \/ CutOff(t) /\ NotWoken(t)
    /\ UNCHANGED <<incident, jobs, callbacks>>

(* send_task_success or send_task_failure: either ends the wait, and one for *)
(* a task that is over is ignored.  Another error ends the call.             *)
Send(t) ==
    /\ threads[t].pc = "sending"
    /\ LET token == threads[t].token
       IN  \/ /\ execs' = [execs EXCEPT ![token] = IF @ = "awaiting" THEN "finished" ELSE @]
              /\ Goto(t, "marking")
              /\ UNCHANGED <<unwoken, faults>>
           \/ CutOff(t) /\ NotWoken(t)
    /\ UNCHANGED <<incident, jobs, callbacks>>

(* Mutant of Consumed: the record is marked whichever token it holds now.    *)
ConsumedAnyToken(d, token) == [callbacks EXCEPT ![d].consumed = TRUE]

(* The token is erased if it is still the one that was used; a transaction   *)
(* refused or lost leaves it as it was.                                      *)
Consumed(d, token) == [callbacks EXCEPT ![d].consumed = @ \/ callbacks[d].token = token]

Mark(t) ==
    /\ threads[t].pc = "marking"
    /\ \/ /\ callbacks' = Consumed(threads[t].revision, threads[t].token)
          /\ GoOver(t)
          /\ UNCHANGED <<execs, faults>>
       \/ CutOff(t) /\ UNCHANGED callbacks
    /\ UNCHANGED <<incident, jobs, unwoken>>

(* The hour of AwaitExactRevisionApproval is over.                           *)
TimeOut(o) ==
    /\ execs[o] = "awaiting" /\ threads[o].pc = "over"
    /\ execs' = [execs EXCEPT ![o] = "finished"]
    /\ UNCHANGED <<incident, jobs, callbacks, threads, unwoken, faults>>

Next ==
    \/ \E c \in Calls : Decide(c) \/ Approve(c) \/ Dispatch(c)
    \/ Revise \/ Cancel
    \/ \E o \in Operations :
          Run(o) \/ Work(o) \/ Delay(o) \/ Choose(o) \/ Register(o) \/ TimeOut(o)
    \/ \E t \in Threads : ReadCallback(t) \/ Send(t) \/ Mark(t)

Spec == Init /\ [][Next]_vars

-------------------------------------------------------------------------------
(* Properties *)

Awaits(o) == execs[o] = "awaiting" /\ threads[o].pc # "registering"

(* Approval before registration, after it, or in the middle of it: a         *)
(* workflow that waits for an approved revision is about to be woken, by a   *)
(* request or by its own registration, unless a fault cut off a request's    *)
(* wake-up and the resident has not approved again since.                    *)
NoLostWakeup ==
    \A o \in Operations, d \in Revisions :
        /\ Awaits(o) /\ callbacks[d].token = o
        /\ Decision(d) = "approved" /\ d \notin unwoken
        => \E t \in Calls \cup {o} :
              /\ threads[t].revision = d
              /\ \/ threads[t].pc \in {"dispatching", "waking"}
                 \/ threads[t].pc = "sending" /\ threads[t].token = o

(* A workflow that waits can be woken: its token is in the callback record   *)
(* of some revision and has not been erased, though wake-ups of one revision *)
(* overlap and its callback is registered again by another workflow.         *)
TokensAreKept ==
    \A o \in Operations :
        Awaits(o) => \E d \in Revisions : callbacks[d].token = o /\ ~callbacks[d].consumed
===============================================================================

--------------------------- MODULE SubmissionProofs ---------------------------
(***************************************************************************)
(* Proofs of the safety properties of Submission for every number of       *)
(* attempts, lookups and runners.  First what holds without any timing     *)
(* assumption: types, one click, issued tickets.  Then what holds when a   *)
(* lease outlives the run it covers (LeaseCoversRun): what was sent stays  *)
(* reserved, what is closed was not sent, a click is approved, and the     *)
(* workflow implements AgencyReport.                                       *)
(***************************************************************************)
EXTENDS SubmissionInvariant, TLAPS

(* The records the actions are built from.                                   *)
LEMMA RecordTypes ==
    /\ UnusedAttempt \in AttemptRecord
    /\ AbsentJob \in JobRecord
    /\ IdleWorker \in WorkerRecord
<1>1. UnusedAttempt \in AttemptRecord
  BY DEF UnusedAttempt, AttemptRecord
<1>2. AbsentJob \in JobRecord
  BY DEF AbsentJob, JobRecord
<1>3. IdleWorker \in WorkerRecord
  BY <1>1 DEF IdleWorker, WorkerRecord
<1>. QED
  BY <1>1, <1>2, <1>3

(* A busy runner has a job, and its job is about an attempt.                 *)
LEMMA TargetType ==
    ASSUME TypeOK, RunnersOk, JobsOk, NEW w \in Workers, Busy(w)
    PROVE  /\ workers[w].job \in Jobs
           /\ jobs[workers[w].job] \in JobRecord
           /\ Target(w) \in Attempts
           /\ attempts[Target(w)] \in AttemptRecord
           /\ workers[w].job \in Attempts => Target(w) = workers[w].job
<1>1. workers[w].job \in Jobs
  BY DEF TypeOK, WorkerRecord, RunnersOk, Busy
<1>2. jobs[workers[w].job] \in JobRecord
  BY <1>1 DEF TypeOK
<1>3. Target(w) \in Attempts
  BY <1>1 DEF TypeOK, RunnersOk, JobsOk, Target, Busy
<1>4. workers[w].job \in Attempts => Target(w) = workers[w].job
  BY <1>1 DEF RunnersOk, JobsOk, Target, Busy
<1>. QED
  BY <1>1, <1>2, <1>3, <1>4 DEF TypeOK

(* What the building blocks of the actions do to the runners.                *)
LEMMA RunnerTypes ==
    ASSUME TypeOK, NEW w \in Workers
    PROVE  /\ \A pc \in {"receipt", "unknown", "refused", "found"},
                 result \in Outcomes \cup {"none"} :
                  Goto(w, pc, result) => workers' \in [Workers -> WorkerRecord]
           /\ \A pc \in {"prepared", "authorized", "looking"}, record \in AttemptRecord :
                  Keep(w, pc, record) => workers' \in [Workers -> WorkerRecord]
           /\ \A result \in Outcomes :
                  Return(w, result) \/ Committed(w, result) =>
                      workers' \in [Workers -> WorkerRecord]
           /\ Raise(w) \/ Release(w) => workers' \in [Workers -> WorkerRecord]
<1>1. workers \in [Workers -> WorkerRecord] /\ workers[w] \in WorkerRecord
  BY DEF TypeOK
<1>2. ASSUME NEW pc \in {"receipt", "unknown", "refused", "found"},
             NEW result \in Outcomes \cup {"none"}, Goto(w, pc, result)
      PROVE  workers' \in [Workers -> WorkerRecord]
  <2>1. [workers[w] EXCEPT !.pc = pc, !.result = result] \in WorkerRecord
    BY <1>1 DEF WorkerRecord
  <2>. QED
    BY <1>1, <1>2, <2>1 DEF Goto
<1>3. ASSUME NEW pc \in {"prepared", "authorized", "looking"},
             NEW record \in AttemptRecord, Keep(w, pc, record)
      PROVE  workers' \in [Workers -> WorkerRecord]
  <2>1. [workers[w] EXCEPT !.pc = pc, !.view = record] \in WorkerRecord
    BY <1>1 DEF WorkerRecord
  <2>. QED
    BY <1>1, <1>3, <2>1 DEF Keep
<1>4. ASSUME NEW result \in Outcomes \cup {"none"}
      PROVE  \A pc \in {"returned", "erred"} :
               [workers[w] EXCEPT !.pc = pc, !.view = UnusedAttempt, !.result = result]
                  \in WorkerRecord
  BY <1>1, RecordTypes DEF WorkerRecord
<1>5. ASSUME NEW result \in Outcomes, Return(w, result)
      PROVE  workers' \in [Workers -> WorkerRecord]
  BY <1>1, <1>4, <1>5 DEF Return
<1>6. Raise(w) => workers' \in [Workers -> WorkerRecord]
  BY <1>1, <1>4 DEF Raise
<1>7. Release(w) => workers' \in [Workers -> WorkerRecord]
  BY <1>1, RecordTypes DEF Release
<1>. QED
  BY <1>2, <1>3, <1>5, <1>6, <1>7 DEF Committed

(* Writing an attempt or the status of the incident keeps the types.         *)
LEMMA CloseTypes ==
    ASSUME TypeOK, NEW a \in Attempts, NEW status \in Outcomes
    PROVE  /\ SetStatus(status) => incident' \in IncidentRecord
           /\ CloseAttempt(a, status) =>
                  incident' \in IncidentRecord /\ attempts' \in [Attempts -> AttemptRecord]
           /\ \A record \in AttemptRecord :
                  Write(a, record) => attempts' \in [Attempts -> AttemptRecord]
<1>1. SetStatus(status) => incident' \in IncidentRecord
  BY DEF TypeOK, SetStatus, IncidentRecord
<1>2. \A record \in AttemptRecord :
          Write(a, record) => attempts' \in [Attempts -> AttemptRecord]
  BY DEF TypeOK, Write
<1>3. [attempts[a] EXCEPT !.status = status] \in AttemptRecord
  BY DEF TypeOK, AttemptRecord
<1>. QED
  BY <1>1, <1>2, <1>3 DEF CloseAttempt

(* Every step keeps the types.                                               *)
LEMMA TypeStep ==
    ASSUME TypeOK, RunnersOk, JobsOk, IncidentOk, [Next]_vars
    PROVE  TypeOK'
<1>. USE ConstantsAssumption DEF TypeOK, agency
<1>1. CASE CreateDraft
  <2>1. incident.draft + 1 \in Nat
    BY DEF IncidentRecord
  <2>. QED
    BY <1>1, <2>1 DEF CreateDraft, IncidentRecord
<1>2. ASSUME NEW a \in Attempts, Approve(a)
      PROVE  TypeOK'
  <2>1. [AbsentJob EXCEPT !.status = "pending", !.attempt = a] \in JobRecord
    BY RecordTypes DEF JobRecord
  <2>2. [status |-> "IN_FLIGHT", writeStarted |-> FALSE, draft |-> incident.draft]
            \in AttemptRecord
    BY DEF AttemptRecord, IncidentRecord, Outcomes, Reserved
  <2>3. [incident EXCEPT !.attempt = a, !.status = "IN_FLIGHT"] \in IncidentRecord
    BY DEF IncidentRecord, Outcomes, Reserved
  <2>. QED
    BY <1>2, <2>1, <2>2, <2>3 DEF Approve, Jobs
<1>3. CASE Cancel
  <2>1. [incident EXCEPT !.status = "CANCELLED"] \in IncidentRecord
    BY DEF IncidentRecord, Outcomes
  <2>2. \A a \in Attempts : [attempts[a] EXCEPT !.status = "CANCELLED"] \in AttemptRecord
    BY DEF AttemptRecord, Outcomes
  <2>. QED
    BY <1>3, <2>1, <2>2 DEF Cancel
<1>4. ASSUME NEW r \in Lookups, Reconcile(r)
      PROVE  TypeOK'
  <2>1. [AbsentJob EXCEPT !.status = "pending", !.attempt = incident.attempt] \in JobRecord
    BY RecordTypes DEF JobRecord, IncidentRecord
  <2>. QED
    BY <1>4, <2>1 DEF Reconcile, Jobs
<1>5. ASSUME NEW w \in Workers, NEW S \in SUBSET Attempts, NEW j \in Jobs \cup {NoJob},
             ClaimJob(w, S, j)
      PROVE  TypeOK'
  <2>1. incident' \in IncidentRecord
    BY <1>5 DEF ClaimJob, IncidentRecord, Outcomes, Reserved
  <2>2. attempts' \in [Attempts -> AttemptRecord]
    <3>1. \A a \in Attempts :
              [attempts[a] EXCEPT !.status = "OUTCOME_UNKNOWN"] \in AttemptRecord
      BY DEF AttemptRecord, Outcomes, Reserved
    <3>. QED
      BY <1>5, <3>1 DEF ClaimJob
  <2>3. jobs' \in [Jobs -> JobRecord]
    <3>1. \A k \in Jobs :
              [jobs[k] EXCEPT !.status = "completed", !.result = "OUTCOME_UNKNOWN"] \in JobRecord
      BY DEF JobRecord, Outcomes, Reserved
    <3>2. \A k \in Jobs : jobs[k].claims + 1 \in Nat
      BY DEF JobRecord
    <3>3. \A k \in Jobs :
              [jobs[k] EXCEPT !.status = "running", !.leased = TRUE, !.claims = @ + 1]
                  \in JobRecord
      BY <3>2 DEF JobRecord
    <3>. QED
      BY <1>5, <3>1, <3>3 DEF ClaimJob
  <2>4. workers' \in [Workers -> WorkerRecord]
    <3>1. CASE j = NoJob
      BY <1>5, <3>1 DEF ClaimJob
    <3>2. CASE j # NoJob
      <4>1. jobs[j].claims + 1 \in Nat
        BY <3>2 DEF JobRecord
      <4>2. [IdleWorker EXCEPT !.pc = "claimed", !.job = j, !.token = jobs[j].claims + 1]
                \in WorkerRecord
        BY <4>1, RecordTypes DEF WorkerRecord
      <4>. QED
        BY <1>5, <3>2, <4>2 DEF ClaimJob
    <3>. QED
      BY <3>1, <3>2
  <2>. QED
    BY <1>5, <2>1, <2>2, <2>3, <2>4 DEF ClaimJob
<1>6. ASSUME NEW w \in Workers, PrepareSubmission(w)
      PROVE  TypeOK'
  <2>1. Target(w) \in Attempts /\ attempts[Target(w)] \in AttemptRecord
    BY <1>6, TargetType DEF PrepareSubmission, At, Busy
  <2>2. attempts[Target(w)].status \in Outcomes \cup {"UNUSED"}
    BY <2>1 DEF AttemptRecord
  <2>3. attempts[Target(w)].status # "UNUSED"
    BY <1>6 DEF RunnersOk, JobsOk, PrepareSubmission, At, Busy, Target, Jobs
  <2>. QED
    BY <1>6, <2>1, <2>2, <2>3, RunnerTypes, CloseTypes
    DEF PrepareSubmission, Outcomes, Refusals
<1>7. ASSUME NEW w \in Workers, BrowserStops(w)
      PROVE  TypeOK'
  BY <1>7, RunnerTypes DEF BrowserStops, Outcomes, Reserved
<1>8. ASSUME NEW w \in Workers, BeforeWrite(w)
      PROVE  TypeOK'
  <2>1. Target(w) \in Attempts /\ attempts[Target(w)] \in AttemptRecord
    BY <1>8, TargetType DEF BeforeWrite, At, Busy
  <2>2. [attempts[Target(w)] EXCEPT !.writeStarted = TRUE] \in AttemptRecord
    BY <2>1 DEF AttemptRecord
  <2>3. attempts' \in [Attempts -> AttemptRecord]
    BY <1>8, <2>1, <2>2, CloseTypes DEF BeforeWrite, Outcomes
  <2>. QED
    BY <1>8, <2>2, <2>3, RunnerTypes DEF BeforeWrite, Outcomes, Refusals
<1>9. ASSUME NEW w \in Workers, Click(w)
      PROVE  TypeOK'
  <2>1. Target(w) \in Attempts
    BY <1>9, TargetType DEF Click, At, Busy
  <2>2. clicks[Target(w)] + 1 \in Nat
    BY <2>1
  <2>3. workers' \in [Workers -> WorkerRecord]
    BY <1>9 DEF Click, WorkerRecord
  <2>. QED
    BY <1>9, <2>1, <2>2, <2>3 DEF Click
<1>10. ASSUME NEW w \in Workers, BrowserReturns(w)
       PROVE  TypeOK'
  BY <1>10, RunnerTypes DEF BrowserReturns, Outcomes, Reserved
<1>11. ASSUME NEW w \in Workers, HandleRefusal(w)
       PROVE  TypeOK'
  <2>1. Target(w) \in Attempts
    BY <1>11, TargetType DEF HandleRefusal, At, Busy
  <2>2. workers[w].result \in Refusals
    BY <1>11 DEF HandleRefusal, RunnersOk
  <2>3. [workers[w].view EXCEPT !.status = workers[w].result, !.writeStarted = FALSE]
            \in AttemptRecord
    <3>1. workers[w].view \in AttemptRecord
      BY DEF WorkerRecord
    <3>. QED
      BY <2>2, <3>1 DEF AttemptRecord, Outcomes
  <2>. QED
    BY <1>11, <2>1, <2>2, <2>3, RunnerTypes, CloseTypes DEF HandleRefusal, Outcomes
<1>12. ASSUME NEW w \in Workers, MarkUnknown(w)
       PROVE  TypeOK'
  <2>1. Target(w) \in Attempts
    BY <1>12, TargetType DEF MarkUnknown, At, Busy
  <2>2. [workers[w].view EXCEPT !.status = "OUTCOME_UNKNOWN"] \in AttemptRecord
    BY DEF WorkerRecord, AttemptRecord, Outcomes, Reserved
  <2>. QED
    BY <1>12, <2>1, <2>2, RunnerTypes, CloseTypes DEF MarkUnknown, Outcomes, Reserved
<1>13. ASSUME NEW w \in Workers, RecordReceipt(w)
       PROVE  TypeOK'
  <2>1. Target(w) \in Attempts
    BY <1>13, TargetType DEF RecordReceipt, At, Busy
  <2>2. [workers[w].view EXCEPT !.status = "RECEIPT_CONFIRMED"] \in AttemptRecord
    BY DEF WorkerRecord, AttemptRecord, Outcomes, Reserved
  <2>3. incident' \in IncidentRecord
    <3>1. incident.polls + 1 \in Nat
      BY DEF IncidentRecord
    <3>2. \A n \in Nat :
            [incident EXCEPT !.status = "RECEIPT_CONFIRMED", !.ticket = Target(w), !.polls = n]
                \in IncidentRecord
      BY <2>1 DEF IncidentRecord, Outcomes, Reserved
    <3>. QED
      BY <1>13, <3>1, <3>2 DEF RecordReceipt, IncidentRecord
  <2>. QED
    BY <1>13, <2>1, <2>2, <2>3, RunnerTypes, CloseTypes DEF RecordReceipt, Outcomes, Reserved
<1>14. ASSUME NEW w \in Workers, ReadAttempt(w)
       PROVE  TypeOK'
  <2>1. attempts[Target(w)] \in AttemptRecord
    BY <1>14, TargetType DEF ReadAttempt, At, Busy
  <2>. QED
    BY <1>14, <2>1, RunnerTypes DEF ReadAttempt
<1>15. ASSUME NEW w \in Workers, LookupReceipt(w)
       PROVE  TypeOK'
  BY <1>15, RunnerTypes DEF LookupReceipt, Outcomes, Reserved
<1>16. ASSUME NEW w \in Workers, TransactionFails(w)
       PROVE  TypeOK'
  BY <1>16, RunnerTypes DEF TransactionFails
<1>17. ASSUME NEW w \in Workers, Settle(w)
       PROVE  TypeOK'
  <2>1. workers' \in [Workers -> WorkerRecord]
    BY <1>17, RunnerTypes DEF Settle
  <2>2. jobs' \in [Jobs -> JobRecord]
    <3>1. workers[w].job \in Jobs /\ jobs[workers[w].job] \in JobRecord
      BY <1>17, TargetType DEF Settle, At, Busy
    <3>2. [jobs[workers[w].job] EXCEPT !.status = "completed", !.leased = FALSE,
                                       !.result = workers[w].result] \in JobRecord
      BY <3>1 DEF JobRecord, WorkerRecord
    <3>. QED
      BY <1>17, <3>1, <3>2 DEF Settle, Closed
  <2>. QED
    BY <1>17, <2>1, <2>2 DEF Settle
<1>18. ASSUME NEW w \in Workers, SettleFailure(w)
       PROVE  TypeOK'
  <2> DEFINE j == workers[w].job
  <2>1. j \in Jobs /\ jobs[j] \in JobRecord
    BY <1>18, TargetType DEF SettleFailure, At, Busy
  <2>2. workers' \in [Workers -> WorkerRecord]
    BY <1>18, RunnerTypes DEF SettleFailure
  <2>3. jobs' \in [Jobs -> JobRecord]
    <3>1. [jobs[j] EXCEPT !.status = "failed", !.leased = FALSE, !.result = jobs[j].result]
              \in JobRecord
      BY <2>1 DEF JobRecord
    <3>. QED
      BY <1>18, <2>1, <3>1 DEF SettleFailure, Closed
  <2>4. incident' \in IncidentRecord /\ attempts' \in [Attempts -> AttemptRecord]
    <3>1. FailureStatus(j) \in Outcomes
      BY DEF FailureStatus, Outcomes, Reserved, Refusals
    <3>. QED
      BY <1>18, <3>1, CloseTypes DEF SettleFailure
  <2>. QED
    BY <1>18, <2>2, <2>3, <2>4 DEF SettleFailure
<1>19. ASSUME NEW w \in Workers, Abandon(w)
       PROVE  TypeOK'
  BY <1>19, RunnerTypes DEF Abandon
<1>20. CASE ExpireDraft
  BY <1>20 DEF ExpireDraft, IncidentRecord
<1>21. ASSUME NEW j \in Jobs, ExpireLease(j)
       PROVE  TypeOK'
  <2>1. [jobs[j] EXCEPT !.leased = FALSE] \in JobRecord
    BY DEF JobRecord
  <2>. QED
    BY <1>21, <2>1 DEF ExpireLease
<1>22. CASE SetAdmission
  BY <1>22 DEF SetAdmission
<1>23. ASSUME NEW a \in Attempts, PortalAccepts(a) \/ PortalRejects(a)
       PROVE  TypeOK'
  BY <1>23 DEF PortalAccepts, PortalRejects
<1>24. CASE UNCHANGED vars
  BY <1>24 DEF vars
<1>. QED
  BY <1>1, <1>2, <1>3, <1>4, <1>5, <1>6, <1>7, <1>8, <1>9, <1>10, <1>11, <1>12, <1>13, <1>14,
     <1>15, <1>16, <1>17, <1>18, <1>19, <1>20, <1>21, <1>22, <1>23, <1>24
  DEF Next, Run, Claim

-------------------------------------------------------------------------------
(* The effects of the building blocks, flattened to one level.               *)

(* Runner w moves on with the job and the token it has.                      *)
Moves(w) ==
    /\ \A v \in Workers : v # w => workers'[v] = workers[v]
    /\ workers'[w].job = workers[w].job
    /\ workers'[w].token = workers[w].token

(* Runner w lets go of its job.                                              *)
Freed(w) ==
    /\ \A v \in Workers : v # w => workers'[v] = workers[v]
    /\ workers'[w].pc = "idle"
    /\ workers'[w].job = NoJob

(* What each building block of the actions does to the runners.              *)
LEMMA RunnerEffects ==
    ASSUME TypeOK, NEW w \in Workers
    PROVE  /\ \A pc, result : Goto(w, pc, result) =>
                 /\ Moves(w)
                 /\ workers'[w].pc = pc
                 /\ workers'[w].view = workers[w].view
                 /\ workers'[w].result = result
           /\ \A pc, record : Keep(w, pc, record) =>
                 /\ Moves(w)
                 /\ workers'[w].pc = pc
                 /\ workers'[w].view = record
           /\ \A result : Return(w, result) =>
                 /\ Moves(w)
                 /\ workers'[w].pc = "returned"
                 /\ workers'[w].result = result
           /\ Raise(w) => Moves(w) /\ workers'[w].pc = "erred"
           /\ \A result : Committed(w, result) =>
                 /\ Moves(w)
                 /\ \/ workers'[w].pc = "returned" /\ workers'[w].result = result
                    \/ workers'[w].pc = "erred"
           /\ Release(w) => Freed(w)
<1>. USE DEF TypeOK, WorkerRecord, Moves
<1>1. ASSUME NEW pc, NEW result, Goto(w, pc, result)
      PROVE  /\ Moves(w)
             /\ workers'[w].pc = pc
             /\ workers'[w].view = workers[w].view
             /\ workers'[w].result = result
  BY <1>1 DEF Goto
<1>2. ASSUME NEW pc, NEW record, Keep(w, pc, record)
      PROVE  Moves(w) /\ workers'[w].pc = pc /\ workers'[w].view = record
  BY <1>2 DEF Keep
<1>3. ASSUME NEW result, Return(w, result)
      PROVE  Moves(w) /\ workers'[w].pc = "returned" /\ workers'[w].result = result
  BY <1>3 DEF Return
<1>4. Raise(w) => Moves(w) /\ workers'[w].pc = "erred"
  BY DEF Raise
<1>5. Release(w) => Freed(w)
  BY DEF Release, IdleWorker, Freed
<1>. QED
  BY <1>1, <1>2, <1>3, <1>4, <1>5 DEF Committed

(* What a step of a run leaves alone: a runner that keeps its job keeps its  *)
(* kind of steps, and a job keeps its tokens and its subject.                *)
RunnerKept(w) ==
    /\ Busy(w)
    /\ \/ Freed(w)
       \/ /\ Moves(w)
          /\ workers'[w].pc # "idle"
          /\ workers'[w].pc \in SubmitSteps => workers[w].job \in Attempts
          /\ workers'[w].pc \in LookupSteps => workers[w].job \in Lookups
          /\ workers'[w].pc = "refused" => workers'[w].result \in Refusals
          /\ workers'[w].pc = "returned" => workers'[w].result \in Outcomes
          /\ workers'[w].pc # "claimed"
          /\ workers'[w].pc = "prepared" => workers[w].pc = "claimed"

JobsKept ==
    \A j \in Jobs :
        /\ jobs'[j].claims = jobs[j].claims
        /\ jobs'[j].attempt = jobs[j].attempt
        /\ \/ jobs'[j].status = jobs[j].status
           \/ jobs'[j].status \in {"completed", "failed"} /\ jobs[j].status # "absent"

(* Every step of a run keeps the other runners and the jobs in this sense.   *)
LEMMA RunKeeps ==
    ASSUME TypeOK, RunnersOk, JobsOk, NEW w \in Workers, Run(w)
    PROVE  RunnerKept(w) /\ JobsKept
<1>. USE DEF At, Busy
<1>0. UNCHANGED jobs => JobsKept
  BY DEF JobsKept
<1>6. CASE PrepareSubmission(w)
  <2>1. Target(w) \in Attempts /\ attempts[Target(w)].status \in Outcomes
    <3>1. Target(w) \in Attempts /\ Target(w) = workers[w].job
      BY <1>6, TargetType DEF PrepareSubmission
    <3>2. attempts[Target(w)].status # "UNUSED"
      BY <1>6, <3>1 DEF RunnersOk, JobsOk, PrepareSubmission, Target, Jobs
    <3>. QED
      BY <3>1, <3>2 DEF TypeOK, AttemptRecord
  <2>2. RunnerKept(w)
    BY <1>6, <2>1, RunnerEffects
    DEF PrepareSubmission, RunnerKept, SubmitSteps, LookupSteps, Outcomes, Refusals
  <2>. QED
    BY <1>6, <2>2, <1>0 DEF PrepareSubmission
<1>7. CASE BrowserStops(w)
  BY <1>7, <1>0, RunnerEffects DEF BrowserStops, RunnerKept, SubmitSteps, LookupSteps, RunnersOk
<1>8. CASE BeforeWrite(w)
  BY <1>8, <1>0, RunnerEffects
  DEF BeforeWrite, RunnerKept, SubmitSteps, LookupSteps, RunnersOk, Refusals
<1>9. CASE Click(w)
  BY <1>9, <1>0 DEF Click, RunnerKept, Moves, SubmitSteps, LookupSteps, RunnersOk, TypeOK, WorkerRecord
<1>10. CASE BrowserReturns(w)
  BY <1>10, <1>0, RunnerEffects DEF BrowserReturns, RunnerKept, SubmitSteps, LookupSteps, RunnersOk
<1>11. CASE HandleRefusal(w)
  BY <1>11, <1>0, RunnerEffects
  DEF HandleRefusal, RunnerKept, SubmitSteps, LookupSteps, RunnersOk, Outcomes
<1>12. CASE MarkUnknown(w)
  BY <1>12, <1>0, RunnerEffects
  DEF MarkUnknown, RunnerKept, SubmitSteps, LookupSteps, Outcomes, Reserved
<1>13. CASE RecordReceipt(w)
  BY <1>13, <1>0, RunnerEffects
  DEF RecordReceipt, RunnerKept, SubmitSteps, LookupSteps, Outcomes, Reserved
<1>14. CASE ReadAttempt(w)
  BY <1>14, <1>0, RunnerEffects
  DEF ReadAttempt, RunnerKept, SubmitSteps, LookupSteps, RunnersOk
<1>15. CASE LookupReceipt(w)
  BY <1>15, <1>0, RunnerEffects
  DEF LookupReceipt, RunnerKept, SubmitSteps, LookupSteps, RunnersOk, Outcomes, Reserved
<1>16. CASE TransactionFails(w)
  BY <1>16, <1>0, RunnerEffects DEF TransactionFails, RunnerKept, SubmitSteps, LookupSteps
<1>17. CASE Settle(w)
  <2>1. RunnerKept(w)
    BY <1>17, RunnerEffects DEF Settle, RunnerKept, SubmitSteps, LookupSteps
  <2>2. JobsKept
    BY <1>17, <1>0 DEF Settle, Closed, JobsKept, TypeOK, JobRecord, RunnersOk
  <2>. QED
    BY <2>1, <2>2
<1>18. CASE SettleFailure(w)
  <2>1. RunnerKept(w)
    BY <1>18, RunnerEffects DEF SettleFailure, RunnerKept
  <2>2. JobsKept
    BY <1>18, <1>0 DEF SettleFailure, Closed, JobsKept, TypeOK, JobRecord, RunnersOk
  <2>. QED
    BY <2>1, <2>2
<1>. QED
  BY <1>6, <1>7, <1>8, <1>9, <1>10, <1>11, <1>12, <1>13, <1>14, <1>15, <1>16, <1>17, <1>18
  DEF Run

(* The effects of writing an attempt and of setting the incident's status.   *)
WriteEffect(a, status, started, draft) ==
    /\ \A b \in Attempts : b # a => attempts'[b] = attempts[b]
    /\ attempts'[a].status = status
    /\ attempts'[a].writeStarted = started
    /\ attempts'[a].draft = draft

StatusEffect(status) ==
    /\ incident'.status = status
    /\ incident'.attempt = incident.attempt
    /\ incident'.draft = incident.draft
    /\ incident'.ticket = incident.ticket
    /\ incident'.polls = incident.polls

(* The building blocks that write records have these effects.                *)
LEMMA WriteEffects ==
    ASSUME TypeOK, NEW a \in Attempts
    PROVE  /\ \A status : SetStatus(status) => StatusEffect(status)
           /\ \A status : CloseAttempt(a, status) =>
                 /\ WriteEffect(a, status, attempts[a].writeStarted, attempts[a].draft)
                 /\ StatusEffect(status)
           /\ \A record \in AttemptRecord : \A status :
                 Write(a, [record EXCEPT !.status = status]) =>
                     WriteEffect(a, status, record.writeStarted, record.draft)
           /\ \A record \in AttemptRecord : \A status :
                 Write(a, [record EXCEPT !.status = status, !.writeStarted = FALSE]) =>
                     WriteEffect(a, status, FALSE, record.draft)
           /\ \A record \in AttemptRecord :
                 Write(a, [record EXCEPT !.writeStarted = TRUE]) =>
                     WriteEffect(a, record.status, TRUE, record.draft)
<1>. USE DEF TypeOK, WriteEffect
<1>1. \A status : SetStatus(status) => StatusEffect(status)
  BY DEF SetStatus, StatusEffect, IncidentRecord
<1>2. ASSUME NEW record \in AttemptRecord, NEW status
      PROVE  Write(a, [record EXCEPT !.status = status]) =>
                 WriteEffect(a, status, record.writeStarted, record.draft)
  BY DEF Write, AttemptRecord
<1>3. ASSUME NEW record \in AttemptRecord, NEW status
      PROVE  Write(a, [record EXCEPT !.status = status, !.writeStarted = FALSE]) =>
                 WriteEffect(a, status, FALSE, record.draft)
  BY DEF Write, AttemptRecord
<1>4. ASSUME NEW record \in AttemptRecord
      PROVE  Write(a, [record EXCEPT !.writeStarted = TRUE]) =>
                 WriteEffect(a, record.status, TRUE, record.draft)
  BY DEF Write, AttemptRecord
<1>5. attempts[a] \in AttemptRecord
  OBVIOUS
<1>. HIDE DEF TypeOK, WriteEffect
<1>. QED
  BY <1>1, <1>2, <1>3, <1>4, <1>5 DEF CloseAttempt

(* What a step of a run leaves alone in the attempts: only the runner's own  *)
(* target changes, nothing gets back in flight, and a write that has started *)
(* is not taken back while the attempt stays in flight.                      *)
AttemptsKept(w) ==
    /\ Target(w) \in Attempts
    /\ \A a \in Attempts : a # Target(w) => attempts'[a] = attempts[a]
    /\ attempts[Target(w)].status # "UNUSED"
    /\ attempts'[Target(w)].status # "UNUSED"
    /\ attempts'[Target(w)].status = "IN_FLIGHT" =>
          /\ attempts[Target(w)].status = "IN_FLIGHT"
          /\ attempts[Target(w)].writeStarted => attempts'[Target(w)].writeStarted
          /\ attempts'[Target(w)].writeStarted =>
                attempts[Target(w)].writeStarted \/ workers[w].job = Target(w)
    /\ incident'.attempt = incident.attempt
    /\ incident'.draft = incident.draft
    /\ UNCHANGED <<approvals, expired>>

(* Every step of a run keeps the attempts in this sense.                     *)
LEMMA RunKeepsAttempts ==
    ASSUME TypeOK, RunnersOk, JobsOk, NEW w \in Workers, Run(w)
    PROVE  AttemptsKept(w)
<1>0. Busy(w)
  BY RunKeeps DEF RunnerKept
<1>1. /\ Target(w) \in Attempts
      /\ attempts[Target(w)] \in AttemptRecord
      /\ attempts[Target(w)].status # "UNUSED"
      /\ workers[w].job \in Attempts => Target(w) = workers[w].job
  BY <1>0, TargetType DEF RunnersOk, JobsOk, Target
<1>2. workers[w].view \in AttemptRecord
  BY DEF TypeOK, WorkerRecord
<1>3. CASE UNCHANGED <<incident, attempts, approvals, expired>>
  BY <1>1, <1>3 DEF AttemptsKept
<1>4. CASE PrepareSubmission(w)
  <2>1. \/ UNCHANGED <<incident, attempts>>
        \/ CloseAttempt(Target(w), "FAILED_BEFORE_SUBMISSION")
    BY <1>4 DEF PrepareSubmission
  <2>2. CASE UNCHANGED <<incident, attempts>>
    BY <1>3, <1>4, <2>2 DEF PrepareSubmission
  <2>3. CASE CloseAttempt(Target(w), "FAILED_BEFORE_SUBMISSION")
    <3>1. /\ WriteEffect(Target(w), "FAILED_BEFORE_SUBMISSION",
                         attempts[Target(w)].writeStarted, attempts[Target(w)].draft)
          /\ StatusEffect("FAILED_BEFORE_SUBMISSION")
      BY <1>1, <2>3, WriteEffects
    <3>. QED
      BY <1>1, <1>4, <3>1 DEF PrepareSubmission, WriteEffect, StatusEffect, AttemptsKept
  <2>. QED
    BY <2>1, <2>2, <2>3
<1>5. CASE BeforeWrite(w)
  <2>1. CASE UNCHANGED attempts
    BY <1>3, <1>5, <2>1 DEF BeforeWrite
  <2>2. CASE Write(Target(w), [attempts[Target(w)] EXCEPT !.writeStarted = TRUE])
    <3>1. WriteEffect(Target(w), attempts[Target(w)].status, TRUE, attempts[Target(w)].draft)
      BY <1>1, <2>2, WriteEffects
    <3>. QED
      BY <1>1, <1>5, <3>1 DEF BeforeWrite, WriteEffect, AttemptsKept, RunnersOk, SubmitSteps, At
  <2>. QED
    BY <1>5, <2>1, <2>2 DEF BeforeWrite
<1>6. CASE HandleRefusal(w)
  <2>1. CASE UNCHANGED <<incident, attempts>>
    BY <1>3, <1>6, <2>1 DEF HandleRefusal
  <2>2. CASE /\ Write(Target(w), [workers[w].view EXCEPT !.status = workers[w].result,
                                                        !.writeStarted = FALSE])
             /\ SetStatus(workers[w].result)
    <3>1. /\ WriteEffect(Target(w), workers[w].result, FALSE, workers[w].view.draft)
          /\ StatusEffect(workers[w].result)
      BY <1>1, <1>2, <2>2, WriteEffects
    <3>2. workers[w].result \in Refusals
      BY <1>6 DEF HandleRefusal, RunnersOk
    <3>. QED
      BY <1>1, <1>6, <3>1, <3>2
      DEF HandleRefusal, WriteEffect, StatusEffect, AttemptsKept, Refusals
  <2>. QED
    BY <1>6, <2>1, <2>2 DEF HandleRefusal
<1>7. CASE MarkUnknown(w)
  <2>1. /\ WriteEffect(Target(w), "OUTCOME_UNKNOWN", workers[w].view.writeStarted,
                       workers[w].view.draft)
        /\ StatusEffect("OUTCOME_UNKNOWN")
    BY <1>1, <1>2, <1>7, WriteEffects DEF MarkUnknown
  <2>. QED
    BY <1>1, <1>7, <2>1 DEF MarkUnknown, WriteEffect, StatusEffect, AttemptsKept
<1>8. CASE RecordReceipt(w)
  <2>1. CASE ReceiptKnown
    BY <1>3, <1>8, <2>1 DEF RecordReceipt
  <2>2. CASE ~ReceiptKnown
    <3>1. WriteEffect(Target(w), "RECEIPT_CONFIRMED", workers[w].view.writeStarted,
                      workers[w].view.draft)
      BY <1>1, <1>2, <1>8, <2>2, WriteEffects DEF RecordReceipt
    <3>2. incident'.attempt = incident.attempt /\ incident'.draft = incident.draft
      BY <1>8, <2>2 DEF RecordReceipt, TypeOK, IncidentRecord
    <3>. QED
      BY <1>1, <1>8, <3>1, <3>2 DEF RecordReceipt, WriteEffect, AttemptsKept
  <2>. QED
    BY <2>1, <2>2
<1>9. CASE SettleFailure(w)
  <2>1. CASE UNCHANGED <<incident, attempts>>
    BY <1>3, <1>9, <2>1 DEF SettleFailure
  <2>2. CASE /\ workers[w].job \in Attempts
             /\ CloseAttempt(workers[w].job, FailureStatus(workers[w].job))
    <3>1. /\ WriteEffect(Target(w), FailureStatus(Target(w)),
                         attempts[Target(w)].writeStarted, attempts[Target(w)].draft)
          /\ StatusEffect(FailureStatus(Target(w)))
      BY <1>1, <2>2, WriteEffects
    <3>2. FailureStatus(Target(w)) \in {"OUTCOME_UNKNOWN", "FAILED_BEFORE_SUBMISSION"}
      BY DEF FailureStatus
    <3>. QED
      BY <1>1, <1>9, <3>1, <3>2 DEF SettleFailure, WriteEffect, StatusEffect, AttemptsKept
  <2>. QED
    BY <1>9, <2>1, <2>2 DEF SettleFailure
<1>. QED
  BY <1>3, <1>4, <1>5, <1>6, <1>7, <1>8, <1>9
  DEF Run, BrowserStops, Click, BrowserReturns, ReadAttempt, LookupReceipt,
      TransactionFails, Settle

(* The effect of a claim.                                                    *)
ClaimEffect(w, S, j) ==
    /\ j \notin S
    /\ j = NoJob => UNCHANGED workers
    /\ j # NoJob => /\ j \in Jobs
                    /\ \A v \in Workers : v # w => workers'[v] = workers[v]
                    /\ workers'[w].pc = "claimed"
                    /\ workers'[w].job = j
                    /\ workers'[w].token = jobs[j].claims + 1
                    /\ jobs'[j].status = "running"
                    /\ jobs'[j].leased
                    /\ jobs'[j].claims = jobs[j].claims + 1
                    /\ jobs'[j].attempt = jobs[j].attempt
    /\ \A k \in Jobs : k # j /\ k \notin S => jobs'[k] = jobs[k]
    /\ \A k \in S : /\ jobs'[k].status = "completed"
                    /\ jobs'[k].leased = jobs[k].leased
                    /\ jobs'[k].claims = jobs[k].claims
                    /\ jobs'[k].attempt = jobs[k].attempt
    /\ \A a \in Attempts : a \notin S => attempts'[a] = attempts[a]
    /\ \A a \in S : /\ attempts'[a].writeStarted = attempts[a].writeStarted
                    /\ attempts'[a].draft = attempts[a].draft
                    /\ attempts'[a].status = "OUTCOME_UNKNOWN"
    /\ S = {} => UNCHANGED incident
    /\ S # {} => incident'.status = "OUTCOME_UNKNOWN"
    /\ incident'.attempt = incident.attempt
    /\ incident'.ticket = incident.ticket
    /\ incident'.draft = incident.draft
    /\ incident'.polls = incident.polls

(* claim_job has this effect.                                                *)
LEMMA ClaimEffects ==
    ASSUME TypeOK, NEW w \in Workers, NEW S \in SUBSET Attempts, NEW j \in Jobs \cup {NoJob},
           ClaimJob(w, S, j)
    PROVE  ClaimEffect(w, S, j)
<1>. USE ConstantsAssumption DEF ClaimJob
<1>1. j \notin S
  BY DEF Jobs
<1>2. j = NoJob => UNCHANGED workers
  OBVIOUS
<1>3. ASSUME j # NoJob
      PROVE  /\ j \in Jobs
             /\ \A v \in Workers : v # w => workers'[v] = workers[v]
             /\ workers'[w].pc = "claimed"
             /\ workers'[w].job = j
             /\ workers'[w].token = jobs[j].claims + 1
  BY <1>3 DEF TypeOK, IdleWorker
<1>4. ASSUME j # NoJob
      PROVE  /\ jobs'[j].status = "running"
             /\ jobs'[j].leased
             /\ jobs'[j].claims = jobs[j].claims + 1
             /\ jobs'[j].attempt = jobs[j].attempt
  <2>1. j \in Jobs
    BY <1>4
  <2>2. jobs'[j] = [jobs[j] EXCEPT !.status = "running", !.leased = TRUE, !.claims = @ + 1]
    BY <1>1, <2>1
  <2>3. jobs[j] \in JobRecord
    BY <2>1 DEF TypeOK
  <2>. HIDE DEF ClaimJob
  <2>. QED
    BY <2>2, <2>3 DEF JobRecord
<1>5. /\ \A k \in Jobs : k # j /\ k \notin S => jobs'[k] = jobs[k]
      /\ \A k \in S : /\ jobs'[k].status = "completed"
                      /\ jobs'[k].leased = jobs[k].leased
                      /\ jobs'[k].claims = jobs[k].claims
                      /\ jobs'[k].attempt = jobs[k].attempt
  <2>1. \A k \in Jobs : k # j /\ k \notin S => jobs'[k] = jobs[k]
    OBVIOUS
  <2>2. ASSUME NEW k \in S
        PROVE  /\ jobs'[k].status = "completed"
               /\ jobs'[k].leased = jobs[k].leased
               /\ jobs'[k].claims = jobs[k].claims
               /\ jobs'[k].attempt = jobs[k].attempt
    <3>1. k \in Jobs
      BY DEF Jobs
    <3>2. jobs'[k] = [jobs[k] EXCEPT !.status = "completed", !.result = "OUTCOME_UNKNOWN"]
      BY <3>1
    <3>3. jobs[k] \in JobRecord
      BY <3>1 DEF TypeOK
    <3>. HIDE DEF ClaimJob
    <3>. QED
      BY <3>2, <3>3 DEF JobRecord
  <2>. QED
    BY <2>1, <2>2
<1>6. /\ \A a \in Attempts : a \notin S => attempts'[a] = attempts[a]
      /\ \A a \in S : /\ attempts'[a].writeStarted = attempts[a].writeStarted
                      /\ attempts'[a].draft = attempts[a].draft
                      /\ attempts'[a].status = "OUTCOME_UNKNOWN"
  BY DEF TypeOK, AttemptRecord
<1>7. /\ S = {} => UNCHANGED incident
      /\ S # {} => incident'.status = "OUTCOME_UNKNOWN"
      /\ incident'.attempt = incident.attempt
      /\ incident'.ticket = incident.ticket
      /\ incident'.draft = incident.draft
      /\ incident'.polls = incident.polls
  BY DEF TypeOK, IncidentRecord
<1>. QED
  BY <1>1, <1>2, <1>3, <1>4, <1>5, <1>6, <1>7 DEF ClaimEffect

(* The effects of the commands that create jobs, and of a lease running out. *)
ApproveEffect(a) ==
    /\ attempts[a].status = "UNUSED"
    /\ incident.status \notin Reserved
    /\ \A b \in Attempts : b # a => attempts'[b] = attempts[b] /\ approvals'[b] = approvals[b]
    /\ attempts'[a].status = "IN_FLIGHT"
    /\ attempts'[a].writeStarted = FALSE
    /\ attempts'[a].draft = incident.draft
    /\ approvals'[a] = "RESERVED"
    /\ \A j \in Jobs : j # a => jobs'[j] = jobs[j]
    /\ jobs'[a].status = "pending"
    /\ jobs'[a].attempt = a
    /\ incident'.attempt = a
    /\ incident'.status = "IN_FLIGHT"
    /\ incident'.draft = incident.draft
    /\ incident'.ticket = incident.ticket
    /\ incident'.polls = incident.polls
    /\ UNCHANGED <<workers, agency>>

ReconcileEffect(r) ==
    /\ jobs[r].status = "absent"
    /\ incident.status = "OUTCOME_UNKNOWN"
    /\ \A j \in Jobs : j # r => jobs'[j] = jobs[j]
    /\ jobs'[r].status = "pending"
    /\ jobs'[r].attempt = incident.attempt
    /\ UNCHANGED <<incident, attempts, approvals, workers, agency>>

ExpireEffect(j) ==
    /\ \A k \in Jobs : k # j => jobs'[k] = jobs[k]
    /\ jobs'[j].status = jobs[j].status
    /\ jobs'[j].claims = jobs[j].claims
    /\ jobs'[j].attempt = jobs[j].attempt
    /\ UNCHANGED <<incident, attempts, approvals, workers, agency>>

(* approve has this effect.                                                  *)
LEMMA ApproveEffects ==
    ASSUME TypeOK, NEW a \in Attempts, Approve(a)
    PROVE  ApproveEffect(a)
<1>. USE DEF TypeOK, Approve
<1>1. /\ attempts[a].status = "UNUSED"
      /\ incident.status \notin Reserved
      /\ \A b \in Attempts : b # a => attempts'[b] = attempts[b] /\ approvals'[b] = approvals[b]
      /\ attempts'[a].status = "IN_FLIGHT"
      /\ attempts'[a].writeStarted = FALSE
      /\ attempts'[a].draft = incident.draft
      /\ approvals'[a] = "RESERVED"
  BY DEF ApproveAllowed
<1>2. /\ \A j \in Jobs : j # a => jobs'[j] = jobs[j]
      /\ jobs'[a].status = "pending"
      /\ jobs'[a].attempt = a
  BY DEF AbsentJob, Jobs
<1>3. /\ incident'.attempt = a
      /\ incident'.status = "IN_FLIGHT"
      /\ incident'.draft = incident.draft
      /\ incident'.ticket = incident.ticket
      /\ incident'.polls = incident.polls
  BY DEF IncidentRecord
<1>. QED
  BY <1>1, <1>2, <1>3 DEF ApproveEffect

(* reconcile has this effect.                                                *)
LEMMA ReconcileEffects ==
    ASSUME TypeOK, NEW r \in Lookups, Reconcile(r)
    PROVE  ReconcileEffect(r)
BY DEF TypeOK, Reconcile, AbsentJob, Jobs, ReconcileEffect

(* The end of a lease has this effect.                                       *)
LEMMA ExpireEffects ==
    ASSUME TypeOK, NEW j \in Jobs, ExpireLease(j)
    PROVE  ExpireEffect(j)
BY DEF TypeOK, ExpireLease, JobRecord, ExpireEffect

-------------------------------------------------------------------------------

(* Every step keeps the runners well-formed and their tokens distinct.       *)
LEMMA RunnersStep ==
    ASSUME TypeOK, RunnersOk, TokensUnique, JobsOk, [Next]_vars
    PROVE  RunnersOk' /\ TokensUnique'
<1>1. ASSUME NEW w \in Workers, Run(w)
      PROVE  RunnersOk' /\ TokensUnique'
  <2>. RunnerKept(w) /\ JobsKept
    BY <1>1, RunKeeps
  <2>1. RunnersOk'
    BY ConstantsAssumption
    DEF RunnersOk, RunnerKept, JobsKept, Moves, Freed, Busy, At, TypeOK, WorkerRecord,
        SubmitSteps, LookupSteps
  <2>2. TokensUnique'
    BY <2>1, ConstantsAssumption
    DEF TokensUnique, RunnersOk, RunnerKept, Moves, Freed, Busy, At
  <2>. QED
    BY <2>1, <2>2
<1>2. ASSUME NEW w \in Workers, NEW S \in SUBSET Attempts, NEW j \in Jobs \cup {NoJob},
             ClaimJob(w, S, j)
      PROVE  RunnersOk' /\ TokensUnique'
  <2>. ClaimEffect(w, S, j)
    BY <1>2, ClaimEffects
  <2>1. \A k \in Jobs : jobs[k].claims \in Nat
    BY DEF TypeOK, JobRecord
  <2>2. \A v \in Workers : /\ workers[v].token \in Nat
                           /\ workers[v].job \in Jobs \cup {NoJob}
                           /\ Busy(v) => workers[v].job \in Jobs
    BY DEF RunnersOk, TypeOK, WorkerRecord, Busy
  <2>3. \A k \in Jobs : jobs[k].status \notin {"absent", "pending"} =>
          jobs'[k].status \notin {"absent", "pending"}
    BY ConstantsAssumption DEF ClaimEffect
  <2>4. \A k \in Jobs : /\ k # j => jobs'[k].claims = jobs[k].claims
                        /\ k = j => jobs'[k].claims = jobs[k].claims + 1
    BY ConstantsAssumption DEF ClaimEffect
  <2>5. CASE j = NoJob
    <3>1. UNCHANGED workers
      BY <2>5 DEF ClaimEffect
    <3>2. \A k \in Jobs : jobs'[k].claims = jobs[k].claims
      BY <2>4, <2>5, ConstantsAssumption
    <3>. QED
      BY <2>2, <2>3, <3>1, <3>2 DEF RunnersOk, TokensUnique, Busy, At
  <2>6. CASE j # NoJob
    <3>1. /\ j \in Jobs
          /\ \A v \in Workers : v # w => workers'[v] = workers[v]
          /\ workers'[w].pc = "claimed"
          /\ workers'[w].job = j
          /\ workers'[w].token = jobs[j].claims + 1
          /\ jobs'[j].status = "running"
      BY <2>6 DEF ClaimEffect
    <3>2. RunnersOk'
      BY <2>1, <2>2, <2>3, <2>4, <2>6, <3>1
      DEF RunnersOk, Busy, At, SubmitSteps, LookupSteps
    <3>3. TokensUnique'
      BY <2>1, <2>2, <2>6, <3>1 DEF RunnersOk, TokensUnique, Busy, At
    <3>. QED
      BY <3>2, <3>3
  <2>. QED
    BY <2>5, <2>6
<1>3. ASSUME NEW w \in Workers, Abandon(w)
      PROVE  RunnersOk' /\ TokensUnique'
  <2>. Freed(w) /\ UNCHANGED jobs
    BY <1>3, RunnerEffects DEF Abandon
  <2>. QED
    BY DEF Freed, RunnersOk, TokensUnique, Busy, At, SubmitSteps, LookupSteps
<1>4. ASSUME NEW a \in Attempts, Approve(a)
      PROVE  RunnersOk' /\ TokensUnique'
  <2>1. \A w \in Workers : Busy(w) => workers[w].job \in Jobs /\ workers[w].job # a
    <3>1. jobs[a].status = "absent"
      BY <1>4, ApproveEffects DEF ApproveEffect, JobsOk
    <3>. QED
      BY <3>1 DEF RunnersOk, TypeOK, WorkerRecord, Busy
  <2>2. UNCHANGED workers /\ \A j \in Jobs : j # a => jobs'[j] = jobs[j]
    BY <1>4, ApproveEffects DEF ApproveEffect
  <2>. QED
    BY <2>1, <2>2 DEF RunnersOk, TokensUnique, Busy, At
<1>5. ASSUME NEW r \in Lookups, Reconcile(r)
      PROVE  RunnersOk' /\ TokensUnique'
  <2>1. \A w \in Workers : Busy(w) => workers[w].job \in Jobs /\ workers[w].job # r
    <3>1. jobs[r].status = "absent"
      BY <1>5, ReconcileEffects DEF ReconcileEffect
    <3>. QED
      BY <3>1 DEF RunnersOk, TypeOK, WorkerRecord, Busy
  <2>2. UNCHANGED workers /\ \A j \in Jobs : j # r => jobs'[j] = jobs[j]
    BY <1>5, ReconcileEffects DEF ReconcileEffect
  <2>. QED
    BY <2>1, <2>2 DEF RunnersOk, TokensUnique, Busy, At
<1>6. ASSUME NEW j \in Jobs, ExpireLease(j)
      PROVE  RunnersOk' /\ TokensUnique'
  <2>1. \A w \in Workers : Busy(w) => workers[w].job \in Jobs
    BY DEF RunnersOk, TypeOK, WorkerRecord, Busy
  <2>. QED
    BY <1>6, <2>1, ExpireEffects DEF ExpireEffect, RunnersOk, TokensUnique, Busy, At
<1>7. CASE UNCHANGED <<jobs, workers>>
  BY <1>7 DEF RunnersOk, TokensUnique, Busy, At
<1>. QED
  BY <1>1, <1>2, <1>3, <1>4, <1>5, <1>6, <1>7
  DEF Next, Claim, vars, agency, CreateDraft, Cancel, ExpireDraft, SetAdmission,
      PortalAccepts, PortalRejects

(* The other steps that touch the incident or its attempts.                  *)
CancelEffect ==
    /\ \A a \in Attempts : a # incident.attempt =>
          attempts'[a] = attempts[a] /\ approvals'[a] = approvals[a]
    /\ \A a \in Attempts : a = incident.attempt =>
          /\ ~attempts[a].writeStarted
          /\ attempts'[a].status = "CANCELLED"
          /\ attempts'[a].writeStarted = attempts[a].writeStarted
          /\ attempts'[a].draft = attempts[a].draft
          /\ approvals'[a] = "CANCELLED"
    /\ StatusEffect("CANCELLED")
    /\ UNCHANGED <<jobs, workers, agency>>

(* cancel has this effect.                                                   *)
LEMMA CancelEffects ==
    ASSUME TypeOK, Cancel
    PROVE  CancelEffect
<1>1. \A a \in Attempts : a # incident.attempt =>
          attempts'[a] = attempts[a] /\ approvals'[a] = approvals[a]
  BY DEF TypeOK, Cancel
<1>2. \A a \in Attempts : a = incident.attempt =>
          /\ ~attempts[a].writeStarted
          /\ attempts'[a].status = "CANCELLED"
          /\ attempts'[a].writeStarted = attempts[a].writeStarted
          /\ attempts'[a].draft = attempts[a].draft
          /\ approvals'[a] = "CANCELLED"
  BY DEF TypeOK, AttemptRecord, Cancel, CancelAllowed
<1>3. StatusEffect("CANCELLED")
  BY DEF TypeOK, IncidentRecord, Cancel, StatusEffect
<1>. QED
  BY <1>1, <1>2, <1>3 DEF Cancel, CancelEffect

(* make_draft touches the incident only.                                     *)
LEMMA CreateDraftEffects ==
    ASSUME TypeOK, CreateDraft
    PROVE  /\ incident.status \notin Reserved
           /\ incident'.status = "AWAITING_APPROVAL"
           /\ incident'.attempt = incident.attempt
           /\ incident'.ticket = incident.ticket
           /\ incident'.polls = incident.polls
           /\ UNCHANGED <<attempts, approvals, jobs, workers, agency>>
BY DEF TypeOK, IncidentRecord, CreateDraft

(* Every step keeps the jobs and the incident about attempts that exist.     *)
LEMMA JobsStep ==
    ASSUME TypeOK, RunnersOk, JobsOk, IncidentOk, PendingUntouched, ClicksOk, [Next]_vars
    PROVE  JobsOk' /\ IncidentOk' /\ PendingUntouched'
<1>. USE ConstantsAssumption DEF Jobs
<1>1. ASSUME NEW w \in Workers, Run(w)
      PROVE  JobsOk' /\ IncidentOk' /\ PendingUntouched'
  <2>. RunnerKept(w) /\ JobsKept /\ AttemptsKept(w)
    BY <1>1, RunKeeps, RunKeepsAttempts
  <2>1. JobsOk'
    BY DEF JobsOk, JobsKept, AttemptsKept
  <2>2. IncidentOk'
    BY DEF IncidentOk, AttemptsKept
  <2>3. ASSUME NEW a \in Attempts, jobs'[a].status = "pending"
        PROVE  clicks'[a] = 0 /\ (attempts'[a].status = "IN_FLIGHT" => ~attempts'[a].writeStarted)
    <3>1. jobs[a].status = "pending"
      BY <2>3 DEF JobsKept
    <3>2. workers[w].job # a
      BY <3>1 DEF RunnersOk, RunnerKept
    <3>3. clicks'[a] = 0
      <4>1. UNCHANGED clicks \/ Click(w)
        BY <1>1 DEF Run, PrepareSubmission, BrowserStops, BeforeWrite, BrowserReturns,
                    HandleRefusal, MarkUnknown, RecordReceipt, ReadAttempt, LookupReceipt,
                    TransactionFails, Settle, SettleFailure, agency
      <4>2. Click(w) => Target(w) # a
        BY <3>2, TargetType DEF Click, RunnersOk, At, SubmitSteps, RunnerKept
      <4>. QED
        BY <3>1, <4>1, <4>2 DEF PendingUntouched, Click, TypeOK
    <3>. QED
      BY <3>1, <3>2, <3>3 DEF PendingUntouched, AttemptsKept
  <2>. QED
    BY <2>1, <2>2, <2>3 DEF PendingUntouched
<1>2. ASSUME NEW w \in Workers, NEW S \in SUBSET Attempts, NEW j \in Jobs \cup {NoJob},
             ClaimJob(w, S, j)
      PROVE  JobsOk' /\ IncidentOk' /\ PendingUntouched'
  <2>. ClaimEffect(w, S, j)
    BY <1>2, ClaimEffects
  <2>0. /\ \A a \in S : jobs[a].status = "running"
        /\ j # NoJob => jobs[j].status \in {"pending", "running"}
        /\ UNCHANGED agency
    BY <1>2 DEF ClaimJob, Interrupted, Claimable
  <2>1. JobsOk'
    BY <2>0 DEF JobsOk, ClaimEffect
  <2>2. IncidentOk'
    BY <2>0 DEF IncidentOk, JobsOk, ClaimEffect
  <2>3. PendingUntouched'
    BY <2>0 DEF PendingUntouched, ClaimEffect, agency
  <2>. QED
    BY <2>1, <2>2, <2>3
<1>3. ASSUME NEW a \in Attempts, Approve(a)
      PROVE  JobsOk' /\ IncidentOk' /\ PendingUntouched'
  <2>. ApproveEffect(a)
    BY <1>3, ApproveEffects
  <2>1. JobsOk'
    BY DEF JobsOk, ApproveEffect
  <2>2. IncidentOk'
    BY DEF IncidentOk, ApproveEffect
  <2>3. clicks[a] = 0
    BY DEF ClicksOk, Spent, ApproveEffect, TypeOK
  <2>4. PendingUntouched'
    BY <2>3 DEF PendingUntouched, ApproveEffect, agency
  <2>. QED
    BY <2>1, <2>2, <2>4
<1>4. ASSUME NEW r \in Lookups, Reconcile(r)
      PROVE  JobsOk' /\ IncidentOk' /\ PendingUntouched'
  <2>. ReconcileEffect(r)
    BY <1>4, ReconcileEffects
  <2>1. incident.attempt \in Attempts
    BY DEF ReconcileEffect, IncidentOk, Reserved, TypeOK, IncidentRecord
  <2>2. JobsOk'
    BY <2>1 DEF JobsOk, IncidentOk, ReconcileEffect
  <2>. QED
    BY <2>2 DEF IncidentOk, PendingUntouched, ReconcileEffect, agency
<1>5. ASSUME NEW j \in Jobs, ExpireLease(j)
      PROVE  JobsOk' /\ IncidentOk' /\ PendingUntouched'
  <2>. ExpireEffect(j)
    BY <1>5, ExpireEffects
  <2>1. /\ UNCHANGED <<incident, attempts>>
        /\ \A k \in Jobs : /\ jobs'[k].status = jobs[k].status
                          /\ jobs'[k].attempt = jobs[k].attempt
    BY DEF ExpireEffect
  <2>2. JobsOk'
    BY <2>1 DEF JobsOk
  <2>. QED
    BY <2>1, <2>2 DEF IncidentOk, PendingUntouched, ExpireEffect, agency
<1>6. CASE Cancel
  <2>. CancelEffect
    BY <1>6, CancelEffects
  <2>1. JobsOk'
    BY DEF JobsOk, IncidentOk, CancelEffect
  <2>2. IncidentOk'
    BY DEF IncidentOk, CancelEffect, StatusEffect, Reserved
  <2>3. PendingUntouched'
    BY DEF PendingUntouched, CancelEffect, agency
  <2>. QED
    BY <2>1, <2>2, <2>3
<1>7. CASE CreateDraft
  BY <1>7, CreateDraftEffects DEF JobsOk, IncidentOk, PendingUntouched, Reserved, agency
<1>8. CASE UNCHANGED <<incident, attempts, jobs, clicks>>
  BY <1>8 DEF JobsOk, IncidentOk, PendingUntouched
<1>. QED
  BY <1>1, <1>2, <1>3, <1>4, <1>5, <1>6, <1>7, <1>8
  DEF Next, Claim, vars, agency, Abandon, ExpireDraft, SetAdmission, PortalAccepts, PortalRejects

-------------------------------------------------------------------------------

(* An attempt that is spent stays spent.                                     *)
LEMMA SpentStays ==
    ASSUME TypeOK, RunnersOk, JobsOk, PendingUntouched, [Next]_vars,
           NEW a \in Attempts, Spent(a)
    PROVE  Spent(a)'
<1>. USE ConstantsAssumption DEF Jobs
<1>1. ASSUME NEW w \in Workers, Run(w)
      PROVE  Spent(a)'
  <2>. RunnerKept(w) /\ JobsKept /\ AttemptsKept(w)
    BY <1>1, RunKeeps, RunKeepsAttempts
  <2>1. workers'[w].pc = "prepared" => workers[w].pc = "claimed"
    BY DEF RunnerKept, Freed
  <2>2. CASE attempts'[a].status # "IN_FLIGHT"
    BY <2>2 DEF Spent, AttemptsKept
  <2>3. CASE attempts'[a].status = "IN_FLIGHT"
    <3>1. attempts[a].status = "IN_FLIGHT" /\ attempts[a].writeStarted /\ attempts'[a].writeStarted
      BY <2>3 DEF Spent, AttemptsKept
    <3>2. \A v \in Workers :
            workers[v].job = a /\ workers[v].pc \in {"claimed", "prepared"} => ~Holds(v)
      BY <3>1 DEF Spent
    <3>3. ASSUME NEW v \in Workers, workers'[v].job = a, workers'[v].pc \in {"claimed", "prepared"}
          PROVE  ~Holds(v)'
      BY <2>1, <3>2, <3>3 DEF RunnerKept, Moves, Freed, JobsKept, Holds
    <3>. QED
      BY <2>3, <3>1, <3>3 DEF Spent
  <2>. QED
    BY <2>2, <2>3
<1>2. ASSUME NEW w \in Workers, NEW S \in SUBSET Attempts, NEW j \in Jobs \cup {NoJob},
             ClaimJob(w, S, j)
      PROVE  Spent(a)'
  <2>. ClaimEffect(w, S, j)
    BY <1>2, ClaimEffects
  <2>1. CASE attempts'[a].status # "IN_FLIGHT"
    BY <2>1 DEF Spent, ClaimEffect
  <2>2. CASE attempts'[a].status = "IN_FLIGHT"
    <3>1. attempts'[a] = attempts[a] /\ attempts[a].status = "IN_FLIGHT" /\ attempts[a].writeStarted
      BY <2>2 DEF Spent, ClaimEffect
    <3>2. a # j
      BY <1>2, <3>1 DEF ClaimJob, Claimable, Interrupted, PendingUntouched
    <3>3. ASSUME NEW v \in Workers, workers'[v].job = a
          PROVE  workers'[v] = workers[v] /\ jobs'[a].claims = jobs[a].claims
      BY <3>2, <3>3 DEF ClaimEffect
    <3>. QED
      BY <3>1, <3>3 DEF Spent, Holds
  <2>. QED
    BY <2>1, <2>2
<1>3. ASSUME NEW w \in Workers, Abandon(w)
      PROVE  Spent(a)'
  <2>. Freed(w) /\ UNCHANGED <<jobs, attempts>>
    BY <1>3, RunnerEffects DEF Abandon
  <2>. QED
    BY DEF Spent, Freed, Holds
<1>4. ASSUME NEW b \in Attempts, Approve(b)
      PROVE  Spent(a)'
  <2>. ApproveEffect(b)
    BY <1>4, ApproveEffects
  <2>1. a # b
    BY DEF ApproveEffect, Spent
  <2>. QED
    BY <2>1 DEF ApproveEffect, Spent, Holds
<1>5. ASSUME NEW r \in Lookups, Reconcile(r)
      PROVE  Spent(a)'
  BY <1>5, ReconcileEffects DEF ReconcileEffect, Spent, Holds
<1>6. ASSUME NEW j \in Jobs, ExpireLease(j)
      PROVE  Spent(a)'
  BY <1>6, ExpireEffects DEF ExpireEffect, Spent, Holds
<1>7. CASE Cancel
  BY <1>7, CancelEffects DEF CancelEffect, Spent, Holds
<1>8. CASE UNCHANGED <<attempts, jobs, workers>>
  BY <1>8 DEF Spent, Holds
<1>. QED
  BY <1>1, <1>2, <1>3, <1>4, <1>5, <1>6, <1>7, <1>8
  DEF Next, Claim, vars, agency, CreateDraft, ExpireDraft, SetAdmission, PortalAccepts,
      PortalRejects

(* before_write commits for the holder of the current token only, while the  *)
(* attempt is in flight, and only if it was not spent before.                *)
LEMMA AuthorizedOnce ==
    ASSUME TypeOK, RunnersOk, TokensUnique, JobsOk, NEW w \in Workers, BeforeWrite(w),
           workers'[w].pc = "authorized", NEW a, a = Target(w)
    PROVE  /\ a \in Attempts
           /\ workers[w].job = a
           /\ WriteAllowed(w)
           /\ ~Spent(a)
           /\ Spent(a)'
<1>0. Busy(w) /\ workers[w].job \in Attempts
  BY DEF BeforeWrite, Busy, At, RunnersOk, SubmitSteps
<1>1. a \in Attempts /\ workers[w].job = a /\ attempts[a] \in AttemptRecord
  BY <1>0, TargetType
<1>2. WriteAllowed(w) /\ Write(a, [attempts[a] EXCEPT !.writeStarted = TRUE])
  BY RunnerEffects DEF BeforeWrite
<1>3. WriteEffect(a, attempts[a].status, TRUE, attempts[a].draft)
  BY <1>1, <1>2, WriteEffects
<1>4. ~Spent(a)
  BY <1>1, <1>2 DEF Spent, WriteAllowed, BeforeWrite, At
<1>5. ASSUME NEW v \in Workers, workers'[v].job = a, workers'[v].pc \in {"claimed", "prepared"}
      PROVE  ~Holds(v)'
  <2>1. v # w
    BY <1>5
  <2>2. workers'[v] = workers[v] /\ jobs' = jobs
    BY <2>1, RunnerEffects DEF BeforeWrite, Moves
  <2>3. workers[v].token # workers[w].token
    BY <1>1, <1>5, <2>1, <2>2 DEF TokensUnique, Busy, At
  <2>. QED
    BY <1>1, <1>2, <1>5, <2>2, <2>3 DEF WriteAllowed, Holds
<1>6. attempts[a].status = "IN_FLIGHT"
  BY <1>2 DEF WriteAllowed
<1>7. attempts'[a].status = "IN_FLIGHT" /\ attempts'[a].writeStarted
  BY <1>1, <1>3, <1>6 DEF WriteEffect
<1>8. Spent(a)'
  BY <1>5, <1>7 DEF Spent
<1>. QED
  BY <1>1, <1>2, <1>4, <1>8

(* Every step keeps the clicks accounted for.                                *)
LEMMA ClicksStep ==
    ASSUME TypeOK, RunnersOk, TokensUnique, JobsOk, PendingUntouched, ClicksOk, [Next]_vars
    PROVE  ClicksOk'
<1>. USE ConstantsAssumption DEF Jobs
<1>0. \A a \in Attempts : Spent(a) => Spent(a)'
  BY SpentStays
<1>1. ASSUME NEW w \in Workers, Run(w)
      PROVE  ClicksOk'
  <2>. RunnerKept(w) /\ JobsKept
    BY <1>1, RunKeeps
  <2>1. CASE Click(w)
    <3>. PICK a : a = Target(w)
      OBVIOUS
    <3>1. a \in Attempts /\ workers[w].job = a /\ Busy(w)
      BY <2>1, TargetType DEF Click, RunnersOk, RunnerKept, SubmitSteps, At
    <3>0. workers[w].pc = "authorized"
      BY <2>1 DEF Click, At
    <3>2. /\ Spent(a)
          /\ clicks[a] = 0
          /\ \A v \in Workers \ {w} : workers[v].job = a => workers[v].pc # "authorized"
      BY <3>0, <3>1 DEF ClicksOk, At
    <3>5. Spent(a)'
      BY <1>0, <3>1, <3>2
    <3>3. /\ clicks'[a] = 1
          /\ \A b \in Attempts : b # a => clicks'[b] = clicks[b]
      BY <2>1, <3>1, <3>2 DEF Click, TypeOK
    <3>4. /\ workers'[w].pc = "clicked"
          /\ \A v \in Workers : v # w => workers'[v] = workers[v]
      BY <2>1 DEF Click, TypeOK
    <3>6. ASSUME NEW b \in Attempts
          PROVE  clicks'[b] <= 1 /\ (clicks'[b] > 0 => Spent(b)')
      <4>1. CASE b = a
        BY <3>3, <3>5, <4>1
      <4>2. CASE b # a
        BY <1>0, <3>3, <4>2 DEF ClicksOk
      <4>. QED
        BY <4>1, <4>2
    <3>7. ASSUME NEW b \in Attempts, NEW v \in Workers,
                 workers'[v].job = b, workers'[v].pc = "authorized"
          PROVE  /\ Spent(b)'
                 /\ clicks'[b] = 0
                 /\ \A u \in Workers \ {v} : workers'[u].job = b =>
                                              workers'[u].pc # "authorized"
      <4>1. v # w /\ workers'[v] = workers[v]
        BY <3>4, <3>7
      <4>2. b # a
        BY <3>2, <3>7, <4>1
      <4>3. /\ Spent(b)
            /\ clicks[b] = 0
            /\ \A u \in Workers \ {v} : workers[u].job = b => workers[u].pc # "authorized"
        BY <3>7, <4>1 DEF ClicksOk, At
      <4>4. Spent(b)' /\ clicks'[b] = 0
        BY <1>0, <3>3, <4>2, <4>3
      <4>. QED
        BY <3>4, <4>3, <4>4
    <3>. QED
      BY <3>6, <3>7 DEF ClicksOk, At
  <2>2. CASE ~Click(w)
    <3>1. UNCHANGED clicks
      BY <1>1, <2>2 DEF Run, PrepareSubmission, BrowserStops, BeforeWrite, BrowserReturns,
                        HandleRefusal, MarkUnknown, RecordReceipt, ReadAttempt, LookupReceipt,
                        TransactionFails, Settle, SettleFailure, agency
    <3>2. CASE workers'[w].pc # "authorized"
      <4>1. \A v \in Workers : workers'[v].pc = "authorized" => workers'[v] = workers[v]
        BY <3>2 DEF RunnerKept, Moves, Freed
      <4>2. ASSUME NEW v \in Workers, NEW a \in Attempts,
                   workers'[v].job = a, workers'[v].pc = "authorized"
            PROVE  /\ Spent(a)'
                   /\ clicks[a] = 0
                   /\ \A u \in Workers \ {v} : workers'[u].job = a =>
                                                workers'[u].pc # "authorized"
        BY <1>0, <4>1, <4>2 DEF ClicksOk, At
      <4>. QED
        BY <1>0, <3>1, <4>2 DEF ClicksOk, At
    <3>3. CASE workers'[w].pc = "authorized"
      <4>. PICK a : a = Target(w)
        OBVIOUS
      <4>1. BeforeWrite(w)
        BY <1>1, <2>2, <3>3, RunnerEffects
        DEF Run, PrepareSubmission, BrowserStops, BrowserReturns, HandleRefusal, MarkUnknown,
            RecordReceipt, ReadAttempt, LookupReceipt, TransactionFails, Settle, SettleFailure,
            Freed
      <4>2. /\ a \in Attempts
            /\ workers[w].job = a
            /\ ~Spent(a)
            /\ Spent(a)'
        BY <3>3, <4>1, AuthorizedOnce
      <4>3. /\ clicks[a] = 0
            /\ \A v \in Workers : workers[v].job = a => workers[v].pc # "authorized"
        BY <4>2 DEF ClicksOk, At, TypeOK
      <4>4. /\ \A v \in Workers : v # w => workers'[v] = workers[v]
            /\ workers'[w].job = a
        BY <3>3, <4>2 DEF RunnerKept, Moves, Freed
      <4>5. ASSUME NEW b \in Attempts, NEW v \in Workers,
                   workers'[v].job = b, workers'[v].pc = "authorized"
            PROVE  /\ Spent(b)'
                   /\ clicks[b] = 0
                   /\ \A u \in Workers \ {v} : workers'[u].job = b =>
                                                workers'[u].pc # "authorized"
        <5>1. CASE v = w
          <6>1. b = a
            BY <4>4, <4>5, <5>1
          <6>. QED
            BY <4>2, <4>3, <4>4, <5>1, <6>1
        <5>2. CASE v # w
          <6>1. workers'[v] = workers[v]
            BY <4>4, <5>2
          <6>2. b # a
            BY <4>3, <4>5, <6>1
          <6>3. /\ Spent(b)
                /\ clicks[b] = 0
                /\ \A u \in Workers \ {v} : workers[u].job = b =>
                                             workers[u].pc # "authorized"
            BY <4>5, <6>1 DEF ClicksOk, At
          <6>4. Spent(b)'
            BY <1>0, <6>3
          <6>. QED
            BY <4>4, <6>2, <6>3, <6>4
        <5>. QED
          BY <5>1, <5>2
      <4>6. \A b \in Attempts : clicks[b] <= 1 /\ (clicks[b] > 0 => Spent(b)')
        BY <1>0 DEF ClicksOk
      <4>. QED
        BY <3>1, <4>5, <4>6 DEF ClicksOk, At
    <3>. QED
      BY <3>2, <3>3
  <2>. QED
    BY <2>1, <2>2
<1>2. ASSUME UNCHANGED clicks,
             \A v \in Workers : workers'[v] = workers[v] \/ workers'[v].pc # "authorized"
      PROVE  ClicksOk'
  BY <1>0, <1>2 DEF ClicksOk, At
<1>3. ASSUME NEW w \in Workers, NEW S \in SUBSET Attempts, NEW j \in Jobs \cup {NoJob},
             ClaimJob(w, S, j)
      PROVE  ClicksOk'
  <2>1. ClaimEffect(w, S, j) /\ UNCHANGED clicks
    BY <1>3, ClaimEffects DEF ClaimJob, agency
  <2>. QED
    BY <1>2, <2>1 DEF ClaimEffect
<1>4. ASSUME NEW w \in Workers, Abandon(w)
      PROVE  ClicksOk'
  <2>1. Freed(w) /\ UNCHANGED clicks
    BY <1>4, RunnerEffects DEF Abandon, agency
  <2>. QED
    BY <1>2, <2>1 DEF Freed
<1>5. CASE UNCHANGED <<workers, clicks>>
  BY <1>2, <1>5
<1>. QED
  BY <1>1, <1>3, <1>4, <1>5
  DEF Next, Claim, vars, agency, CreateDraft, Approve, Cancel, Reconcile, ExpireDraft,
      ExpireLease, SetAdmission, PortalAccepts, PortalRejects

-------------------------------------------------------------------------------
(* Receipts *)

(* The counts of the agency are changed by a click and by the portal alone.  *)
LEMMA AgencyStep ==
    ASSUME [Next]_vars
    PROVE  \/ UNCHANGED agency
           \/ \E w \in Workers : Click(w)
           \/ \E a \in Attempts : PortalAccepts(a) \/ PortalRejects(a)
<1>1. ASSUME NEW w \in Workers, Run(w)
      PROVE  Click(w) \/ UNCHANGED agency
  <2>1. CASE PrepareSubmission(w) \/ BrowserStops(w) \/ BeforeWrite(w) \/ BrowserReturns(w)
    BY <2>1 DEF PrepareSubmission, BrowserStops, BeforeWrite, BrowserReturns, agency
  <2>2. CASE HandleRefusal(w) \/ MarkUnknown(w)
    BY <2>2 DEF HandleRefusal, MarkUnknown, agency
  <2>3. CASE RecordReceipt(w) \/ ReadAttempt(w) \/ LookupReceipt(w)
    BY <2>3 DEF RecordReceipt, ReadAttempt, LookupReceipt, agency
  <2>4. CASE TransactionFails(w) \/ Settle(w) \/ SettleFailure(w)
    BY <2>4 DEF TransactionFails, Settle, SettleFailure, agency
  <2>. QED
    BY <1>1, <2>1, <2>2, <2>3, <2>4 DEF Run
<1>2. ASSUME NEW w \in Workers, Claim(w)
      PROVE  UNCHANGED agency
  BY <1>2 DEF Claim, ClaimJob, agency
<1>3. ASSUME CreateDraft \/ ExpireDraft \/ SetAdmission \/ Cancel
      PROVE  UNCHANGED agency
  BY <1>3 DEF CreateDraft, ExpireDraft, SetAdmission, Cancel, agency
<1>4. ASSUME NEW a \in Attempts, Approve(a)
      PROVE  UNCHANGED agency
  BY <1>4 DEF Approve, agency
<1>5. ASSUME NEW r \in Lookups, Reconcile(r)
      PROVE  UNCHANGED agency
  BY <1>5 DEF Reconcile, agency
<1>6. ASSUME NEW w \in Workers, Abandon(w)
      PROVE  UNCHANGED agency
  BY <1>6 DEF Abandon, agency
<1>7. ASSUME NEW j \in Jobs, ExpireLease(j)
      PROVE  UNCHANGED agency
  BY <1>7 DEF ExpireLease, agency
<1>8. CASE UNCHANGED vars
  BY <1>8 DEF vars, agency
<1>. QED
  BY <1>1, <1>2, <1>3, <1>4, <1>5, <1>6, <1>7, <1>8 DEF Next

(* Nothing is posted or ticketed that was not clicked, and the portal keeps  *)
(* its tickets.                                                              *)
LEMMA PortalStep ==
    ASSUME TypeOK, RunnersOk, JobsOk, posts \cup tickets \subseteq Sent, [Next]_vars
    PROVE  (posts \cup tickets \subseteq Sent)' /\ tickets \subseteq tickets'
<1>1. ASSUME NEW w \in Workers, Click(w)
      PROVE  (posts \cup tickets \subseteq Sent)' /\ tickets \subseteq tickets'
  <2>. PICK a : a = Target(w)
    OBVIOUS
  <2>1. a \in Attempts
    BY <1>1, TargetType DEF Click, At, Busy
  <2>2. clicks[a] \in Nat /\ clicks' = [clicks EXCEPT ![a] = clicks[a] + 1]
    BY <1>1, <2>1 DEF Click, TypeOK
  <2>3. \A b \in Attempts : b \in Sent \/ b = a => clicks'[b] > 0
    BY <2>1, <2>2 DEF Sent, TypeOK
  <2>4. posts' = posts \cup {a} /\ tickets' = tickets
    BY <1>1 DEF Click
  <2>. QED
    BY <2>1, <2>3, <2>4 DEF Sent, TypeOK
<1>2. ASSUME NEW a \in Attempts, PortalAccepts(a) \/ PortalRejects(a)
      PROVE  (posts \cup tickets \subseteq Sent)' /\ tickets \subseteq tickets'
  BY <1>2 DEF PortalAccepts, PortalRejects, Sent
<1>3. CASE UNCHANGED agency
  BY <1>3 DEF agency, Sent
<1>. QED
  BY <1>1, <1>2, <1>3, AgencyStep

(* A runner that holds a receipt works on an attempt the portal has a ticket *)
(* for: it has read the receipt page or found the receipt by lookup.         *)
LEMMA FoundStep ==
    ASSUME TypeOK, RunnersOk, JobsOk, ReceiptsOk, [Next]_vars,
           NEW v \in Workers, workers'[v].pc \in {"receipt", "found"}
    PROVE  Target(v)' \in tickets'
<1>0. tickets \subseteq tickets'
  BY PortalStep DEF ReceiptsOk
<1>1. ASSUME NEW w \in Workers, Run(w)
      PROVE  Target(v)' \in tickets'
  <2>1. RunnerKept(w) /\ JobsKept
    BY <1>1, RunKeeps
  <2>2. workers'[v].job = workers[v].job /\ workers[v].job \in Jobs
    BY <2>1, TargetType DEF RunnerKept, Moves, Freed, RunnersOk, Busy, At
  <2>3. Target(v)' = Target(v)
    BY <2>1, <2>2 DEF JobsKept, Target
  <2>4. CASE workers[v].pc \in {"receipt", "found"}
    BY <1>0, <2>3, <2>4 DEF ReceiptsOk
  <2>5. CASE workers[v].pc \notin {"receipt", "found"}
    <3>1. v = w
      BY <2>1, <2>5 DEF RunnerKept, Moves, Freed
    <3>2. BrowserReturns(w) \/ LookupReceipt(w)
      BY <1>1, <2>5, <3>1, RunnerEffects
      DEF Run, PrepareSubmission, BrowserStops, BeforeWrite, Click, HandleRefusal, MarkUnknown,
          RecordReceipt, ReadAttempt, TransactionFails, Settle, SettleFailure, Freed, At, TypeOK,
          WorkerRecord
    <3>3. Target(w) \in tickets
      BY <3>1, <3>2, RunnerEffects DEF BrowserReturns, LookupReceipt
    <3>. QED
      BY <1>0, <2>3, <3>1, <3>3
  <2>. QED
    BY <2>4, <2>5
<1>2. ASSUME workers'[v] = workers[v],
             \A j \in Jobs : jobs[j].status # "absent" => jobs'[j].attempt = jobs[j].attempt
      PROVE  Target(v)' \in tickets'
  <2>1. Busy(v)
    BY <1>2 DEF Busy, At
  <2>2. workers[v].job \in Jobs /\ jobs[workers[v].job].status # "absent"
    BY <2>1, TargetType DEF RunnersOk
  <2>. QED
    BY <1>0, <1>2, <2>2 DEF ReceiptsOk, Target
<1>3. ASSUME NEW w \in Workers, NEW S \in SUBSET Attempts, NEW j \in Jobs \cup {NoJob},
             ClaimJob(w, S, j)
      PROVE  Target(v)' \in tickets'
  <2>. ClaimEffect(w, S, j)
    BY <1>3, ClaimEffects
  <2>1. workers'[v] = workers[v]
    BY DEF ClaimEffect
  <2>2. ASSUME NEW k \in Jobs
        PROVE  jobs'[k].attempt = jobs[k].attempt
    <3>1. CASE k \in S
      BY <3>1 DEF ClaimEffect
    <3>2. CASE k = j
      BY <3>2, ConstantsAssumption DEF ClaimEffect
    <3>3. CASE k # j /\ k \notin S
      BY <3>3 DEF ClaimEffect
    <3>. QED
      BY <3>1, <3>2, <3>3
  <2>. QED
    BY <1>2, <2>1, <2>2
<1>4. ASSUME NEW w \in Workers, Abandon(w)
      PROVE  Target(v)' \in tickets'
  <2>1. Freed(w) /\ UNCHANGED jobs
    BY <1>4, RunnerEffects DEF Abandon
  <2>. QED
    BY <1>2, <2>1 DEF Freed
<1>5. ASSUME NEW a \in Attempts, Approve(a)
      PROVE  Target(v)' \in tickets'
  <2>1. ApproveEffect(a)
    BY <1>5, ApproveEffects
  <2>. QED
    BY <1>2, <2>1 DEF ApproveEffect, JobsOk
<1>6. ASSUME NEW r \in Lookups, Reconcile(r)
      PROVE  Target(v)' \in tickets'
  <2>1. ReconcileEffect(r)
    BY <1>6, ReconcileEffects
  <2>. QED
    BY <1>2, <1>6, <2>1 DEF ReconcileEffect, Reconcile
<1>7. ASSUME NEW j \in Jobs, ExpireLease(j)
      PROVE  Target(v)' \in tickets'
  <2>1. ExpireEffect(j)
    BY <1>7, ExpireEffects
  <2>. QED
    BY <1>2, <2>1 DEF ExpireEffect
<1>8. CASE UNCHANGED <<workers, jobs>>
  BY <1>2, <1>8
<1>. QED
  BY <1>1, <1>3, <1>4, <1>5, <1>6, <1>7, <1>8
  DEF Next, Claim, vars, CreateDraft, Cancel, ExpireDraft, SetAdmission, PortalAccepts,
      PortalRejects

(* Only record_receipt sets the ticket, and only the first one counts.       *)
LEMMA TicketStep ==
    ASSUME TypeOK, RunnersOk, JobsOk, ReceiptsOk, [Next]_vars
    PROVE  TicketIsIssued'
<1>0. tickets \subseteq tickets'
  BY PortalStep DEF ReceiptsOk
<1>1. ASSUME NEW w \in Workers, RecordReceipt(w)
      PROVE  TicketIsIssued'
  <2>1. Target(w) \in tickets
    BY <1>1 DEF RecordReceipt, ReceiptsOk, At
  <2>2. CASE UNCHANGED incident
    BY <1>0, <2>2 DEF ReceiptsOk, TicketIsIssued
  <2>3. CASE ~ReceiptKnown
    <3>1. incident.ticket = NoAttempt /\ incident.polls = 0
      BY <2>3 DEF ReceiptKnown, ReceiptsOk, TicketIsIssued, TypeOK, IncidentRecord
    <3>2. \E n \in {0, 1} : incident' = [incident EXCEPT !.status = "RECEIPT_CONFIRMED",
                                                         !.ticket = Target(w), !.polls = n]
      <4>1. admission => incident' = [incident EXCEPT !.status = "RECEIPT_CONFIRMED",
                                                      !.ticket = Target(w), !.polls = 1]
        BY <1>1, <2>3, <3>1 DEF RecordReceipt
      <4>2. ~admission => incident' = [incident EXCEPT !.status = "RECEIPT_CONFIRMED",
                                                       !.ticket = Target(w), !.polls = 0]
        BY <1>1, <2>3, <3>1 DEF RecordReceipt
      <4>. QED
        BY <4>1, <4>2
    <3>4. incident'.ticket = Target(w) /\ incident'.polls <= 1
      BY <3>2 DEF TypeOK, IncidentRecord
    <3>3. Target(w) # NoAttempt
      BY <2>1, ConstantsAssumption DEF TypeOK
    <3>. QED
      BY <1>0, <2>1, <3>3, <3>4 DEF TicketIsIssued
  <2>. QED
    BY <1>1, <2>2, <2>3 DEF RecordReceipt
<1>2. CASE incident'.ticket = incident.ticket /\ incident'.polls = incident.polls
  BY <1>0, <1>2 DEF ReceiptsOk, TicketIsIssued
<1>3. ASSUME NEW w \in Workers, Run(w), ~RecordReceipt(w)
      PROVE  TicketIsIssued'
  <2>1. \/ UNCHANGED incident
        \/ \E status : SetStatus(status)
    BY <1>3
    DEF Run, PrepareSubmission, BrowserStops, BeforeWrite, Click, BrowserReturns, HandleRefusal,
        MarkUnknown, ReadAttempt, LookupReceipt, TransactionFails, Settle, SettleFailure,
        CloseAttempt
  <2>2. \A status : SetStatus(status) =>
            incident'.ticket = incident.ticket /\ incident'.polls = incident.polls
    BY DEF SetStatus, TypeOK, IncidentRecord
  <2>. QED
    BY <1>2, <2>1, <2>2
<1>4. CASE \E w \in Workers : Claim(w)
  BY <1>2, <1>4 DEF Claim, ClaimJob, TypeOK, IncidentRecord
<1>5. CASE CreateDraft \/ Cancel \/ \E a \in Attempts : Approve(a)
  BY <1>2, <1>5 DEF CreateDraft, Cancel, Approve, TypeOK, IncidentRecord
<1>6. CASE UNCHANGED incident
  BY <1>2, <1>6
<1>. QED
  BY <1>1, <1>3, <1>4, <1>5, <1>6
  DEF Next, vars, Reconcile, Abandon, ExpireDraft, ExpireLease, SetAdmission, PortalAccepts,
      PortalRejects

-------------------------------------------------------------------------------
(* The theorems *)

(* The invariant holds initially.                                            *)
LEMMA ClickInvInit == Init => ClickInv
<1>. SUFFICES ASSUME Init PROVE ClickInv
  OBVIOUS
<1>1. TypeOK
  BY RecordTypes, ConstantsAssumption DEF Init, Jobs, TypeOK, IncidentRecord
<1>2. RunnersOk /\ TokensUnique
  BY DEF Init, RunnersOk, TokensUnique, Busy, At, IdleWorker, SubmitSteps, LookupSteps
<1>3. JobsOk /\ IncidentOk /\ PendingUntouched
  BY ConstantsAssumption
  DEF Init, Jobs, JobsOk, IncidentOk, PendingUntouched, AbsentJob, UnusedAttempt, Reserved
<1>4. ClicksOk
  <2>1. ASSUME NEW a \in Attempts
        PROVE  clicks[a] <= 1 /\ ~(clicks[a] > 0)
    <3>1. clicks[a] = 0
      BY DEF Init
    <3>2. 0 <= 1 /\ ~(0 > 0)
      OBVIOUS
    <3>. QED
      BY <3>1, <3>2, Zenon
  <2>2. \A w \in Workers : ~At(w, "authorized")
    BY DEF Init, IdleWorker, At
  <2>. QED
    BY <2>1, <2>2 DEF ClicksOk
<1>5. ReceiptsOk
  BY ConstantsAssumption DEF Init, ReceiptsOk, TicketIsIssued, IdleWorker
<1>. QED
  BY <1>1, <1>2, <1>3, <1>4, <1>5 DEF ClickInv

(* Every step keeps the invariant.                                           *)
LEMMA ClickInvStep == ClickInv /\ [Next]_vars => ClickInv'
<1>. SUFFICES ASSUME ClickInv, [Next]_vars PROVE ClickInv'
  OBVIOUS
<1>. USE DEF ClickInv
<1>1. TypeOK'
  BY TypeStep
<1>2. RunnersOk' /\ TokensUnique'
  BY RunnersStep
<1>3. JobsOk' /\ IncidentOk' /\ PendingUntouched'
  BY JobsStep
<1>4. ClicksOk'
  BY ClicksStep
<1>5. ReceiptsOk'
  BY PortalStep, FoundStep, TicketStep DEF ReceiptsOk
<1>. QED
  BY <1>1, <1>2, <1>3, <1>4, <1>5

(* The invariant behind the theorems below holds in every state.             *)
THEOREM ClickInvariance == Spec => []ClickInv
  BY ClickInvInit, ClickInvStep, PTL DEF Spec

(* Every record keeps its shape and every status the states of models.py.    *)
THEOREM TypeCorrect == Spec => []TypeOK
<1>1. ClickInv => TypeOK
  BY DEF ClickInv
<1>. QED
  BY <1>1, ClickInvariance, PTL

(* The submit button is clicked at most once for an attempt, whatever        *)
(* crashes, re-claims and overlapping runners there are.                     *)
THEOREM AtMostOneClick == Spec => []ClickOnce
<1>1. ClickInv => ClickOnce
  BY DEF ClickInv, ClicksOk, ClickOnce
<1>. QED
  BY <1>1, ClickInvariance, PTL

(* A recorded ticket is one the portal issued, and it is polled by at most   *)
(* one chain of status checks.                                               *)
THEOREM TicketsAreIssued == Spec => []TicketIsIssued
<1>1. ClickInv => TicketIsIssued
  BY DEF ClickInv, ReceiptsOk
<1>. QED
  BY <1>1, ClickInvariance, PTL

-------------------------------------------------------------------------------
(* When a lease outlives the run it covers *)

(* What a step of a run can be, in terms of the runner, its attempt, the     *)
(* incident and the job.                                                     *)

(* The runner moves on and writes nothing.                                   *)
StepEffect(w) ==
    /\ UNCHANGED <<incident, attempts, jobs, clicks>>
    /\ Moves(w)
    /\ workers[w].pc # "erred"
    /\ \/ workers'[w].pc \in {"returned", "erred"}
       \/ /\ workers[w].pc = "claimed" /\ workers'[w].pc = "prepared"
          /\ workers[w].job \in Attempts
          /\ attempts[Target(w)].status = "IN_FLIGHT"
          /\ workers'[w].view = attempts[Target(w)]
       \/ /\ workers[w].pc = "claimed" /\ workers'[w].pc = "looking"
          /\ workers[w].job \in Lookups
          /\ workers'[w].view = attempts[Target(w)]
       \/ /\ workers[w].pc = "looking" /\ workers'[w].pc = "found"
          /\ Target(w) \in tickets
          /\ workers'[w].view = workers[w].view
       \/ /\ workers[w].pc = "prepared" /\ workers'[w].pc \in {"refused", "unknown"}
          /\ workers'[w].view = workers[w].view
       \/ /\ workers[w].pc \in {"authorized", "clicked"}
          /\ workers'[w].pc \in {"receipt", "unknown"}
          /\ workers'[w].view = workers[w].view

(* before_write commits.                                                     *)
StartEffect(w) ==
    /\ workers[w].pc = "prepared"
    /\ attempts[Target(w)].status = "IN_FLIGHT"
    /\ incident.status = "IN_FLIGHT"
    /\ incident.draft = attempts[Target(w)].draft
    /\ WriteEffect(Target(w), attempts[Target(w)].status, TRUE, attempts[Target(w)].draft)
    /\ UNCHANGED <<incident, jobs, clicks>>
    /\ Moves(w)
    /\ \/ /\ workers'[w].pc = "authorized"
          /\ workers'[w].view.writeStarted
          /\ workers'[w].view.draft = attempts[Target(w)].draft
       \/ /\ workers'[w].pc = "refused"
          /\ workers'[w].view = workers[w].view

ClickEffect(w) ==
    /\ workers[w].pc = "authorized" /\ workers'[w].pc = "clicked"
    /\ workers'[w].view = workers[w].view
    /\ Moves(w)
    /\ clicks[Target(w)] = 0
    /\ \A a \in Attempts : a # Target(w) => clicks'[a] = clicks[a]
    /\ UNCHANGED <<incident, attempts, jobs>>

(* An attempt in flight is closed under its own job.                         *)
CloseEffect(w, status) ==
    /\ workers[w].job \in Attempts
    /\ attempts[Target(w)].status = "IN_FLIGHT"
    /\ status \in {"OUTCOME_UNKNOWN", "FAILED_BEFORE_SUBMISSION"}
    /\ attempts[Target(w)].writeStarted => status = "OUTCOME_UNKNOWN" \/ workers[w].pc = "claimed"
    /\ WriteEffect(Target(w), status, attempts[Target(w)].writeStarted, attempts[Target(w)].draft)
    /\ StatusEffect(status)
    /\ UNCHANGED clicks
    /\ \A j \in Jobs : j # workers[w].job => jobs'[j] = jobs[j]
    /\ \/ /\ workers[w].pc = "claimed" /\ UNCHANGED jobs
          /\ Moves(w) /\ workers'[w].pc \in {"returned", "erred"}
       \/ workers[w].pc = "erred" /\ Freed(w)

(* A runner that has not written takes the start of the write back.          *)
RefuseEffect(w, status) ==
    /\ workers[w].pc = "refused"
    /\ attempts[Target(w)].status # "CANCELLED"
    /\ status \in Refusals
    /\ WriteEffect(Target(w), status, FALSE, workers[w].view.draft)
    /\ StatusEffect(status)
    /\ UNCHANGED <<jobs, clicks>>
    /\ Moves(w) /\ workers'[w].pc \in {"returned", "erred"}

(* The outcome is recorded, as unknown or as confirmed.                      *)
OutcomeEffect(w) ==
    /\ \/ /\ workers[w].pc = "unknown"
          /\ WriteEffect(Target(w), "OUTCOME_UNKNOWN", workers[w].view.writeStarted,
                         workers[w].view.draft)
          /\ StatusEffect("OUTCOME_UNKNOWN")
       \/ /\ workers[w].pc \in {"receipt", "found"}
          /\ WriteEffect(Target(w), "RECEIPT_CONFIRMED", workers[w].view.writeStarted,
                         workers[w].view.draft)
          /\ incident.ticket = NoAttempt
          /\ incident'.status = "RECEIPT_CONFIRMED"
          /\ incident'.ticket = Target(w)
          /\ incident'.attempt = incident.attempt
          /\ incident'.draft = incident.draft
    /\ UNCHANGED <<jobs, clicks>>
    /\ Moves(w) /\ workers'[w].pc \in {"returned", "erred"}

(* The job is settled, or left to the runner that took it over.              *)
SettleEffect(w) ==
    /\ UNCHANGED <<incident, attempts, clicks>>
    /\ \A j \in Jobs : j # workers[w].job => jobs'[j] = jobs[j]
    /\ \/ Freed(w)
       \/ /\ Moves(w) /\ workers'[w].pc = "erred"
          /\ jobs'[workers[w].job].status = "completed"

RunEffect(w) ==
    \/ StepEffect(w)
    \/ StartEffect(w)
    \/ ClickEffect(w)
    \/ \E status \in Outcomes : CloseEffect(w, status) \/ RefuseEffect(w, status)
    \/ OutcomeEffect(w)
    \/ SettleEffect(w)

(* Every step of a run is one of these.                                      *)
LEMMA RunEffects ==
    ASSUME TypeOK, RunnersOk, JobsOk, ClicksOk, NEW w \in Workers, Run(w)
    PROVE  RunEffect(w)
<1>0. Busy(w) /\ RunnerKept(w)
  BY RunKeeps DEF RunnerKept
<1>1. /\ Target(w) \in Attempts
      /\ attempts[Target(w)] \in AttemptRecord
      /\ workers[w].job \in Jobs
      /\ workers[w].job \in Attempts => Target(w) = workers[w].job
  BY <1>0, TargetType
<1>2. workers[w].view \in AttemptRecord
  BY DEF TypeOK, WorkerRecord
<1>3. CASE PrepareSubmission(w)
  <2>0. workers[w].pc = "claimed" /\ workers[w].job \in Attempts /\ UNCHANGED <<jobs, clicks>>
    BY <1>3 DEF PrepareSubmission, At, agency
  <2>1. CASE /\ attempts[Target(w)].status = "IN_FLIGHT"
             /\ CloseAttempt(Target(w), "FAILED_BEFORE_SUBMISSION")
             /\ Committed(w, "FAILED_BEFORE_SUBMISSION")
    <3>1. /\ WriteEffect(Target(w), "FAILED_BEFORE_SUBMISSION",
                         attempts[Target(w)].writeStarted, attempts[Target(w)].draft)
          /\ StatusEffect("FAILED_BEFORE_SUBMISSION")
      BY <1>1, <2>1, WriteEffects
    <3>2. Moves(w) /\ workers'[w].pc \in {"returned", "erred"}
      BY <2>1, RunnerEffects
    <3>3. CloseEffect(w, "FAILED_BEFORE_SUBMISSION")
      BY <2>0, <2>1, <3>1, <3>2 DEF CloseEffect
    <3>. QED
      BY <3>3 DEF RunEffect, Outcomes, Refusals
  <2>2. CASE (\E result : Return(w, result)) \/ Raise(w)
    <3>1. Moves(w) /\ workers'[w].pc \in {"returned", "erred"}
      BY <2>2, RunnerEffects
    <3>2. CASE UNCHANGED <<incident, attempts>>
      BY <2>0, <3>1, <3>2 DEF RunEffect, StepEffect
    <3>. QED
      BY <1>3, <2>1, <3>2 DEF PrepareSubmission
  <2>3. CASE /\ Keep(w, "prepared", attempts[Target(w)])
             /\ attempts[Target(w)].status = "IN_FLIGHT"
             /\ UNCHANGED <<incident, attempts>>
    <3>1. /\ Moves(w) /\ workers'[w].pc = "prepared"
          /\ workers'[w].view = attempts[Target(w)]
      BY <2>3, RunnerEffects
    <3>. QED
      BY <2>0, <2>3, <3>1 DEF RunEffect, StepEffect
  <2>. QED
    BY <1>3, <2>1, <2>2, <2>3 DEF PrepareSubmission
<1>4. CASE BrowserStops(w)
  <2>1. /\ workers[w].pc = "prepared"
        /\ Moves(w)
        /\ workers'[w].pc \in {"refused", "unknown"}
        /\ workers'[w].view = workers[w].view
    BY <1>4, RunnerEffects DEF BrowserStops, At
  <2>. QED
    BY <1>4, <2>1 DEF BrowserStops, RunEffect, StepEffect, agency
<1>5. CASE BeforeWrite(w)
  <2>0. workers[w].pc = "prepared" /\ UNCHANGED <<incident, jobs, clicks>>
    BY <1>5 DEF BeforeWrite, At, agency
  <2>1. CASE ~WriteAllowed(w)
    <3>1. /\ Moves(w) /\ workers'[w].pc = "refused"
          /\ workers'[w].view = workers[w].view
          /\ UNCHANGED attempts
      BY <1>5, <2>1, RunnerEffects DEF BeforeWrite
    <3>. QED
      BY <2>0, <3>1 DEF RunEffect, StepEffect
  <2>2. CASE WriteAllowed(w)
    <3>1. WriteEffect(Target(w), attempts[Target(w)].status, TRUE, attempts[Target(w)].draft)
      BY <1>1, <1>5, <2>2, WriteEffects DEF BeforeWrite
    <3>2. /\ Moves(w)
          /\ \/ /\ workers'[w].pc = "authorized"
                /\ workers'[w].view = [attempts[Target(w)] EXCEPT !.writeStarted = TRUE]
             \/ /\ workers'[w].pc = "refused"
                /\ workers'[w].view = workers[w].view
      BY <1>5, <2>2, RunnerEffects DEF BeforeWrite
    <3>3. /\ [attempts[Target(w)] EXCEPT !.writeStarted = TRUE].writeStarted
          /\ [attempts[Target(w)] EXCEPT !.writeStarted = TRUE].draft = attempts[Target(w)].draft
      BY <1>1 DEF AttemptRecord
    <3>4. /\ attempts[Target(w)].status = "IN_FLIGHT"
          /\ incident.status = "IN_FLIGHT"
          /\ incident.draft = attempts[Target(w)].draft
      BY <2>2 DEF WriteAllowed
    <3>. QED
      BY <2>0, <3>1, <3>2, <3>3, <3>4 DEF RunEffect, StartEffect
  <2>. QED
    BY <2>1, <2>2
<1>6. CASE Click(w)
  <2>1. workers[w].pc = "authorized" /\ UNCHANGED <<incident, attempts, jobs>>
    BY <1>6 DEF Click, At
  <2>2. workers[w].job = Target(w) /\ clicks[Target(w)] = 0
    BY <1>1, <2>1 DEF ClicksOk, RunnersOk, SubmitSteps, At
  <2>3. \A a \in Attempts : a # Target(w) => clicks'[a] = clicks[a]
    BY <1>6 DEF Click, TypeOK
  <2>4. /\ Moves(w) /\ workers'[w].pc = "clicked"
        /\ workers'[w].view = workers[w].view
    BY <1>6 DEF Click, Moves, TypeOK, WorkerRecord
  <2>. QED
    BY <2>1, <2>2, <2>3, <2>4 DEF RunEffect, ClickEffect
<1>7. CASE BrowserReturns(w)
  <2>1. /\ workers[w].pc \in {"authorized", "clicked"}
        /\ Moves(w)
        /\ workers'[w].pc \in {"receipt", "unknown"}
        /\ workers'[w].view = workers[w].view
    BY <1>7, RunnerEffects DEF BrowserReturns, At
  <2>. QED
    BY <1>7, <2>1 DEF BrowserReturns, RunEffect, StepEffect, agency
<1>8. CASE HandleRefusal(w)
  <2>0. workers[w].pc = "refused" /\ UNCHANGED <<jobs, clicks>>
    BY <1>8 DEF HandleRefusal, At, agency
  <2>1. CASE Return(w, "CANCELLED") /\ UNCHANGED <<incident, attempts>>
    <3>1. Moves(w) /\ workers'[w].pc = "returned"
      BY <2>1, RunnerEffects
    <3>. QED
      BY <2>0, <2>1, <3>1 DEF RunEffect, StepEffect
  <2>2. CASE attempts[Target(w)].status # "CANCELLED"
    <3>1. /\ WriteEffect(Target(w), workers[w].result, FALSE, workers[w].view.draft)
          /\ StatusEffect(workers[w].result)
      BY <1>1, <1>2, <1>8, <2>2, WriteEffects DEF HandleRefusal
    <3>2. Moves(w) /\ workers'[w].pc \in {"returned", "erred"}
      BY <1>8, <2>2, RunnerEffects DEF HandleRefusal
    <3>3. workers[w].result \in Refusals
      BY <2>0 DEF RunnersOk, At
    <3>4. RefuseEffect(w, workers[w].result)
      BY <2>0, <2>2, <3>1, <3>2, <3>3 DEF RefuseEffect
    <3>. QED
      BY <3>3, <3>4 DEF RunEffect, Outcomes
  <2>. QED
    BY <1>8, <2>1, <2>2 DEF HandleRefusal
<1>9. CASE MarkUnknown(w)
  <2>1. /\ WriteEffect(Target(w), "OUTCOME_UNKNOWN", workers[w].view.writeStarted,
                       workers[w].view.draft)
        /\ StatusEffect("OUTCOME_UNKNOWN")
    BY <1>1, <1>2, <1>9, WriteEffects DEF MarkUnknown
  <2>2. Moves(w) /\ workers'[w].pc \in {"returned", "erred"}
    BY <1>9, RunnerEffects DEF MarkUnknown
  <2>. QED
    BY <1>9, <2>1, <2>2 DEF MarkUnknown, At, agency, RunEffect, OutcomeEffect
<1>10. CASE RecordReceipt(w)
  <2>0. workers[w].pc \in {"receipt", "found"} /\ UNCHANGED <<jobs, clicks>>
    BY <1>10 DEF RecordReceipt, At, agency
  <2>1. Moves(w) /\ workers'[w].pc \in {"returned", "erred"}
    BY <1>10, RunnerEffects DEF RecordReceipt
  <2>2. CASE ReceiptKnown
    BY <1>10, <2>0, <2>1, <2>2 DEF RecordReceipt, RunEffect, StepEffect
  <2>3. CASE ~ReceiptKnown
    <3>1. WriteEffect(Target(w), "RECEIPT_CONFIRMED", workers[w].view.writeStarted,
                      workers[w].view.draft)
      BY <1>1, <1>2, <1>10, <2>3, WriteEffects DEF RecordReceipt
    <3>2. /\ incident'.status = "RECEIPT_CONFIRMED"
          /\ incident'.ticket = Target(w)
          /\ incident'.attempt = incident.attempt
          /\ incident'.draft = incident.draft
      BY <1>10, <2>3 DEF RecordReceipt, TypeOK, IncidentRecord
    <3>3. incident.ticket = NoAttempt
      BY <2>3 DEF ReceiptKnown
    <3>. QED
      BY <2>0, <2>1, <3>1, <3>2, <3>3 DEF RunEffect, OutcomeEffect
  <2>. QED
    BY <2>2, <2>3
<1>11. CASE ReadAttempt(w)
  <2>1. /\ Moves(w) /\ workers'[w].pc = "looking"
        /\ workers'[w].view = attempts[Target(w)]
    BY <1>11, RunnerEffects DEF ReadAttempt
  <2>. QED
    BY <1>11, <2>1 DEF ReadAttempt, At, agency, RunEffect, StepEffect
<1>12. CASE LookupReceipt(w)
  <2>1. /\ Moves(w)
        /\ \/ workers'[w].pc \in {"returned", "erred"}
           \/ /\ workers'[w].pc = "found" /\ Target(w) \in tickets
              /\ workers'[w].view = workers[w].view
    BY <1>12, RunnerEffects DEF LookupReceipt
  <2>. QED
    BY <1>12, <2>1 DEF LookupReceipt, At, agency, RunEffect, StepEffect
<1>13. CASE TransactionFails(w)
  <2>1. Moves(w) /\ workers'[w].pc = "erred"
    BY <1>13, RunnerEffects DEF TransactionFails
  <2>. QED
    BY <1>13, <2>1 DEF TransactionFails, agency, RunEffect, StepEffect
<1>14. CASE Settle(w)
  <2>1. \/ Freed(w)
        \/ Moves(w) /\ workers'[w].pc = "erred"
    BY <1>14, RunnerEffects DEF Settle
  <2>2. \A j \in Jobs : j # workers[w].job => jobs'[j] = jobs[j]
    BY <1>14 DEF Settle, Closed, TypeOK
  <2>3. Freed(w) \/ jobs'[workers[w].job].status = "completed"
    <3>1. Release(w) => Freed(w)
      BY RunnerEffects
    <3>2. Closed(workers[w].job, "completed", workers[w].result) =>
              jobs'[workers[w].job].status = "completed"
      BY <1>1 DEF Closed, TypeOK, JobRecord
    <3>. QED
      BY <1>14, <3>1, <3>2 DEF Settle
  <2>. QED
    BY <1>14, <2>1, <2>2, <2>3 DEF Settle, agency, RunEffect, SettleEffect
<1>15. CASE SettleFailure(w)
  <2>0. workers[w].pc = "erred" /\ Freed(w) /\ UNCHANGED clicks
    BY <1>15, RunnerEffects DEF SettleFailure, At, agency
  <2>1. \A j \in Jobs : j # workers[w].job => jobs'[j] = jobs[j]
    BY <1>15 DEF SettleFailure, Closed, TypeOK
  <2>2. CASE UNCHANGED <<incident, attempts>>
    BY <2>0, <2>1, <2>2 DEF RunEffect, SettleEffect
  <2>3. CASE /\ workers[w].job \in Attempts
             /\ attempts[workers[w].job].status = "IN_FLIGHT"
             /\ CloseAttempt(workers[w].job, FailureStatus(workers[w].job))
    <3>. PICK status : status = FailureStatus(Target(w))
      OBVIOUS
    <3>1. /\ status \in {"OUTCOME_UNKNOWN", "FAILED_BEFORE_SUBMISSION"}
          /\ attempts[Target(w)].writeStarted => status = "OUTCOME_UNKNOWN"
      BY DEF FailureStatus
    <3>2. /\ WriteEffect(Target(w), status, attempts[Target(w)].writeStarted,
                         attempts[Target(w)].draft)
          /\ StatusEffect(status)
      BY <1>1, <2>3, WriteEffects
    <3>3. CloseEffect(w, status)
      BY <1>1, <2>0, <2>1, <2>3, <3>1, <3>2 DEF CloseEffect
    <3>. QED
      BY <3>1, <3>3 DEF RunEffect, Outcomes, Reserved, Refusals
  <2>. QED
    BY <1>15, <2>2, <2>3 DEF SettleFailure
<1>. QED
  BY <1>3, <1>4, <1>5, <1>6, <1>7, <1>8, <1>9, <1>10, <1>11, <1>12, <1>13, <1>14, <1>15 DEF Run

-------------------------------------------------------------------------------
(* What surrounds a step of a run: the other runners stand still, nobody     *)
(* else works on the runner's job, and a job stays about its attempt.        *)
RunContext(w) ==
    /\ workers[w].pc # "idle"
    /\ workers[w].job \in Jobs
    /\ Target(w) \in Attempts
    /\ workers[w].job \in Attempts => workers[w].job = Target(w)
    /\ \A v \in Workers : v # w => workers'[v] = workers[v]
    /\ \A v \in Workers : workers'[v].pc # "idle" =>
          /\ workers[v].pc # "idle"
          /\ workers'[v].job = workers[v].job
          /\ workers[v].job \in Jobs
          /\ Target(v) \in Attempts
          /\ Target(v)' = Target(v)
          /\ workers[v].job \in Attempts => workers[v].job = Target(v)
    /\ \A v \in Workers : v # w /\ workers[v].pc # "idle" => workers[v].job # workers[w].job
    /\ JobsKept
    /\ UNCHANGED approvals

(* Every step of a run has this context. *)
LEMMA RunContexts ==
    ASSUME TypeOK, RunnersOk, TokensUnique, JobsOk, Exclusive, NEW w \in Workers, Run(w)
    PROVE  RunContext(w)
<1>0. Busy(w) /\ RunnerKept(w) /\ JobsKept
  BY RunKeeps DEF RunnerKept
<1>1. \A v \in Workers : workers[v].pc # "idle" =>
          /\ workers[v].job \in Jobs
          /\ Target(v) \in Attempts
          /\ workers[v].job \in Attempts => workers[v].job = Target(v)
  BY TargetType DEF Busy, At
<1>2. \A v \in Workers : v # w => workers'[v] = workers[v]
  BY <1>0 DEF RunnerKept, Moves, Freed
<1>3. \A v \in Workers : workers'[v].pc # "idle" =>
          workers[v].pc # "idle" /\ workers'[v].job = workers[v].job
  BY <1>0, <1>2 DEF RunnerKept, Moves, Freed, Busy, At
<1>4. \A v \in Workers : workers'[v].pc # "idle" => Target(v)' = Target(v)
  BY <1>0, <1>1, <1>3 DEF JobsKept, Target
<1>5. \A v \in Workers : v # w /\ workers[v].pc # "idle" => workers[v].job # workers[w].job
  BY <1>0 DEF TokensUnique, Exclusive, Holds, Busy, At
<1>6. UNCHANGED approvals
  BY RunKeepsAttempts DEF AttemptsKept
<1>7. workers[w].pc # "idle"
  BY <1>0 DEF Busy, At
<1>. QED
  BY <1>0, <1>1, <1>2, <1>3, <1>4, <1>5, <1>6, <1>7 DEF RunContext

(* A step of a run leaves every busy runner with its token and its lease.    *)
LEMMA RunExclusive ==
    ASSUME Exclusive, NEW w \in Workers, RunContext(w), RunEffect(w)
    PROVE  Exclusive'
<1>1. ASSUME NEW v \in Workers, workers'[v].pc # "idle", v # w
      PROVE  /\ Holds(v)'
             /\ \/ jobs'[workers'[v].job].status = "running" /\ jobs'[workers'[v].job].leased
                \/ jobs'[workers'[v].job].status = "completed" /\ workers'[v].pc = "erred"
  <2>1. workers'[v] = workers[v] /\ workers[v].job \in Jobs /\ workers[v].job # workers[w].job
    BY <1>1 DEF RunContext
  <2>2. jobs'[workers[v].job] = jobs[workers[v].job]
    BY <2>1 DEF RunEffect, StepEffect, StartEffect, ClickEffect, CloseEffect, RefuseEffect,
                OutcomeEffect, SettleEffect
  <2>. QED
    BY <1>1, <2>1, <2>2 DEF Exclusive, Holds, Busy, At
<1>2. ASSUME workers'[w].pc # "idle"
      PROVE  /\ Holds(w)'
             /\ \/ jobs'[workers'[w].job].status = "running" /\ jobs'[workers'[w].job].leased
                \/ jobs'[workers'[w].job].status = "completed" /\ workers'[w].pc = "erred"
  <2>1. Moves(w)
    BY <1>2 DEF RunEffect, StepEffect, StartEffect, ClickEffect, CloseEffect, RefuseEffect,
                OutcomeEffect, SettleEffect, Freed
  <2>2. \/ UNCHANGED jobs /\ workers[w].pc # "erred"
        \/ jobs'[workers[w].job].status = "completed" /\ workers'[w].pc = "erred"
    BY <1>2 DEF RunEffect, StepEffect, StartEffect, ClickEffect, CloseEffect, RefuseEffect,
                OutcomeEffect, SettleEffect, Freed
  <2>3. Holds(w)'
    BY <2>1 DEF RunContext, JobsKept, Moves, Exclusive, Holds, Busy, At
  <2>. QED
    BY <2>1, <2>2, <2>3 DEF RunContext, Moves, Exclusive, Busy, At
<1>. QED
  BY <1>1, <1>2 DEF Exclusive, Busy, At

-------------------------------------------------------------------------------
(* The rest of the invariant, effect by effect.                              *)
RestInv ==
    StartedIsReserved /\ SentIsStarted /\ ViewsOk /\ LookupsOk /\ InFlightIsApproved
                      /\ ReservationConsistent /\ ConfirmedIsOwn

(* Where no runner and no record the invariant speaks of moves, it stays.    *)
LEMMA RecordsUnchanged ==
    ASSUME RestInv, UNCHANGED <<incident, attempts, approvals, jobs>>
    PROVE  /\ StartedIsReserved' /\ LookupsOk' /\ InFlightIsApproved'
           /\ ReservationConsistent' /\ ConfirmedIsOwn'
<1>. USE DEF RestInv
<1>1. StartedIsReserved'
  BY DEF StartedIsReserved
<1>2. LookupsOk'
  BY DEF LookupsOk
<1>3. InFlightIsApproved'
  BY DEF InFlightIsApproved
<1>4. ReservationConsistent' /\ ConfirmedIsOwn'
  BY DEF ReservationConsistent, ConfirmedIsOwn
<1>. QED
  BY <1>1, <1>2, <1>3, <1>4

(* The runner moves on: what it starts to hold agrees with the records.      *)
LEMMA StepKeeps ==
    ASSUME RunnersOk, ReceiptsOk, RestInv, NEW w \in Workers, RunContext(w), StepEffect(w)
    PROVE  RestInv'
<1>. USE DEF RestInv, At
<1>0. UNCHANGED <<incident, attempts, approvals, jobs, clicks>>
  BY DEF StepEffect, RunContext
<1>1. Sent' = Sent
  BY <1>0 DEF Sent
<1>2. \A v \in Workers : v # w => workers'[v] = workers[v] /\ Target(v)' = Target(v)
  BY <1>0 DEF RunContext, Target
<1>3. workers'[w].job = workers[w].job /\ Target(w)' = Target(w) /\ Target(w) \in Attempts
  BY <1>0 DEF StepEffect, Moves, RunContext, Target
<1>4. Target(w) \in tickets => Target(w) \in Sent /\ attempts[Target(w)].writeStarted
  BY DEF ReceiptsOk, SentIsStarted
<1>5. SentIsStarted'
  <2>1. \A a \in Sent' : attempts'[a].writeStarted
    BY <1>0, <1>1 DEF SentIsStarted
  <2>2. workers'[w].pc # "authorized"
    BY DEF StepEffect
  <2>3. \A v \in Workers : workers'[v].pc = "authorized" => attempts'[Target(v)'].writeStarted
    BY <1>0, <1>2, <2>2 DEF SentIsStarted
  <2>4. ASSUME NEW v \in Workers, v # w, workers'[v].job \in Attempts
        PROVE  /\ workers'[v].pc \in {"claimed", "prepared"} => ~attempts'[Target(v)'].writeStarted
               /\ workers'[v].pc = "refused" => Target(v)' \notin Sent'
               /\ workers'[v].pc \in {"prepared", "refused"} =>
                     attempts'[Target(v)'].status \in {"IN_FLIGHT", "CANCELLED"}
    BY <1>0, <1>1, <1>2, <2>4 DEF SentIsStarted
  <2>5. ASSUME workers'[w].job \in Attempts
        PROVE  /\ workers'[w].pc \in {"claimed", "prepared"} => ~attempts'[Target(w)'].writeStarted
               /\ workers'[w].pc = "refused" => Target(w)' \notin Sent'
               /\ workers'[w].pc \in {"prepared", "refused"} =>
                     attempts'[Target(w)'].status \in {"IN_FLIGHT", "CANCELLED"}
    BY <1>0, <1>1, <1>3, <2>5 DEF SentIsStarted, StepEffect
  <2>. QED
    BY <2>1, <2>3, <2>4, <2>5 DEF SentIsStarted
<1>6. ViewsOk'
  <2>1. ASSUME NEW v \in Workers, v # w, workers'[v].pc \in SubmitSteps \cup LookupSteps
        PROVE  /\ workers'[v].view.draft = attempts'[Target(v)'].draft
               /\ workers'[v].pc # "looking" /\ workers'[v].view.writeStarted =>
                     attempts'[Target(v)'].writeStarted
               /\ workers'[v].pc # "refused" /\ attempts'[Target(v)'].writeStarted =>
                     workers'[v].view.writeStarted
    BY <1>0, <1>2, <2>1 DEF ViewsOk
  <2>2. ASSUME workers'[w].pc \in SubmitSteps \cup LookupSteps
        PROVE  /\ workers'[w].view.draft = attempts'[Target(w)'].draft
               /\ workers'[w].pc # "looking" /\ workers'[w].view.writeStarted =>
                     attempts'[Target(w)'].writeStarted
               /\ workers'[w].pc # "refused" /\ attempts'[Target(w)'].writeStarted =>
                     workers'[w].view.writeStarted
    BY <1>0, <1>3, <1>4, <2>2 DEF ViewsOk, StepEffect, SubmitSteps, LookupSteps
  <2>. QED
    BY <2>1, <2>2 DEF ViewsOk
<1>. QED
  BY <1>0, <1>5, <1>6, RecordsUnchanged

(* before_write marks the reserved attempt; nobody else holds a copy of it.  *)
LEMMA StartKeeps ==
    ASSUME RunnersOk, RestInv, NEW w \in Workers, RunContext(w), StartEffect(w)
    PROVE  RestInv'
<1>. PICK a : a = Target(w)
  OBVIOUS
<1>. USE DEF RestInv, At
<1>0. /\ UNCHANGED <<incident, approvals, jobs, clicks>>
      /\ a \in Attempts
      /\ workers[w].pc = "prepared"
      /\ workers[w].job = a
  BY DEF StartEffect, RunContext, RunnersOk, SubmitSteps
<1>1. /\ \A b \in Attempts : b # a => attempts'[b] = attempts[b]
      /\ attempts'[a].status = attempts[a].status
      /\ attempts'[a].writeStarted
      /\ attempts'[a].draft = attempts[a].draft
  BY DEF StartEffect, WriteEffect
<1>2. /\ attempts[a].status = "IN_FLIGHT"
      /\ incident.status = "IN_FLIGHT"
      /\ incident.draft = attempts[a].draft
      /\ incident.attempt = a
      /\ approvals[a] = "RESERVED"
      /\ jobs[a].status # "pending"
  BY <1>0 DEF StartEffect, ReservationConsistent, InFlightIsApproved, RunnersOk, Busy
<1>3. a \notin Sent /\ Sent' = Sent
  BY <1>0 DEF SentIsStarted, Sent
<1>4. \A v \in Workers : v # w /\ workers'[v].pc # "idle" =>
          /\ workers'[v] = workers[v]
          /\ Target(v)' = Target(v)
          /\ Target(v) \in Attempts
          /\ workers[v].job \in Attempts => Target(v) # a
  BY <1>0 DEF RunContext
<1>5. /\ workers'[w].job = a /\ Target(w)' = a
      /\ \/ /\ workers'[w].pc = "authorized"
            /\ workers'[w].view.writeStarted
            /\ workers'[w].view.draft = attempts[a].draft
         \/ /\ workers'[w].pc = "refused"
            /\ workers'[w].view = workers[w].view
  BY <1>0 DEF StartEffect, Moves, RunContext
<1>6. \A v \in Workers : workers[v].pc \in LookupSteps => Target(v) # a
  BY <1>2 DEF LookupsOk, RunnersOk, Busy, Target, LookupSteps
<1>7. StartedIsReserved'
  BY <1>0, <1>1, <1>2 DEF StartedIsReserved, Reserved
<1>8. SentIsStarted'
  <2>1. \A b \in Sent' : attempts'[b].writeStarted
    BY <1>1, <1>3 DEF SentIsStarted, Sent
  <2>2. ASSUME NEW v \in Workers, workers'[v].pc = "authorized"
        PROVE  attempts'[Target(v)'].writeStarted
    BY <1>1, <1>4, <1>5, <2>2 DEF SentIsStarted
  <2>3. ASSUME NEW v \in Workers, workers'[v].job \in Attempts,
               workers'[v].pc \in {"claimed", "prepared", "refused"}
        PROVE  /\ workers'[v].pc # "refused" => ~attempts'[Target(v)'].writeStarted
               /\ workers'[v].pc = "refused" => Target(v)' \notin Sent'
               /\ workers'[v].pc # "claimed" =>
                     attempts'[Target(v)'].status \in {"IN_FLIGHT", "CANCELLED"}
    <3>1. CASE v = w
      BY <1>1, <1>2, <1>3, <1>5, <2>3, <3>1
    <3>2. CASE v # w
      <4>1. /\ workers'[v] = workers[v] /\ Target(v)' = Target(v)
            /\ attempts'[Target(v)] = attempts[Target(v)]
        BY <1>1, <1>4, <2>3, <3>2
      <4>. QED
        BY <1>3, <2>3, <4>1 DEF SentIsStarted
    <3>. QED
      BY <3>1, <3>2
  <2>. QED
    BY <2>1, <2>2, <2>3 DEF SentIsStarted
<1>9. ViewsOk'
  <2>1. ASSUME NEW v \in Workers, workers'[v].pc \in SubmitSteps \cup LookupSteps
        PROVE  /\ workers'[v].view.draft = attempts'[Target(v)'].draft
               /\ workers'[v].pc # "looking" /\ workers'[v].view.writeStarted =>
                     attempts'[Target(v)'].writeStarted
               /\ workers'[v].pc # "refused" /\ attempts'[Target(v)'].writeStarted =>
                     workers'[v].view.writeStarted
    <3>1. CASE v = w
      BY <1>0, <1>1, <1>5, <3>1 DEF ViewsOk, SubmitSteps
    <3>2. CASE v # w
      <4>1. /\ workers'[v] = workers[v] /\ Target(v)' = Target(v)
            /\ attempts'[Target(v)] = attempts[Target(v)]
        BY <1>1, <1>4, <1>6, <2>1, <3>2 DEF SubmitSteps, LookupSteps, RunnersOk
      <4>. QED
        BY <2>1, <4>1 DEF ViewsOk
    <3>. QED
      BY <3>1, <3>2
  <2>. QED
    BY <2>1 DEF ViewsOk
<1>10. LookupsOk' /\ ConfirmedIsOwn'
  BY <1>0 DEF LookupsOk, ConfirmedIsOwn
<1>11. \A b \in Attempts : attempts'[b].status = attempts[b].status
  BY <1>1
<1>12. InFlightIsApproved' /\ ReservationConsistent'
  BY <1>0, <1>11 DEF InFlightIsApproved, ReservationConsistent
<1>. QED
  BY <1>7, <1>8, <1>9, <1>10, <1>12

(* The click counts for the attempt its runner has marked.                   *)
LEMMA ClickKeeps ==
    ASSUME TypeOK, RunnersOk, RestInv, NEW w \in Workers, RunContext(w), ClickEffect(w)
    PROVE  RestInv'
<1>. PICK a : a = Target(w)
  OBVIOUS
<1>. USE DEF RestInv, At
<1>0. /\ UNCHANGED <<incident, attempts, approvals, jobs>>
      /\ a \in Attempts
      /\ workers[w].pc = "authorized"
      /\ workers[w].job = a
      /\ attempts[a].writeStarted
  BY DEF ClickEffect, RunContext, RunnersOk, SubmitSteps, SentIsStarted
<1>1. Sent' \subseteq Sent \cup {a}
  BY DEF ClickEffect, Sent
<1>2. \A v \in Workers : v # w /\ workers'[v].pc # "idle" =>
          /\ workers'[v] = workers[v]
          /\ Target(v)' = Target(v)
          /\ workers[v].job \in Attempts => Target(v) # a
  BY <1>0 DEF RunContext
<1>3. /\ Target(w)' = a
      /\ workers'[w].pc = "clicked"
      /\ workers'[w].view = workers[w].view
  BY <1>0 DEF ClickEffect, RunContext
<1>4. SentIsStarted'
  <2>1. \A b \in Sent' : attempts'[b].writeStarted
    BY <1>0, <1>1 DEF SentIsStarted
  <2>2. ASSUME NEW v \in Workers, workers'[v].pc = "authorized"
        PROVE  attempts'[Target(v)'].writeStarted
    BY <1>0, <1>2, <1>3, <2>2 DEF SentIsStarted
  <2>3. ASSUME NEW v \in Workers, workers'[v].job \in Attempts,
               workers'[v].pc \in {"claimed", "prepared", "refused"}
        PROVE  /\ workers'[v].pc # "refused" => ~attempts'[Target(v)'].writeStarted
               /\ workers'[v].pc = "refused" => Target(v)' \notin Sent'
               /\ workers'[v].pc # "claimed" =>
                     attempts'[Target(v)'].status \in {"IN_FLIGHT", "CANCELLED"}
    <3>1. v # w
      BY <1>3, <2>3
    <3>2. workers'[v] = workers[v] /\ Target(v)' = Target(v) /\ Target(v) # a
      BY <1>2, <2>3, <3>1
    <3>. QED
      BY <1>0, <1>1, <2>3, <3>2 DEF SentIsStarted
  <2>. QED
    BY <2>1, <2>2, <2>3 DEF SentIsStarted
<1>5. ViewsOk'
  <2>1. ASSUME NEW v \in Workers, workers'[v].pc \in SubmitSteps \cup LookupSteps
        PROVE  /\ workers'[v].view.draft = attempts'[Target(v)'].draft
               /\ workers'[v].pc # "looking" /\ workers'[v].view.writeStarted =>
                     attempts'[Target(v)'].writeStarted
               /\ workers'[v].pc # "refused" /\ attempts'[Target(v)'].writeStarted =>
                     workers'[v].view.writeStarted
    <3>1. CASE v = w
      BY <1>0, <1>3, <3>1 DEF ViewsOk, SubmitSteps
    <3>2. CASE v # w
      BY <1>0, <1>2, <2>1, <3>2 DEF ViewsOk, SubmitSteps, LookupSteps
    <3>. QED
      BY <3>1, <3>2
  <2>. QED
    BY <2>1 DEF ViewsOk
<1>. QED
  BY <1>0, <1>4, <1>5, RecordsUnchanged

(* An attempt in flight is closed by the runner of its own job.              *)
LEMMA CloseKeeps ==
    ASSUME RunnersOk, RestInv, NEW w \in Workers, RunContext(w),
           NEW status, CloseEffect(w, status)
    PROVE  RestInv'
<1>. PICK a : a = Target(w)
  OBVIOUS
<1>. USE DEF RestInv, At
<1>0. /\ UNCHANGED <<approvals, clicks>>
      /\ a \in Attempts
      /\ workers[w].job = a
      /\ attempts[a].status = "IN_FLIGHT"
      /\ incident.attempt = a
      /\ status \in {"OUTCOME_UNKNOWN", "FAILED_BEFORE_SUBMISSION"}
      /\ attempts[a].writeStarted => status = "OUTCOME_UNKNOWN"
  BY DEF CloseEffect, RunContext, ReservationConsistent, SentIsStarted
<1>1. /\ \A b \in Attempts : b # a => attempts'[b] = attempts[b]
      /\ attempts'[a].status = status
      /\ attempts'[a].writeStarted = attempts[a].writeStarted
      /\ attempts'[a].draft = attempts[a].draft
      /\ incident'.status = status
      /\ incident'.attempt = a
      /\ incident'.draft = incident.draft
  BY <1>0 DEF CloseEffect, WriteEffect, StatusEffect
<1>2. /\ \A b \in Attempts : attempts[b].writeStarted => b = a
      /\ \A b \in Attempts : attempts[b].status = "IN_FLIGHT" => b = a
  BY <1>0 DEF StartedIsReserved, ReservationConsistent
<1>3. \A b \in Attempts : /\ attempts'[b].writeStarted = attempts[b].writeStarted
                          /\ attempts'[b].draft = attempts[b].draft
  BY <1>1
<1>4. workers'[w].pc \in {"idle", "returned", "erred"}
  BY DEF CloseEffect, Freed
<1>5. \A v \in Workers : v # w /\ workers'[v].pc # "idle" =>
          /\ workers'[v] = workers[v]
          /\ Target(v)' = Target(v)
          /\ Target(v) \in Attempts
          /\ workers[v].job \in Attempts => Target(v) # a
  BY <1>0 DEF RunContext
<1>6. Sent' = Sent
  BY <1>0 DEF Sent
<1>7. StartedIsReserved'
  <2>1. a \in Jobs /\ jobs'[a].status = "pending" => jobs[a].status = "pending"
    BY <1>0 DEF RunContext, JobsKept
  <2>2. ASSUME NEW b \in Attempts, attempts'[b].writeStarted
        PROVE  b = a /\ attempts[a].writeStarted
    BY <1>1, <1>2, <2>2
  <2>3. attempts[a].writeStarted =>
            /\ incident'.draft = attempts'[a].draft
            /\ attempts'[a].status = "OUTCOME_UNKNOWN"
            /\ incident'.status = "OUTCOME_UNKNOWN"
            /\ approvals'[a] = "RESERVED"
            /\ jobs'[a].status # "pending"
    BY <1>0, <1>1, <2>1 DEF StartedIsReserved, Jobs
  <2>. QED
    BY <1>1, <2>2, <2>3 DEF StartedIsReserved, Reserved
<1>8. SentIsStarted'
  <2>1. \A b \in Sent' : attempts'[b].writeStarted
    BY <1>3, <1>6 DEF SentIsStarted, Sent
  <2>2. ASSUME NEW v \in Workers, workers'[v].pc = "authorized"
        PROVE  attempts'[Target(v)'].writeStarted
    BY <1>3, <1>4, <1>5, <2>2 DEF SentIsStarted
  <2>3. ASSUME NEW v \in Workers, workers'[v].job \in Attempts,
               workers'[v].pc \in {"claimed", "prepared", "refused"}
        PROVE  /\ workers'[v].pc # "refused" => ~attempts'[Target(v)'].writeStarted
               /\ workers'[v].pc = "refused" => Target(v)' \notin Sent'
               /\ workers'[v].pc # "claimed" =>
                     attempts'[Target(v)'].status \in {"IN_FLIGHT", "CANCELLED"}
    <3>1. /\ workers'[v] = workers[v] /\ Target(v)' = Target(v)
          /\ attempts'[Target(v)] = attempts[Target(v)]
      BY <1>1, <1>4, <1>5, <2>3
    <3>. QED
      BY <1>6, <2>3, <3>1 DEF SentIsStarted
  <2>. QED
    BY <2>1, <2>2, <2>3 DEF SentIsStarted
<1>9. ViewsOk'
  <2>1. ASSUME NEW v \in Workers, workers'[v].pc \in SubmitSteps \cup LookupSteps
        PROVE  /\ workers'[v].view.draft = attempts'[Target(v)'].draft
               /\ workers'[v].pc # "looking" /\ workers'[v].view.writeStarted =>
                     attempts'[Target(v)'].writeStarted
               /\ workers'[v].pc # "refused" /\ attempts'[Target(v)'].writeStarted =>
                     workers'[v].view.writeStarted
    <3>1. workers'[v] = workers[v] /\ Target(v)' = Target(v) /\ Target(v) \in Attempts
      BY <1>4, <1>5, <2>1 DEF SubmitSteps, LookupSteps
    <3>. QED
      BY <1>3, <2>1, <3>1 DEF ViewsOk
  <2>. QED
    BY <2>1 DEF ViewsOk
<1>10. LookupsOk' /\ ConfirmedIsOwn'
  BY <1>0, <1>1 DEF LookupsOk, ConfirmedIsOwn
<1>11. InFlightIsApproved' /\ ReservationConsistent'
  BY <1>0, <1>1, <1>2 DEF InFlightIsApproved, ReservationConsistent
<1>. QED
  BY <1>7, <1>8, <1>9, <1>10, <1>11

(* A refusal takes back the mark of an attempt that was not sent.            *)
LEMMA RefuseKeeps ==
    ASSUME RunnersOk, ReceiptsOk, RestInv, NEW w \in Workers, RunContext(w),
           NEW status, RefuseEffect(w, status)
    PROVE  RestInv'
<1>. PICK a : a = Target(w)
  OBVIOUS
<1>. USE DEF RestInv, At
<1>0. /\ UNCHANGED <<approvals, jobs, clicks>>
      /\ a \in Attempts
      /\ workers[w].job = a
      /\ workers[w].pc = "refused"
      /\ status \in Refusals
  BY DEF RefuseEffect, RunContext, RunnersOk, SubmitSteps
<1>1. /\ attempts[a].status = "IN_FLIGHT"
      /\ incident.attempt = a
      /\ a \notin Sent
      /\ workers[w].view.draft = attempts[a].draft
  BY <1>0 DEF RefuseEffect, ReservationConsistent, SentIsStarted, ViewsOk, SubmitSteps
<1>2. /\ \A b \in Attempts : b # a => attempts'[b] = attempts[b]
      /\ attempts'[a].status = status
      /\ ~attempts'[a].writeStarted
      /\ attempts'[a].draft = attempts[a].draft
      /\ incident'.status = status
      /\ incident'.attempt = a
  BY <1>1 DEF RefuseEffect, WriteEffect, StatusEffect
<1>3. \A b \in Attempts : b # a => ~attempts[b].writeStarted /\ attempts[b].status # "IN_FLIGHT"
  BY <1>1 DEF StartedIsReserved, ReservationConsistent
<1>4. workers'[w].pc \in {"returned", "erred"}
  BY DEF RefuseEffect
<1>5. \A v \in Workers : v # w /\ workers'[v].pc # "idle" =>
          /\ workers'[v] = workers[v]
          /\ Target(v)' = Target(v)
          /\ Target(v) \in Attempts
          /\ workers[v].job \in Attempts => Target(v) # a
  BY <1>0 DEF RunContext
<1>6. Sent' = Sent
  BY <1>0 DEF Sent
<1>7. StartedIsReserved'
  BY <1>2, <1>3 DEF StartedIsReserved
<1>8. SentIsStarted'
  <2>1. \A b \in Sent' : attempts'[b].writeStarted
    BY <1>1, <1>2, <1>6 DEF SentIsStarted, Sent
  <2>2. ASSUME NEW v \in Workers, workers'[v].pc = "authorized"
        PROVE  attempts'[Target(v)'].writeStarted
    <3>1. /\ workers'[v] = workers[v] /\ Target(v)' = Target(v)
          /\ attempts'[Target(v)] = attempts[Target(v)]
      BY <1>2, <1>4, <1>5, <2>2 DEF RunnersOk, SubmitSteps
    <3>. QED
      BY <2>2, <3>1 DEF SentIsStarted
  <2>3. ASSUME NEW v \in Workers, workers'[v].job \in Attempts,
               workers'[v].pc \in {"claimed", "prepared", "refused"}
        PROVE  /\ workers'[v].pc # "refused" => ~attempts'[Target(v)'].writeStarted
               /\ workers'[v].pc = "refused" => Target(v)' \notin Sent'
               /\ workers'[v].pc # "claimed" =>
                     attempts'[Target(v)'].status \in {"IN_FLIGHT", "CANCELLED"}
    <3>1. /\ workers'[v] = workers[v] /\ Target(v)' = Target(v)
          /\ attempts'[Target(v)] = attempts[Target(v)]
      BY <1>2, <1>4, <1>5, <2>3
    <3>. QED
      BY <1>6, <2>3, <3>1 DEF SentIsStarted
  <2>. QED
    BY <2>1, <2>2, <2>3 DEF SentIsStarted
<1>9. ViewsOk'
  <2>1. ASSUME NEW v \in Workers, workers'[v].pc \in SubmitSteps \cup LookupSteps
        PROVE  /\ workers'[v].view.draft = attempts'[Target(v)'].draft
               /\ workers'[v].pc # "looking" /\ workers'[v].view.writeStarted =>
                     attempts'[Target(v)'].writeStarted
               /\ workers'[v].pc # "refused" /\ attempts'[Target(v)'].writeStarted =>
                     workers'[v].view.writeStarted
    <3>1. workers'[v] = workers[v] /\ Target(v)' = Target(v) /\ Target(v) \in Attempts
      BY <1>4, <1>5, <2>1 DEF SubmitSteps, LookupSteps
    <3>2. CASE Target(v) # a
      BY <1>2, <2>1, <3>1, <3>2 DEF ViewsOk
    <3>3. CASE Target(v) = a
      <4>1. workers[v].pc \in LookupSteps
        BY <1>4, <1>5, <2>1, <3>1, <3>3 DEF RunnersOk, SubmitSteps, LookupSteps
      <4>2. workers[v].pc # "found"
        BY <1>1, <3>3 DEF ReceiptsOk
      <4>. QED
        BY <1>2, <2>1, <3>1, <3>3, <4>1, <4>2 DEF ViewsOk, LookupSteps
    <3>. QED
      BY <3>2, <3>3
  <2>. QED
    BY <2>1 DEF ViewsOk
<1>10. LookupsOk' /\ ConfirmedIsOwn'
  BY <1>0, <1>2 DEF LookupsOk, ConfirmedIsOwn, Refusals
<1>11. InFlightIsApproved' /\ ReservationConsistent'
  BY <1>0, <1>2, <1>3 DEF InFlightIsApproved, ReservationConsistent, Refusals
<1>. QED
  BY <1>7, <1>8, <1>9, <1>10, <1>11

(* The outcome is recorded by whoever learns it, from a copy that agrees.    *)
LEMMA OutcomeKeeps ==
    ASSUME RunnersOk, ReceiptsOk, RestInv, NEW w \in Workers, RunContext(w), OutcomeEffect(w)
    PROVE  RestInv'
<1>. PICK a : a = Target(w)
  OBVIOUS
<1>. USE DEF RestInv, At
<1>0. /\ UNCHANGED <<approvals, jobs, clicks>>
      /\ a \in Attempts
      /\ workers[w].pc \in {"unknown", "receipt", "found"}
      /\ workers[w].job \in Attempts => workers[w].job = a
  BY DEF OutcomeEffect, RunContext
<1>1. /\ workers[w].view.draft = attempts[a].draft
      /\ workers[w].view.writeStarted => attempts[a].writeStarted
      /\ attempts[a].writeStarted => workers[w].view.writeStarted
  BY <1>0 DEF ViewsOk, SubmitSteps, LookupSteps
<1>2. /\ \A b \in Attempts : b # a => attempts'[b] = attempts[b]
      /\ attempts'[a].status \in {"OUTCOME_UNKNOWN", "RECEIPT_CONFIRMED"}
      /\ attempts'[a].writeStarted => attempts[a].writeStarted
      /\ attempts[a].writeStarted => attempts'[a].writeStarted
      /\ attempts'[a].draft = attempts[a].draft
  BY <1>1 DEF OutcomeEffect, WriteEffect
<1>3. /\ incident'.status \in {"OUTCOME_UNKNOWN", "RECEIPT_CONFIRMED"}
      /\ incident'.attempt = incident.attempt
      /\ incident'.draft = incident.draft
  BY DEF OutcomeEffect, StatusEffect
<1>4. workers[w].pc # "unknown" => a \in Sent /\ attempts[a].writeStarted /\ incident.attempt = a
  BY <1>0 DEF ReceiptsOk, SentIsStarted, StartedIsReserved
<1>5. /\ workers'[w].pc \in {"returned", "erred"}
      /\ Sent' = Sent
  BY <1>0 DEF OutcomeEffect, Sent
<1>6. \A v \in Workers : v # w /\ workers'[v].pc # "idle" =>
          /\ workers'[v] = workers[v]
          /\ Target(v)' = Target(v)
          /\ Target(v) \in Attempts
          /\ workers[v].job \in Attempts /\ workers[w].job \in Attempts => Target(v) # a
  BY <1>0 DEF RunContext
<1>7. \A b \in Attempts : /\ attempts'[b].writeStarted => attempts[b].writeStarted
                          /\ attempts[b].writeStarted => attempts'[b].writeStarted
                          /\ attempts'[b].draft = attempts[b].draft
  BY <1>2
<1>8. StartedIsReserved'
  <2>1. ASSUME NEW b \in Attempts, attempts'[b].writeStarted
        PROVE  /\ incident'.attempt = b
               /\ incident'.status \in Reserved
               /\ incident'.draft = attempts'[b].draft
               /\ attempts'[b].status \in Reserved
               /\ approvals'[b] = "RESERVED"
               /\ jobs'[b].status # "pending"
    <3>1. attempts[b].writeStarted
      BY <1>7, <2>1
    <3>. QED
      BY <1>0, <1>2, <1>3, <3>1 DEF StartedIsReserved, Reserved
  <2>. QED
    BY <2>1 DEF StartedIsReserved
<1>9. SentIsStarted'
  <2>1. \A b \in Sent' : attempts'[b].writeStarted
    BY <1>5, <1>7 DEF SentIsStarted, Sent
  <2>2. ASSUME NEW v \in Workers, workers'[v].pc = "authorized"
        PROVE  attempts'[Target(v)'].writeStarted
    BY <1>5, <1>6, <1>7, <2>2 DEF SentIsStarted
  <2>3. ASSUME NEW v \in Workers, workers'[v].job \in Attempts,
               workers'[v].pc \in {"claimed", "prepared", "refused"}
        PROVE  /\ workers'[v].pc # "refused" => ~attempts'[Target(v)'].writeStarted
               /\ workers'[v].pc = "refused" => Target(v)' \notin Sent'
               /\ workers'[v].pc # "claimed" =>
                     attempts'[Target(v)'].status \in {"IN_FLIGHT", "CANCELLED"}
    <3>1. workers'[v] = workers[v] /\ Target(v)' = Target(v) /\ Target(v) \in Attempts
      BY <1>5, <1>6, <2>3
    <3>2. Target(v) # a
      <4>1. CASE workers[w].pc = "unknown"
        BY <1>0, <1>5, <1>6, <2>3, <3>1, <4>1 DEF RunnersOk, SubmitSteps
      <4>2. CASE workers[w].pc # "unknown"
        BY <1>4, <2>3, <3>1, <4>2 DEF SentIsStarted
      <4>. QED
        BY <4>1, <4>2
    <3>. QED
      BY <1>2, <1>5, <2>3, <3>1, <3>2 DEF SentIsStarted
  <2>. QED
    BY <2>1, <2>2, <2>3 DEF SentIsStarted
<1>10. ViewsOk'
  <2>1. ASSUME NEW v \in Workers, workers'[v].pc \in SubmitSteps \cup LookupSteps
        PROVE  /\ workers'[v].view.draft = attempts'[Target(v)'].draft
               /\ workers'[v].pc # "looking" /\ workers'[v].view.writeStarted =>
                     attempts'[Target(v)'].writeStarted
               /\ workers'[v].pc # "refused" /\ attempts'[Target(v)'].writeStarted =>
                     workers'[v].view.writeStarted
    <3>1. workers'[v] = workers[v] /\ Target(v)' = Target(v) /\ Target(v) \in Attempts
      BY <1>5, <1>6, <2>1 DEF SubmitSteps, LookupSteps
    <3>. QED
      BY <1>7, <2>1, <3>1 DEF ViewsOk
  <2>. QED
    BY <2>1 DEF ViewsOk
<1>11. LookupsOk'
  BY <1>0, <1>3 DEF LookupsOk
<1>12. InFlightIsApproved' /\ ReservationConsistent'
  BY <1>0, <1>2, <1>3 DEF InFlightIsApproved, ReservationConsistent, Reserved
<1>13. ConfirmedIsOwn'
  <2>1. CASE workers[w].pc = "unknown"
    BY <2>1 DEF OutcomeEffect, StatusEffect, ConfirmedIsOwn
  <2>2. CASE workers[w].pc # "unknown"
    BY <1>3, <1>4, <2>2 DEF OutcomeEffect, ConfirmedIsOwn
  <2>. QED
    BY <2>1, <2>2
<1>. QED
  BY <1>8, <1>9, <1>10, <1>11, <1>12, <1>13

(* Settling a job touches nothing else.                                      *)
LEMMA SettleKeeps ==
    ASSUME RestInv, NEW w \in Workers, RunContext(w), SettleEffect(w)
    PROVE  RestInv'
<1>. USE DEF RestInv, At
<1>0. UNCHANGED <<incident, attempts, approvals, clicks>>
  BY DEF SettleEffect, RunContext
<1>1. /\ workers'[w].pc \in {"idle", "erred"}
      /\ workers'[w].pc = "idle" => workers'[w].job = NoJob
      /\ \A v \in Workers : v # w => workers'[v] = workers[v]
      /\ \A v \in Workers : workers'[v].pc # "idle" => Target(v)' = Target(v)
  BY DEF SettleEffect, Freed, RunContext
<1>2. \A j \in Jobs : /\ jobs'[j].attempt = jobs[j].attempt
                      /\ jobs'[j].status = "pending" => jobs[j].status = "pending"
                      /\ jobs'[j].status # "absent" => jobs[j].status # "absent"
  BY DEF RunContext, JobsKept
<1>3. StartedIsReserved'
  BY <1>0, <1>2 DEF StartedIsReserved, Jobs
<1>4. SentIsStarted'
  <2>1. Sent' = Sent
    BY <1>0 DEF Sent
  <2>. QED
    BY <1>0, <1>1, <2>1 DEF SentIsStarted
<1>5. ViewsOk'
  BY <1>0, <1>1 DEF ViewsOk, SubmitSteps, LookupSteps
<1>6. LookupsOk'
  BY <1>0, <1>2 DEF LookupsOk, Jobs
<1>7. InFlightIsApproved' /\ ReservationConsistent' /\ ConfirmedIsOwn'
  BY <1>0 DEF InFlightIsApproved, ReservationConsistent, ConfirmedIsOwn
<1>. QED
  BY <1>3, <1>4, <1>5, <1>6, <1>7

(* Every step of a run keeps the invariant.                                  *)
LEMMA RunCustody ==
    ASSUME ClickInv, CustodyInv, NEW w \in Workers, Run(w)
    PROVE  CustodyInv'
<1>1. TypeOK /\ RunnersOk /\ TokensUnique /\ JobsOk /\ ClicksOk /\ ReceiptsOk
  BY DEF ClickInv
<1>2. Exclusive /\ RestInv
  BY DEF CustodyInv, RestInv
<1>3. RunContext(w) /\ RunEffect(w)
  BY <1>1, <1>2, RunContexts, RunEffects
<1>4. Exclusive'
  BY <1>2, <1>3, RunExclusive
<1>5. RestInv'
  BY <1>1, <1>2, <1>3, StepKeeps, StartKeeps, ClickKeeps, CloseKeeps, RefuseKeeps, OutcomeKeeps,
     SettleKeeps DEF RunEffect
<1>. QED
  BY <1>4, <1>5 DEF CustodyInv, RestInv

-------------------------------------------------------------------------------
(* The steps that are not part of a run.                                     *)

(* A claimed job had no runner; what a claim closes was started, hence the   *)
(* incident's attempt; what it hands out to submit was not.                  *)
LEMMA ClaimCustody ==
    ASSUME ClickInv, CustodyInv, NEW w \in Workers, NEW S \in SUBSET Attempts,
           NEW j \in Jobs \cup {NoJob}, ClaimJob(w, S, j)
    PROVE  CustodyInv'
<1>. USE ConstantsAssumption DEF ClickInv, CustodyInv, At, Busy
<1>0. ClaimEffect(w, S, j) /\ UNCHANGED <<approvals, clicks>>
  BY ClaimEffects DEF ClaimJob, agency
<1>1. /\ workers[w].pc = "idle"
      /\ \A a \in S : attempts[a].writeStarted /\ jobs[a].status = "running" /\ ~jobs[a].leased
      /\ j # NoJob => jobs[j].status \in {"pending", "running"} /\ ~jobs[j].leased
      /\ j \in Attempts => jobs[j].status = "pending" \/ ~attempts[j].writeStarted
  BY DEF ClaimJob, Interrupted, Claimable, Jobs
<1>2. \A v \in Workers : workers[v].pc # "idle" =>
          /\ workers[v].job \in Jobs
          /\ workers[v].job # j
          /\ workers[v].job \notin S
          /\ Target(v) \in Attempts
          /\ workers[v].job \in Attempts => Target(v) = workers[v].job
  BY <1>1, TargetType DEF Exclusive
<1>3. \A k \in Jobs : /\ jobs'[k].attempt = jobs[k].attempt
                      /\ jobs'[k].status = "pending" => jobs[k].status = "pending"
                      /\ jobs'[k].status # "absent" => jobs[k].status # "absent"
  BY <1>0, <1>1 DEF ClaimEffect
<1>4. \A v \in Workers : workers'[v].pc # "idle" =>
          \/ /\ workers[v].pc # "idle"
             /\ workers'[v] = workers[v]
             /\ Target(v)' = Target(v)
             /\ jobs'[workers[v].job] = jobs[workers[v].job]
          \/ /\ v = w /\ j # NoJob
             /\ workers'[w].pc = "claimed"
             /\ workers'[w].job = j
  BY <1>0, <1>1, <1>2 DEF ClaimEffect, Target
<1>5. \A a \in Attempts : /\ attempts'[a].writeStarted = attempts[a].writeStarted
                          /\ attempts'[a].draft = attempts[a].draft
                          /\ a \notin S => attempts'[a].status = attempts[a].status
                          /\ a \in S => attempts'[a].status = "OUTCOME_UNKNOWN"
  BY <1>0 DEF ClaimEffect
<1>6. /\ S = {} => UNCHANGED incident
      /\ S # {} => incident'.status = "OUTCOME_UNKNOWN"
      /\ incident'.attempt = incident.attempt
      /\ incident'.ticket = incident.ticket
      /\ incident'.draft = incident.draft
  BY <1>0 DEF ClaimEffect
<1>7. Sent' = Sent
  BY <1>0 DEF Sent
<1>8. Exclusive'
  <2>1. ASSUME NEW v \in Workers, workers'[v].pc # "idle"
        PROVE  /\ Holds(v)'
               /\ \/ jobs'[workers'[v].job].status = "running" /\ jobs'[workers'[v].job].leased
                  \/ jobs'[workers'[v].job].status = "completed" /\ workers'[v].pc = "erred"
    BY <1>0, <1>4, <2>1 DEF Exclusive, Holds, ClaimEffect
  <2>. QED
    BY <2>1 DEF Exclusive
<1>9. StartedIsReserved'
  BY <1>3, <1>5, <1>6, <1>0 DEF StartedIsReserved, Reserved, Jobs
<1>10. SentIsStarted'
  <2>1. \A b \in Sent' : attempts'[b].writeStarted
    BY <1>5, <1>7 DEF SentIsStarted, Sent
  <2>2. ASSUME NEW v \in Workers, workers'[v].pc = "authorized"
        PROVE  attempts'[Target(v)'].writeStarted
    BY <1>2, <1>4, <1>5, <2>2 DEF SentIsStarted
  <2>3. ASSUME NEW v \in Workers, workers'[v].job \in Attempts,
               workers'[v].pc \in {"claimed", "prepared", "refused"}
        PROVE  /\ workers'[v].pc # "refused" => ~attempts'[Target(v)'].writeStarted
               /\ workers'[v].pc = "refused" => Target(v)' \notin Sent'
               /\ workers'[v].pc # "claimed" =>
                     attempts'[Target(v)'].status \in {"IN_FLIGHT", "CANCELLED"}
    <3>1. CASE workers[v].pc # "idle" /\ workers'[v] = workers[v] /\ Target(v)' = Target(v)
      BY <1>2, <1>5, <1>7, <2>3, <3>1 DEF SentIsStarted
    <3>2. CASE v = w /\ j # NoJob /\ workers'[w].pc = "claimed" /\ workers'[w].job = j
      <4>1. j \in Attempts /\ Target(w)' = j
        BY <1>1, <1>3, <2>3, <3>2 DEF Target, JobsOk
      <4>2. ~attempts[j].writeStarted
        BY <1>1, <4>1 DEF StartedIsReserved
      <4>. QED
        BY <1>5, <3>2, <4>1, <4>2
    <3>. QED
      BY <1>4, <2>3, <3>1, <3>2
  <2>. QED
    BY <2>1, <2>2, <2>3 DEF SentIsStarted
<1>11. ViewsOk'
  <2>1. ASSUME NEW v \in Workers, workers'[v].pc \in SubmitSteps \cup LookupSteps
        PROVE  /\ workers'[v].view.draft = attempts'[Target(v)'].draft
               /\ workers'[v].pc # "looking" /\ workers'[v].view.writeStarted =>
                     attempts'[Target(v)'].writeStarted
               /\ workers'[v].pc # "refused" /\ attempts'[Target(v)'].writeStarted =>
                     workers'[v].view.writeStarted
    <3>1. workers'[v] = workers[v] /\ Target(v)' = Target(v) /\ Target(v) \in Attempts
      BY <1>2, <1>4, <2>1 DEF SubmitSteps, LookupSteps
    <3>. QED
      BY <1>5, <2>1, <3>1 DEF ViewsOk
  <2>. QED
    BY <2>1 DEF ViewsOk
<1>12. LookupsOk'
  BY <1>3, <1>6 DEF LookupsOk, Jobs
<1>13. InFlightIsApproved'
  BY <1>0, <1>5 DEF InFlightIsApproved
<1>14. ReservationConsistent' /\ ConfirmedIsOwn'
  BY <1>5, <1>6 DEF ReservationConsistent, ConfirmedIsOwn, Reserved
<1>. QED
  BY <1>8, <1>9, <1>10, <1>11, <1>12, <1>13, <1>14

(* A fresh attempt is approved only where nothing has been started.          *)
LEMMA ApproveCustody ==
    ASSUME ClickInv, CustodyInv, NEW a \in Attempts, Approve(a)
    PROVE  CustodyInv'
<1>. USE DEF ClickInv, CustodyInv, At, Busy
<1>. ApproveEffect(a)
  BY ApproveEffects
<1>0. /\ UNCHANGED <<workers, clicks>>
      /\ jobs[a].status = "absent"
      /\ \A b \in Attempts : ~attempts[b].writeStarted
      /\ \A b \in Attempts : attempts[b].status # "IN_FLIGHT"
      /\ Sent = {}
  BY DEF ApproveEffect, agency, JobsOk, StartedIsReserved, ReservationConsistent, SentIsStarted,
         Sent
<1>1. \A v \in Workers : workers[v].pc # "idle" =>
          /\ workers[v].job # a
          /\ Target(v) \in Attempts
          /\ Target(v) # a
          /\ Target(v)' = Target(v)
          /\ jobs'[workers[v].job] = jobs[workers[v].job]
  BY <1>0, TargetType DEF ApproveEffect, RunnersOk, JobsOk, Target
<1>2. \A b \in Attempts : b # a => attempts'[b] = attempts[b] /\ approvals'[b] = approvals[b]
  BY DEF ApproveEffect
<1>3. Sent' = {}
  BY <1>0 DEF Sent
<1>4. Exclusive'
  BY <1>0, <1>1 DEF Exclusive, Holds
<1>5. \A b \in Attempts : ~attempts'[b].writeStarted
  BY <1>0 DEF ApproveEffect
<1>6. StartedIsReserved'
  BY <1>5 DEF StartedIsReserved
<1>7. SentIsStarted'
  <2>1. ASSUME NEW v \in Workers, workers'[v].pc # "idle"
        PROVE  /\ workers'[v] = workers[v] /\ Target(v)' = Target(v)
               /\ attempts'[Target(v)] = attempts[Target(v)]
    BY <1>0, <1>1, <1>2, <2>1
  <2>2. \A v \in Workers : workers'[v].pc # "authorized"
    BY <1>0, <1>1 DEF SentIsStarted
  <2>. QED
    BY <1>3, <2>1, <2>2 DEF SentIsStarted
<1>8. ViewsOk'
  <2>1. ASSUME NEW v \in Workers, workers'[v].pc # "idle"
        PROVE  /\ workers'[v] = workers[v] /\ Target(v)' = Target(v)
               /\ attempts'[Target(v)] = attempts[Target(v)]
    BY <1>0, <1>1, <1>2, <2>1
  <2>. QED
    BY <2>1 DEF ViewsOk, SubmitSteps, LookupSteps
<1>9. LookupsOk'
  BY ConstantsAssumption DEF LookupsOk, ApproveEffect, JobsOk, Jobs
<1>10. InFlightIsApproved' /\ ReservationConsistent' /\ ConfirmedIsOwn'
  BY <1>0 DEF InFlightIsApproved, ReservationConsistent, ConfirmedIsOwn, ApproveEffect, Reserved
<1>. QED
  BY <1>4, <1>6, <1>7, <1>8, <1>9, <1>10

(* Only what was not started is cancelled.                                   *)
LEMMA CancelCustody ==
    ASSUME ClickInv, CustodyInv, Cancel
    PROVE  CustodyInv'
<1>. USE DEF ClickInv, CustodyInv, At, Busy
<1>. CancelEffect
  BY CancelEffects
<1>0. /\ UNCHANGED <<jobs, workers, clicks>>
      /\ \A b \in Attempts : ~attempts[b].writeStarted
  BY DEF CancelEffect, agency, StartedIsReserved
<1>1. \A b \in Attempts :
          /\ attempts'[b].writeStarted = attempts[b].writeStarted
          /\ attempts'[b].draft = attempts[b].draft
          /\ attempts'[b].status = attempts[b].status \/ attempts'[b].status = "CANCELLED"
          /\ attempts'[b].status # "IN_FLIGHT"
  BY DEF CancelEffect, ReservationConsistent
<1>2. \A v \in Workers : Target(v)' = Target(v) /\ (workers[v].pc # "idle" => Target(v) \in Attempts)
  BY <1>0, TargetType DEF Target
<1>3. Sent' = Sent
  BY <1>0 DEF Sent
<1>4. Exclusive' /\ StartedIsReserved'
  BY <1>0, <1>1 DEF Exclusive, Holds, StartedIsReserved
<1>5. SentIsStarted'
  BY <1>0, <1>1, <1>2, <1>3 DEF SentIsStarted, Sent
<1>6. ViewsOk'
  BY <1>0, <1>1, <1>2 DEF ViewsOk, SubmitSteps, LookupSteps
<1>7. LookupsOk' /\ InFlightIsApproved' /\ ReservationConsistent' /\ ConfirmedIsOwn'
  BY <1>0, <1>1
  DEF LookupsOk, InFlightIsApproved, ReservationConsistent, ConfirmedIsOwn, CancelEffect,
      StatusEffect
<1>. QED
  BY <1>4, <1>5, <1>6, <1>7

(* A lookup is enqueued for an outcome that is unknown.                      *)
LEMMA ReconcileCustody ==
    ASSUME ClickInv, CustodyInv, NEW r \in Lookups, Reconcile(r)
    PROVE  CustodyInv'
<1>. USE DEF ClickInv, CustodyInv, At, Busy
<1>. ReconcileEffect(r)
  BY ReconcileEffects
<1>0. UNCHANGED <<incident, attempts, approvals, workers, clicks>> /\ r \in Jobs \ Attempts
  BY ConstantsAssumption DEF ReconcileEffect, agency, Jobs
<1>1. \A v \in Workers : workers[v].pc # "idle" =>
          /\ workers[v].job \in Jobs
          /\ workers[v].job # r
          /\ Target(v)' = Target(v)
          /\ jobs'[workers[v].job] = jobs[workers[v].job]
  BY TargetType DEF ReconcileEffect, RunnersOk, Target
<1>2. Sent' = Sent
  BY <1>0 DEF Sent
<1>3. Exclusive'
  BY <1>0, <1>1 DEF Exclusive, Holds
<1>4. StartedIsReserved'
  BY <1>0 DEF StartedIsReserved, ReconcileEffect, Jobs
<1>5. SentIsStarted'
  BY <1>0, <1>1, <1>2 DEF SentIsStarted
<1>6. ViewsOk'
  BY <1>0, <1>1 DEF ViewsOk, SubmitSteps, LookupSteps
<1>7. LookupsOk'
  BY <1>0 DEF LookupsOk, ReconcileEffect, Jobs
<1>8. InFlightIsApproved' /\ ReservationConsistent' /\ ConfirmedIsOwn'
  BY <1>0 DEF InFlightIsApproved, ReservationConsistent, ConfirmedIsOwn
<1>. QED
  BY <1>3, <1>4, <1>5, <1>6, <1>7, <1>8

(* A lease that covers the run runs out only when nobody has the job.        *)
LEMMA ExpireCustody ==
    ASSUME LeaseCoversRun, ClickInv, CustodyInv, NEW j \in Jobs, ExpireLease(j)
    PROVE  CustodyInv'
<1>. USE DEF ClickInv, CustodyInv, At, Busy
<1>. ExpireEffect(j)
  BY ExpireEffects
<1>0. UNCHANGED <<incident, attempts, approvals, workers, clicks>>
  BY DEF ExpireEffect, agency
<1>1. \A k \in Jobs : jobs'[k].attempt = jobs[k].attempt /\ jobs'[k].status = jobs[k].status
  BY DEF ExpireEffect
<1>2. \A v \in Workers : workers[v].pc # "idle" =>
          /\ workers[v].job \in Jobs
          /\ Target(v)' = Target(v)
          /\ jobs'[workers[v].job] = jobs[workers[v].job]
  BY <1>1, TargetType DEF ExpireEffect, ExpireLease, Target
<1>3. Sent' = Sent
  BY <1>0 DEF Sent
<1>4. Exclusive'
  BY <1>0, <1>2 DEF Exclusive, Holds
<1>5. StartedIsReserved' /\ LookupsOk'
  BY <1>0, <1>1 DEF StartedIsReserved, LookupsOk, Jobs
<1>6. SentIsStarted'
  BY <1>0, <1>2, <1>3 DEF SentIsStarted
<1>7. ViewsOk'
  BY <1>0, <1>2 DEF ViewsOk, SubmitSteps, LookupSteps
<1>8. InFlightIsApproved' /\ ReservationConsistent' /\ ConfirmedIsOwn'
  BY <1>0 DEF InFlightIsApproved, ReservationConsistent, ConfirmedIsOwn
<1>. QED
  BY <1>4, <1>5, <1>6, <1>7, <1>8

(* A fresh revision needs a case that is not reserved.                       *)
LEMMA DraftCustody ==
    ASSUME ClickInv, CustodyInv, CreateDraft
    PROVE  CustodyInv'
<1>. USE DEF ClickInv, CustodyInv
<1>0. /\ UNCHANGED <<attempts, approvals, jobs, workers, clicks>>
      /\ incident.status \notin Reserved
      /\ incident'.status = "AWAITING_APPROVAL"
      /\ incident'.attempt = incident.attempt
  BY CreateDraftEffects DEF agency
<1>1. \A a \in Attempts : ~attempts[a].writeStarted /\ attempts[a].status # "IN_FLIGHT"
  BY <1>0 DEF StartedIsReserved, ReservationConsistent
<1>2. Sent' = Sent /\ \A v \in Workers : Target(v)' = Target(v)
  BY <1>0 DEF Sent, Target
<1>3. Exclusive' /\ StartedIsReserved' /\ InFlightIsApproved'
  BY <1>0, <1>1 DEF Exclusive, Holds, Busy, At, StartedIsReserved, InFlightIsApproved
<1>4. SentIsStarted' /\ ViewsOk'
  BY <1>0, <1>2 DEF SentIsStarted, ViewsOk, At
<1>5. LookupsOk' /\ ReservationConsistent' /\ ConfirmedIsOwn'
  BY <1>0, <1>1 DEF LookupsOk, ReservationConsistent, ConfirmedIsOwn
<1>. QED
  BY <1>3, <1>4, <1>5

(* A runner that dies leaves every record as it is.                          *)
LEMMA AbandonCustody ==
    ASSUME ClickInv, CustodyInv, NEW w \in Workers, Abandon(w)
    PROVE  CustodyInv'
<1>. USE DEF ClickInv, CustodyInv, At, Busy
<1>0. Freed(w) /\ UNCHANGED <<incident, attempts, approvals, jobs, clicks>>
  BY RunnerEffects DEF Abandon, agency
<1>1. \A v \in Workers : workers'[v].pc # "idle" =>
          workers'[v] = workers[v] /\ Target(v)' = Target(v)
  BY <1>0 DEF Freed, Target
<1>2. \A v \in Workers : workers'[v].job \in Attempts => workers'[v].pc # "idle"
  BY <1>0, <1>1, ConstantsAssumption DEF Freed, RunnersOk, Jobs
<1>3. Sent' = Sent
  BY <1>0 DEF Sent
<1>4. Exclusive'
  BY <1>0, <1>1 DEF Exclusive, Holds
<1>5. SentIsStarted'
  BY <1>0, <1>1, <1>3 DEF SentIsStarted
<1>6. ViewsOk'
  BY <1>0, <1>1 DEF ViewsOk, SubmitSteps, LookupSteps
<1>. QED
  BY <1>0, <1>4, <1>5, <1>6, RecordsUnchanged DEF RestInv

(* The invariant holds initially.                                            *)
LEMMA CustodyInit == Init => CustodyInv
<1>. SUFFICES ASSUME Init PROVE CustodyInv
  OBVIOUS
<1>. USE DEF Init, UnusedAttempt, AbsentJob, IdleWorker, At, Busy
<1>1. Exclusive /\ StartedIsReserved
  BY DEF Exclusive, StartedIsReserved
<1>2. Sent = {}
  <2>1. ASSUME NEW a \in Attempts PROVE ~(clicks[a] > 0)
    <3>1. clicks[a] = 0
      OBVIOUS
    <3>2. ~(0 > 0)
      OBVIOUS
    <3>. QED
      BY <3>1, <3>2, Zenon
  <2>. QED
    BY <2>1 DEF Sent
<1>3. SentIsStarted
  BY <1>2 DEF SentIsStarted
<1>4. ViewsOk /\ LookupsOk
  BY DEF ViewsOk, LookupsOk, SubmitSteps, LookupSteps, Jobs
<1>5. InFlightIsApproved /\ ReservationConsistent /\ ConfirmedIsOwn
  BY DEF InFlightIsApproved, ReservationConsistent, ConfirmedIsOwn
<1>. QED
  BY <1>1, <1>3, <1>4, <1>5 DEF CustodyInv

(* Every step keeps it, provided a lease covers the run.                     *)
LEMMA CustodyStep ==
    ASSUME LeaseCoversRun, ClickInv, CustodyInv, [Next]_vars
    PROVE  CustodyInv'
<1>1. CASE CreateDraft
  BY <1>1, DraftCustody
<1>2. ASSUME NEW a \in Attempts, Approve(a)
      PROVE  CustodyInv'
  BY <1>2, ApproveCustody
<1>3. CASE Cancel
  BY <1>3, CancelCustody
<1>4. ASSUME NEW r \in Lookups, Reconcile(r)
      PROVE  CustodyInv'
  BY <1>4, ReconcileCustody
<1>5. ASSUME NEW w \in Workers, Claim(w)
      PROVE  CustodyInv'
  BY <1>5, ClaimCustody DEF Claim
<1>6. ASSUME NEW w \in Workers, Run(w)
      PROVE  CustodyInv'
  BY <1>6, RunCustody
<1>7. ASSUME NEW w \in Workers, Abandon(w)
      PROVE  CustodyInv'
  BY <1>7, AbandonCustody
<1>8. ASSUME NEW j \in Jobs, ExpireLease(j)
      PROVE  CustodyInv'
  BY <1>8, ExpireCustody
<1>9. CASE UNCHANGED <<incident, attempts, approvals, jobs, workers, clicks>>
  <2>1. Sent' = Sent /\ \A v \in Workers : Target(v)' = Target(v)
    BY <1>9 DEF Sent, Target
  <2>2. Exclusive' /\ SentIsStarted' /\ ViewsOk'
    BY <1>9, <2>1 DEF CustodyInv, Exclusive, Holds, SentIsStarted, ViewsOk, Busy, At
  <2>. QED
    BY <1>9, <2>2, RecordsUnchanged DEF CustodyInv, RestInv
<1>. QED
  BY <1>1, <1>2, <1>3, <1>4, <1>5, <1>6, <1>7, <1>8, <1>9
  DEF Next, vars, agency, ExpireDraft, SetAdmission, PortalAccepts, PortalRejects

-------------------------------------------------------------------------------
(* The theorems.  LeaseCoversRun stands for the lease of local.py and of the *)
(* Lambda worker, which outlives the time-out of a run.                      *)

(* The invariants behind the theorems below hold in every state.             *)
THEOREM CustodyInvariance ==
    ASSUME LeaseCoversRun
    PROVE  Spec => [](ClickInv /\ CustodyInv)
<1>1. Init => ClickInv /\ CustodyInv
  BY ClickInvInit, CustodyInit
<1>2. ClickInv /\ CustodyInv /\ [Next]_vars => (ClickInv /\ CustodyInv)'
  BY ClickInvStep, CustodyStep
<1>. QED
  BY <1>1, <1>2, PTL DEF Spec

(* An attempt that may have reached the agency stays the incident's attempt  *)
(* and keeps the case reserved, through crashes, re-claims, cancellations    *)
(* and maintenance.                                                          *)
THEOREM SentIsReserved ==
    ASSUME LeaseCoversRun
    PROVE  Spec => []SentStaysReserved
<1>1. CustodyInv => SentStaysReserved
  BY DEF CustodyInv, SentIsStarted, StartedIsReserved, SentStaysReserved, Sent
<1>. QED
  BY <1>1, CustodyInvariance, PTL

(* What is reported as cancelled, handed off or failed before submission was *)
(* not sent, and no runner is about to send it.                              *)
THEOREM ClosedIsUnsent ==
    ASSUME LeaseCoversRun
    PROVE  Spec => []ClosedMeansUnsent
<1>1. ClickInv /\ CustodyInv => ClosedMeansUnsent
  <2>. SUFFICES ASSUME ClickInv, CustodyInv,
                       NEW a \in Attempts, attempts[a].status \in Refusals \cup {"CANCELLED"}
                PROVE  /\ a \notin Sent
                       /\ \A w \in Workers : workers[w].job = a => workers[w].pc # "authorized"
    BY DEF ClosedMeansUnsent
  <2>1. ~attempts[a].writeStarted
    BY DEF CustodyInv, StartedIsReserved, Reserved, Refusals
  <2>2. a \notin Sent
    BY <2>1 DEF CustodyInv, SentIsStarted
  <2>3. ASSUME NEW w \in Workers, workers[w].job = a, workers[w].pc = "authorized"
        PROVE  FALSE
    <3>1. Target(w) = a
      BY <2>3, TargetType DEF ClickInv, Busy, At
    <3>. QED
      BY <2>1, <2>3, <3>1 DEF CustodyInv, SentIsStarted, At
  <2>. QED
    BY <2>2, <2>3
<1>. QED
  BY <1>1, CustodyInvariance, PTL

(* The incident is in flight exactly as long as its attempt is.              *)
THEOREM ReservationIsConsistent ==
    ASSUME LeaseCoversRun
    PROVE  Spec => []ReservationConsistent
<1>1. CustodyInv => ReservationConsistent
  BY DEF CustodyInv
<1>. QED
  BY <1>1, CustodyInvariance, PTL

(* A confirmed incident follows the ticket of its own attempt.               *)
THEOREM ConfirmationIsOwn ==
    ASSUME LeaseCoversRun
    PROVE  Spec => []ConfirmedIsOwn
<1>1. CustodyInv => ConfirmedIsOwn
  BY DEF CustodyInv
<1>. QED
  BY <1>1, CustodyInvariance, PTL

(* Only the click of a runner counts as a click, and only for its attempt.   *)
LEMMA ClickStep ==
    ASSUME TypeOK, RunnersOk, JobsOk, [Next]_vars, NEW a \in Attempts, clicks'[a] > clicks[a]
    PROVE  \E w \in Workers : Click(w) /\ Target(w) = a
<1>1. clicks[a] \in Nat
  BY DEF TypeOK
<1>2. clicks'[a] # clicks[a]
  BY <1>1
<1>3. \E w \in Workers : Click(w)
  BY <1>2, AgencyStep DEF agency, PortalAccepts, PortalRejects
<1>4. ASSUME NEW w \in Workers, Click(w), Target(w) # a
      PROVE  clicks'[a] = clicks[a]
  BY <1>4 DEF Click, TypeOK
<1>. QED
  BY <1>2, <1>3, <1>4

(* At the moment of every click the resident's approval still stands.        *)
THEOREM ClicksAreApproved ==
    ASSUME LeaseCoversRun
    PROVE  Spec => ClickIsApproved
<1>1. ClickInv /\ CustodyInv /\ [Next]_vars =>
        [\A a \in Attempts : clicks'[a] > clicks[a] =>
            /\ incident.attempt = a
            /\ incident.status \in Reserved
            /\ incident.draft = attempts[a].draft
            /\ attempts[a].writeStarted
            /\ approvals[a] = "RESERVED"]_vars
  <2>. SUFFICES ASSUME ClickInv, CustodyInv, [Next]_vars,
                       NEW a \in Attempts, clicks'[a] > clicks[a]
                PROVE  /\ incident.attempt = a
                       /\ incident.status \in Reserved
                       /\ incident.draft = attempts[a].draft
                       /\ attempts[a].writeStarted
                       /\ approvals[a] = "RESERVED"
    OBVIOUS
  <2>1. PICK w \in Workers : Click(w) /\ Target(w) = a
    BY ClickStep DEF ClickInv
  <2>2. attempts[a].writeStarted
    BY <2>1 DEF Click, CustodyInv, SentIsStarted
  <2>. QED
    BY <2>2 DEF CustodyInv, StartedIsReserved
<1>. QED
  BY <1>1, CustodyInvariance, PTL DEF Spec, ClickIsApproved

-------------------------------------------------------------------------------
(* The workflow implements AgencyReport.                                     *)

(* A step that keeps the reservation, the sent attempts, the tickets and the *)
(* one known is invisible.                                                   *)
LEMMA Invisible ==
    ASSUME UNCHANGED <<clicks, tickets>>,
           incident'.ticket = incident.ticket,
           \/ /\ incident'.attempt = incident.attempt
              /\ incident'.status \in Reserved <=> incident.status \in Reserved
           \/ incident.status \notin Reserved /\ incident'.status \notin Reserved
    PROVE  UNCHANGED Report!vars
BY DEF Report!vars, Reservation, Sent

(* Giving a reservation up is allowed while its attempt was not sent.        *)
LEMMA Releases ==
    ASSUME ClickInv, CustodyInv, UNCHANGED <<clicks, tickets>>,
           incident'.ticket = incident.ticket, incident'.status \notin Reserved,
           NEW a, incident.attempt = a, a \notin Sent
    PROVE  [Report!Next]_Report!vars
<1>1. Sent' = Sent /\ Reservation' = NoAttempt
  BY DEF Sent, Reservation
<1>2. CASE Reservation = NoAttempt
  BY <1>1, <1>2 DEF Report!vars
<1>3. CASE Reservation # NoAttempt
  <2>1. Reservation = a
    BY <1>3 DEF Reservation
  <2>. QED
    BY <1>1, <1>3, <2>1 DEF Report!Next, Report!Release
<1>. QED
  BY <1>2, <1>3

(* Every step of a run is a step of the report or invisible.                 *)
LEMMA RunRefines ==
    ASSUME ClickInv, CustodyInv, NEW w \in Workers, Run(w)
    PROVE  [Report!Next]_Report!vars
<1>. PICK a : a = Target(w)
  OBVIOUS
<1>. USE DEF CustodyInv
<1>0. /\ RunEffect(w) /\ RunContext(w)
      /\ TypeOK /\ RunnersOk /\ JobsOk /\ IncidentOk /\ ClicksOk /\ ReceiptsOk
  BY RunEffects, RunContexts DEF ClickInv
<1>1. a \in Attempts /\ UNCHANGED tickets
  BY <1>0 DEF RunContext, Run, PrepareSubmission, BrowserStops, BeforeWrite, Click,
              BrowserReturns, HandleRefusal, MarkUnknown, RecordReceipt, ReadAttempt,
              LookupReceipt, TransactionFails, Settle, SettleFailure, agency
<1>2. CASE StepEffect(w) \/ StartEffect(w) \/ SettleEffect(w)
  BY <1>1, <1>2, Invisible DEF StepEffect, StartEffect, SettleEffect
<1>3. CASE ClickEffect(w)
  <2>1. attempts[a].writeStarted /\ clicks[a] = 0
    BY <1>3 DEF ClickEffect, SentIsStarted, At
  <2>2. incident.attempt = a /\ incident.status \in Reserved /\ UNCHANGED incident
    BY <1>1, <1>3, <2>1 DEF ClickEffect, StartedIsReserved
  <2>3. Click(w)
    BY <1>0, <1>3, RunnerEffects
    DEF ClickEffect, Run, PrepareSubmission, BrowserStops, BeforeWrite, BrowserReturns,
        HandleRefusal, MarkUnknown, RecordReceipt, ReadAttempt, LookupReceipt,
        TransactionFails, Settle, SettleFailure, Freed
  <2>4. clicks'[a] = 1 /\ \A b \in Attempts : b # a => clicks'[b] = clicks[b]
    BY <1>0, <1>1, <2>1, <2>3 DEF Click, TypeOK
  <2>5. a \notin Sent /\ Sent' = Sent \cup {a}
    BY <1>1, <2>1, <2>4 DEF Sent
  <2>6. Report!Send(a)
    BY <1>1, <2>2, <2>5 DEF Report!Send, Reservation
  <2>. QED
    BY <1>1, <2>6 DEF Report!Next
<1>4. ASSUME NEW status, CloseEffect(w, status)
      PROVE  [Report!Next]_Report!vars
  <2>1. /\ UNCHANGED clicks
        /\ incident'.status = status
        /\ incident'.attempt = incident.attempt
        /\ incident'.ticket = incident.ticket
        /\ attempts[a].status = "IN_FLIGHT"
        /\ workers[w].job \in Attempts
    BY <1>4 DEF CloseEffect, StatusEffect
  <2>2. incident.attempt = a /\ incident.status \in Reserved
    BY <1>1, <2>1 DEF ReservationConsistent
  <2>3. CASE status = "OUTCOME_UNKNOWN"
    BY <1>1, <2>1, <2>2, <2>3, Invisible DEF Reserved
  <2>4. CASE status # "OUTCOME_UNKNOWN"
    <3>1. status = "FAILED_BEFORE_SUBMISSION" /\ ~attempts[a].writeStarted
      BY <1>4, <2>1, <2>4 DEF CloseEffect, SentIsStarted, At
    <3>2. a \notin Sent
      BY <3>1 DEF SentIsStarted
    <3>. QED
      BY <1>1, <2>1, <2>2, <3>1, <3>2, Releases DEF Reserved
  <2>. QED
    BY <2>3, <2>4
<1>5. ASSUME NEW status, RefuseEffect(w, status)
      PROVE  [Report!Next]_Report!vars
  <2>1. /\ UNCHANGED clicks
        /\ incident'.status = status
        /\ status \in Refusals
        /\ incident'.ticket = incident.ticket
        /\ workers[w].pc = "refused"
        /\ attempts[a].status # "CANCELLED"
    BY <1>5 DEF RefuseEffect, StatusEffect
  <2>2. attempts[a].status = "IN_FLIGHT" /\ a \notin Sent
    BY <1>0, <2>1 DEF SentIsStarted, RunnersOk, SubmitSteps, At
  <2>3. incident.attempt = a
    BY <1>1, <2>2 DEF ReservationConsistent
  <2>. QED
    BY <1>1, <2>1, <2>2, <2>3, Releases DEF Reserved, Refusals
<1>6. CASE OutcomeEffect(w) /\ workers[w].pc = "unknown"
  <2>1. /\ UNCHANGED clicks
        /\ incident'.status = "OUTCOME_UNKNOWN"
        /\ incident'.attempt = incident.attempt
        /\ incident'.ticket = incident.ticket
    BY <1>6 DEF OutcomeEffect, StatusEffect
  <2>2. CASE incident.status \in Reserved
    BY <1>1, <2>1, <2>2, Invisible DEF Reserved
  <2>3. CASE incident.status \notin Reserved
    <3>1. PICK b \in Attempts : b = incident.attempt
      <4>1. jobs[workers[w].job].status # "absent"
        BY <1>0, <1>6 DEF RunnersOk, Busy, At
      <4>2. attempts[a].status # "UNUSED"
        BY <1>0, <4>1 DEF JobsOk, RunContext, Target
      <4>. QED
        BY <1>0, <1>1, <4>2 DEF IncidentOk, TypeOK, IncidentRecord
    <3>2. Sent = {} /\ Sent' = Sent
      BY <2>1, <2>3 DEF SentIsStarted, StartedIsReserved, Sent
    <3>3. Reservation = NoAttempt /\ Reservation' = b
      BY <2>1, <2>3, <3>1 DEF Reservation, Reserved
    <3>4. Report!Reserve(b)
      BY <1>1, <2>1, <3>2, <3>3 DEF Report!Reserve
    <3>. QED
      BY <3>1, <3>4 DEF Report!Next
  <2>. QED
    BY <2>2, <2>3
<1>7. CASE OutcomeEffect(w) /\ workers[w].pc \in {"receipt", "found"}
  <2>1. /\ UNCHANGED clicks
        /\ incident'.status = "RECEIPT_CONFIRMED"
        /\ incident'.attempt = incident.attempt
        /\ incident.ticket = NoAttempt
        /\ incident'.ticket = a
    BY <1>7 DEF OutcomeEffect
  <2>2. a \in tickets /\ attempts[a].writeStarted
    BY <1>0, <1>7 DEF ReceiptsOk, SentIsStarted
  <2>3. incident.attempt = a /\ incident.status \in Reserved
    BY <1>1, <2>2 DEF StartedIsReserved
  <2>4. Sent' = Sent /\ Reservation = a /\ Reservation' = a
    BY <2>1, <2>3 DEF Sent, Reservation, Reserved
  <2>5. Report!Learn(a)
    BY <1>1, <2>1, <2>2, <2>4 DEF Report!Learn
  <2>. QED
    BY <1>1, <2>5 DEF Report!Next
<1>8. OutcomeEffect(w) => workers[w].pc \in {"unknown", "receipt", "found"}
  BY DEF OutcomeEffect
<1>. QED
  BY <1>0, <1>2, <1>3, <1>4, <1>5, <1>6, <1>7, <1>8 DEF RunEffect

(* Every step of the workflow is a step of the report or invisible.          *)
LEMMA StepRefines ==
    ASSUME ClickInv, CustodyInv, [Next]_vars
    PROVE  [Report!Next]_Report!vars
<1>. USE DEF ClickInv, CustodyInv
<1>1. CASE CreateDraft
  BY <1>1, CreateDraftEffects, Invisible DEF agency, Reserved
<1>2. ASSUME NEW a \in Attempts, Approve(a)
      PROVE  [Report!Next]_Report!vars
  <2>1. /\ UNCHANGED <<clicks, tickets>>
        /\ incident.status \notin Reserved
        /\ incident'.status = "IN_FLIGHT"
        /\ incident'.attempt = a
        /\ incident'.ticket = incident.ticket
    BY <1>2, ApproveEffects DEF ApproveEffect, agency
  <2>2. Sent = {} /\ Sent' = Sent
    BY <2>1 DEF SentIsStarted, StartedIsReserved, Sent
  <2>3. Reservation = NoAttempt /\ Reservation' = a
    BY <2>1 DEF Reservation, Reserved
  <2>4. Report!Reserve(a)
    BY <2>1, <2>2, <2>3 DEF Report!Reserve
  <2>. QED
    BY <2>4 DEF Report!Next
<1>3. CASE Cancel
  <2>1. /\ UNCHANGED <<clicks, tickets>>
        /\ incident'.status = "CANCELLED"
        /\ incident'.ticket = incident.ticket
        /\ \A a \in Attempts : a = incident.attempt => ~attempts[a].writeStarted
    BY <1>3, CancelEffects DEF CancelEffect, StatusEffect, agency
  <2>2. incident.attempt \notin Sent
    BY <2>1 DEF SentIsStarted, Sent
  <2>. QED
    BY <2>1, <2>2, Releases DEF Reserved
<1>4. ASSUME NEW w \in Workers, NEW S \in SUBSET Attempts, NEW j \in Jobs \cup {NoJob},
             ClaimJob(w, S, j)
      PROVE  [Report!Next]_Report!vars
  <2>1. ClaimEffect(w, S, j) /\ UNCHANGED <<clicks, tickets>>
    BY <1>4, ClaimEffects DEF ClaimJob, agency
  <2>2. \A a \in S : attempts[a].writeStarted
    BY <1>4 DEF ClaimJob, Interrupted
  <2>3. S # {} => incident.status \in Reserved
    BY <2>2 DEF StartedIsReserved
  <2>4. /\ incident'.ticket = incident.ticket
        /\ incident'.attempt = incident.attempt
        /\ S = {} => incident'.status = incident.status
        /\ S # {} => incident'.status = "OUTCOME_UNKNOWN"
    BY <2>1 DEF ClaimEffect
  <2>. QED
    BY <2>1, <2>3, <2>4, Invisible DEF Reserved
<1>5. ASSUME NEW a \in Attempts, PortalAccepts(a)
      PROVE  [Report!Next]_Report!vars
  <2>1. a \in Sent /\ Sent' = Sent /\ Reservation' = Reservation
    BY <1>5 DEF PortalAccepts, ReceiptsOk, Sent, Reservation
  <2>2. Report!Accept(a)
    BY <1>5, <2>1 DEF PortalAccepts, Report!Accept
  <2>. QED
    BY <2>2 DEF Report!Next
<1>6. CASE UNCHANGED <<incident, clicks, tickets>>
  BY <1>6, Invisible
<1>7. ASSUME NEW w \in Workers, Run(w)
      PROVE  [Report!Next]_Report!vars
  BY <1>7, RunRefines
<1>. QED
  BY <1>1, <1>2, <1>3, <1>4, <1>5, <1>6, <1>7
  DEF Next, Claim, vars, agency, Reconcile, Abandon, ExpireDraft, ExpireLease, SetAdmission,
      PortalRejects

(* The workflow, with its runners, leases, crashes and lost answers, does    *)
(* what the abstract report of AgencyReport does and nothing else.           *)
THEOREM WorkflowImplementsReport ==
    ASSUME LeaseCoversRun
    PROVE  Spec => ImplementsReport
<1>1. Init => Report!Init
  <2>. SUFFICES ASSUME Init PROVE Report!Init
    OBVIOUS
  <2>1. Sent = {}
    BY CustodyInit DEF CustodyInv, SentIsStarted, Init, UnusedAttempt, Sent
  <2>. QED
    BY <2>1 DEF Init, Reservation, Reserved, Report!Init
<1>2. ClickInv /\ CustodyInv /\ [Next]_vars => [Report!Next]_Report!vars
  BY StepRefines
<1>. QED
  BY <1>1, <1>2, CustodyInvariance, PTL DEF Spec, ImplementsReport, Report!Spec

(* At most one report of an incident is ever sent, the agency has at most    *)
(* one ticket for it, and the ticket the incident follows is that one.       *)
THEOREM OneReportPerIncident ==
    ASSUME LeaseCoversRun
    PROVE  Spec => []Report!OneReport
<1>1. ClickInv /\ CustodyInv => Report!OneReport
  <2>. SUFFICES ASSUME ClickInv, CustodyInv
                PROVE  /\ Sent \subseteq {Reservation}
                       /\ tickets \subseteq Sent
                       /\ incident.ticket # NoAttempt => incident.ticket \in tickets
    BY DEF Report!OneReport
  <2>1. Sent \subseteq {Reservation}
    BY DEF CustodyInv, SentIsStarted, StartedIsReserved, Reservation, Sent
  <2>. QED
    BY <2>1 DEF ClickInv, ReceiptsOk, TicketIsIssued
<1>. QED
  BY <1>1, CustodyInvariance, PTL


(* While the incident is reserved its revision is not replaced.              *)
LEMMA RevisionKept ==
    ASSUME TypeOK, incident.status \in Reserved, [Next]_vars
    PROVE  incident'.draft = incident.draft
<1>1. incident \in IncidentRecord
  BY DEF TypeOK
<1>2. CASE CreateDraft
  BY <1>2 DEF CreateDraft
<1>3. ASSUME NEW w \in Workers, Run(w)
      PROVE  incident'.draft = incident.draft
  BY <1>1, <1>3
  DEF IncidentRecord, Run, PrepareSubmission, BrowserStops, BeforeWrite, Click, BrowserReturns,
      HandleRefusal, MarkUnknown, RecordReceipt, ReadAttempt, LookupReceipt, TransactionFails,
      Settle, SettleFailure, CloseAttempt, SetStatus
<1>4. ASSUME NEW w \in Workers, Claim(w)
      PROVE  incident'.draft = incident.draft
  <2>1. PICK S \in SUBSET Attempts, j \in Jobs \cup {NoJob} : ClaimJob(w, S, j)
    BY <1>4 DEF Claim
  <2>. QED
    BY <2>1, ClaimEffects DEF ClaimEffect
<1>5. CASE UNCHANGED incident
  BY <1>5
<1>6. CASE Cancel
  BY <1>6, CancelEffects DEF CancelEffect, StatusEffect
<1>7. ASSUME NEW a \in Attempts, Approve(a)
      PROVE  incident'.draft = incident.draft
  BY <1>7, ApproveEffects DEF ApproveEffect
<1>. QED
  BY <1>2, <1>3, <1>4, <1>5, <1>6, <1>7
  DEF Next, vars, Reconcile, Abandon, ExpireDraft, ExpireLease, SetAdmission, PortalAccepts,
      PortalRejects

(* The revision of a sent attempt is the incident's, which is reserved.      *)
LEMMA SentRevisionKept ==
    ASSUME ClickInv, CustodyInv, CustodyInv', [Next]_vars, NEW a \in Sent, a \in Sent'
    PROVE  attempts'[a].draft = attempts[a].draft
<1>1. a \in Attempts /\ attempts[a].writeStarted /\ attempts'[a].writeStarted
  BY DEF CustodyInv, SentIsStarted, Sent
<1>2. incident.status \in Reserved /\ incident.draft = attempts[a].draft
  BY <1>1 DEF CustodyInv, StartedIsReserved
<1>3. incident'.draft = attempts'[a].draft
  BY <1>1 DEF CustodyInv, StartedIsReserved
<1>. QED
  BY <1>2, <1>3, RevisionKept DEF ClickInv

(* A step of the report, read with the revisions, is one of the agency.      *)
LEMMA HandoverStep ==
    ASSUME ClickInv, CustodyInv, ClickInv', CustodyInv', [Next]_vars
    PROVE  [Handover!Next]_Handover!vars
<1>1. [Report!Next]_Report!vars
  BY StepRefines
<1>2. Sent \subseteq Attempts /\ Sent' \subseteq Attempts
  BY DEF Sent
<1>3. /\ tickets \subseteq Sent
      /\ incident.ticket # NoAttempt => incident.ticket \in tickets
      /\ NoAttempt \notin Attempts
  BY ConstantsAssumption DEF ClickInv, ReceiptsOk, TicketIsIssued
<1>4. \A a \in Attempts : attempts[a].draft \in Nat /\ attempts'[a].draft \in Nat
  BY DEF ClickInv, TypeOK, AttemptRecord
<1>5. Sent \subseteq Sent'
  BY <1>1 DEF Report!Next, Report!vars, Report!Release, Report!Reserve, Report!Send,
              Report!Accept, Report!Learn
<1>6. \A a \in Sent : attempts'[a].draft = attempts[a].draft
  BY <1>5, SentRevisionKept
<1>7. \A S \in SUBSET Sent : Revisions(S)' = Revisions(S)
  BY <1>2, <1>6 DEF Revisions
<1>8. CASE UNCHANGED <<Sent, tickets, incident.ticket>>
  BY <1>3, <1>6, <1>8, <1>2 DEF Handover!vars, Revisions
<1>9. ASSUME NEW a \in Attempts, Report!Send(a)
      PROVE  [Handover!Next]_Handover!vars
  <2>1. Handover!Transfer(a, attempts'[a].draft)
    BY <1>2, <1>3, <1>6, <1>9 DEF Report!Send, Handover!Transfer, Revisions
  <2>. QED
    BY <1>4, <2>1 DEF Handover!Next
<1>10. ASSUME NEW a \in Attempts, Report!Accept(a)
       PROVE  [Handover!Next]_Handover!vars
  <2>1. CASE a \in tickets
    BY <1>8, <1>10, <2>1 DEF Report!Accept
  <2>2. CASE a \notin tickets
    <3>1. Handover!Accept(a, attempts[a].draft)
      BY <1>2, <1>3, <1>6, <1>10, <2>2 DEF Report!Accept, Handover!Accept, Revisions
    <3>. QED
      BY <1>4, <3>1 DEF Handover!Next
  <2>. QED
    BY <2>1, <2>2
<1>11. ASSUME NEW a \in Attempts, Report!Learn(a)
       PROVE  [Handover!Next]_Handover!vars
  <2>1. Handover!Answer(a, attempts[a].draft)
    BY <1>2, <1>3, <1>6, <1>11 DEF Report!Learn, Handover!Answer, Revisions
  <2>. QED
    BY <1>4, <2>1 DEF Handover!Next
<1>. QED
  BY <1>1, <1>8, <1>9, <1>10, <1>11
  DEF Report!Next, Report!vars, Report!Release, Report!Reserve

(* The workflow hands one revision of an attempt over, and what it takes for *)
(* the receipt is the agency's, for that revision: whatever is proved of the *)
(* abstract Agency, which the portal implements, the workflow may rely on.   *)
THEOREM WorkflowUsesAgency ==
    ASSUME LeaseCoversRun
    PROVE  Spec => UsesAgency
<1>1. Init => Handover!Init
  <2>. SUFFICES ASSUME Init PROVE Handover!Init
    OBVIOUS
  <2>1. Sent = {}
    BY CustodyInit DEF CustodyInv, SentIsStarted, Init, UnusedAttempt, Sent
  <2>2. tickets = {} /\ {incident.ticket} \cap Attempts = {}
    BY ConstantsAssumption DEF Init
  <2>. QED
    BY <2>1, <2>2 DEF Revisions, Handover!Init
<1>2. ClickInv /\ CustodyInv /\ ClickInv' /\ CustodyInv' /\ [Next]_vars
        => [Handover!Next]_Handover!vars
  BY HandoverStep
<1>. QED
  BY <1>1, <1>2, CustodyInvariance, PTL DEF Spec, UsesAgency, Handover!Spec
================================================================================

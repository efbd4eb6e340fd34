----------------------------- MODULE WorkflowProofs ---------------------------
(***************************************************************************)
(* Proofs about Workflow for any requests and any bounds: its types, that  *)
(* a workflow that waits has its task token on record, and that no wake-up *)
(* is lost but to a fault.                                                 *)
(***************************************************************************)
EXTENDS Workflow, TLAPS

(* The execution has handed out its token: it waits, or has waited.          *)
Waited(o) == execs[o] \in {"awaiting", "finished"} /\ threads[o].pc # "registering"

(* A revision exists once the case does, and an attempt is of one of them.   *)
IncidentOk ==
    /\ incident.attempt <= incident.revision
    /\ incident.status # "NONE" => incident.revision # 0

(* Who wakes knows the revision, and the token it sends has been handed out; *)
(* once it is sent the wait is over.                                         *)
ThreadOk(t) ==
    /\ threads[t].pc \in {"registering", "waking", "sending", "marking"} =>
          threads[t].revision \in Revisions
    /\ threads[t].pc = "dispatching" => threads[t].op \in Operations
    /\ threads[t].pc \in {"sending", "marking"} =>
          threads[t].token \in Operations /\ Waited(threads[t].token)
    /\ threads[t].pc = "marking" => execs[threads[t].token] = "finished"

(* The Lambda of an execution registers once, while the execution waits.     *)
ExecOk(o) ==
    /\ execs[o] \notin {"awaiting", "finished", "failed"} => threads[o].pc = "idle"
    /\ threads[o].pc = "registering" => execs[o] = "awaiting"

(* A token on record has been handed out, and one that is consumed was used. *)
CallbackOk(d) ==
    callbacks[d].token # None =>
        /\ callbacks[d].token \in Operations /\ Waited(callbacks[d].token)
        /\ callbacks[d].consumed => execs[callbacks[d].token] = "finished"

RecordsOk ==
    /\ IncidentOk
    /\ \A t \in Threads : ThreadOk(t)
    /\ \A o \in Operations : ExecOk(o)
    /\ \A d \in Revisions : CallbackOk(d)

WorkflowInv == TypeOK /\ RecordsOk /\ TokensAreKept /\ NoLostWakeup

-------------------------------------------------------------------------------
(* What every step leaves in place                                           *)

(* Requests are no operations, and nothing is both.                          *)
LEMMA Disjoint ==
    ASSUME WorkflowAssumption
    PROVE  /\ Calls \subseteq Threads /\ Operations \subseteq Threads
           /\ \A c \in Calls : c \notin Operations
           /\ None \notin Operations
           /\ Revisions \subseteq 0..MaxRevisions /\ 0 \notin Revisions
           /\ \A d \in 0..MaxRevisions : d # 0 => d \in Revisions
  BY DEF WorkflowAssumption, Threads, Operations, Revisions

(* A token handed out stays so, and a wait that is over stays over.          *)
Lasts ==
    \A o \in Operations :
        /\ Waited(o) => Waited(o)'
        /\ execs[o] = "finished" => execs'[o] = "finished"

(* A thread that stands still keeps its part.                                *)
LEMMA ThreadStays ==
    ASSUME Lasts, NEW t \in Threads, ThreadOk(t), threads'[t] = threads[t]
    PROVE  ThreadOk(t)'
<1>1. CASE threads[t].pc \in {"sending", "marking"}
  BY <1>1 DEF ThreadOk, Lasts
<1>2. CASE threads[t].pc \notin {"sending", "marking"}
  BY <1>2 DEF ThreadOk
<1>. QED BY <1>1, <1>2

(* So does a callback record.                                                *)
LEMMA CallbackStays ==
    ASSUME Lasts, NEW d \in Revisions, CallbackOk(d), callbacks'[d] = callbacks[d]
    PROVE  CallbackOk(d)'
  BY DEF CallbackOk, Lasts

(* A thread goes to its next step with what it has.                          *)
LEMMA GotoType ==
    ASSUME TypeOK, NEW t \in Threads, NEW pc,
           pc \in {"registering", "waking", "sending", "marking", "over"}, Goto(t, pc)
    PROVE  /\ threads' \in [Threads -> ThreadRecord]
           /\ threads'[t] = [threads[t] EXCEPT !.pc = pc]
           /\ threads'[t].pc = pc /\ threads'[t].revision = threads[t].revision
           /\ threads'[t].token = threads[t].token
           /\ \A u \in Threads \ {t} : threads'[u] = threads[u]
<1>1. threads \in [Threads -> ThreadRecord] /\ threads[t] \in ThreadRecord
  BY DEF TypeOK
<1>2. threads'[t] = [threads[t] EXCEPT !.pc = pc] /\ \A u \in Threads \ {t} : threads'[u] = threads[u]
  BY <1>1 DEF Goto
<1>3. [threads[t] EXCEPT !.pc = pc] \in ThreadRecord
  BY <1>1 DEF ThreadRecord
<1>. QED BY <1>1, <1>2, <1>3 DEF Goto, ThreadRecord

(* Or it is over.                                                            *)
LEMMA GoOverType ==
    ASSUME WorkflowAssumption, TypeOK, NEW t \in Threads, GoOver(t)
    PROVE  /\ threads' \in [Threads -> ThreadRecord]
           /\ threads'[t].pc = "over" /\ threads'[t].revision = 0
           /\ \A u \in Threads \ {t} : threads'[u] = threads[u]
<1>. DEFINE gone == [pc |-> "over", op |-> None, revision |-> 0, token |-> None]
<1>1. gone \in ThreadRecord
  BY DEF ThreadRecord, WorkflowAssumption
<1>2. threads \in [Threads -> ThreadRecord]
  BY DEF TypeOK
<1>. HIDE DEF ThreadRecord
<1>3. threads' = [threads EXCEPT ![t] = gone]
  BY DEF GoOver
<1>. QED BY <1>1, <1>2, <1>3

(* An enqueued job has the type of a job.                                    *)
LEMMA EnqueuedType ==
    ASSUME TypeOK, NEW o \in Operations, NEW kind \in {"decide", "submit"}
    PROVE  Enqueued(o, kind) \in [Operations -> JobRecord]
<1>1. [kind |-> kind, status |-> "pending", leased |-> FALSE] \in JobRecord
  BY DEF JobRecord
<1>2. jobs \in [Operations -> JobRecord]
  BY DEF TypeOK
<1>. HIDE DEF JobRecord
<1>. QED BY <1>1, <1>2 DEF Enqueued

-------------------------------------------------------------------------------
(* Initially nobody waits.                                                   *)
LEMMA InitInv == ASSUME WorkflowAssumption, Init PROVE WorkflowInv
<1>1. TypeOK
  BY Disjoint DEF Init, TypeOK, Reserved, JobRecord, ThreadRecord, WorkflowAssumption
<1>2. RecordsOk
  BY Disjoint DEF Init, RecordsOk, IncidentOk, ThreadOk, ExecOk, CallbackOk
<1>3. TokensAreKept /\ NoLostWakeup
  BY DEF Init, TokensAreKept, NoLostWakeup, Awaits
<1>. QED BY <1>1, <1>2, <1>3 DEF WorkflowInv
-------------------------------------------------------------------------------
(* The API                                                                   *)

(* t is about to wake the workflow o that waits for revision d.              *)
Wakes(t, o, d) ==
    /\ threads[t].revision = d
    /\ \/ threads[t].pc \in {"dispatching", "waking"}
       \/ threads[t].pc = "sending" /\ threads[t].token = o

(* The workflows a waker is owed to.                                         *)
Owed(o, d) ==
    Awaits(o) /\ callbacks[d].token = o /\ Decision(d) = "approved" /\ d \notin unwoken

(* The property in these terms.                                              *)
LEMMA NoLostWakeupIs ==
    NoLostWakeup <=> \A o \in Operations, d \in Revisions :
                         Owed(o, d) => \E t \in Calls \cup {o} : Wakes(t, o, d)
  BY DEF NoLostWakeup, Owed, Wakes

(* And after a step.                                                         *)
LEMMA NoLostWakeupNext ==
    ASSUME \A o \in Operations, d \in Revisions :
               Owed(o, d)' => \E t \in Calls \cup {o} : Wakes(t, o, d)'
    PROVE  NoLostWakeup'
  BY DEF NoLostWakeup, Owed, Wakes

(* A token is kept by a step that keeps records and waits.                   *)
LEMMA TokensStay ==
    ASSUME TokensAreKept, UNCHANGED callbacks,
           \A o \in Operations : Awaits(o)' => Awaits(o)
    PROVE  TokensAreKept'
  BY DEF TokensAreKept

(* Decisions and approvals, as far as the workflow sees them.                *)
LEMMA DecideInv ==
    ASSUME WorkflowAssumption, WorkflowInv, NEW c \in Calls, Decide(c)
    PROVE  WorkflowInv'
<1>1. PICK o \in Operations :
          /\ \/ o \in NextOperation /\ jobs' = Enqueued(o, "decide")
             \/ UNCHANGED jobs
          /\ threads' = [threads EXCEPT ![c] = [@ EXCEPT !.pc = "dispatching", !.op = o]]
  BY DEF Decide
<1>2. /\ threads[c].pc = "idle" /\ UNCHANGED <<incident, execs, callbacks, unwoken, faults>>
      /\ TypeOK /\ RecordsOk /\ c \in Threads /\ c \notin Operations
      /\ threads[c] \in ThreadRecord
  BY Disjoint DEF Decide, WorkflowInv, TypeOK
<1>3. /\ threads'[c].pc = "dispatching" /\ threads'[c].op = o
      /\ \A t \in Threads \ {c} : threads'[t] = threads[t]
      /\ threads' \in [Threads -> ThreadRecord]
  BY <1>1, <1>2 DEF TypeOK, ThreadRecord
<1>4. jobs' \in [Operations -> JobRecord]
  <2>1. jobs \in [Operations -> JobRecord]
    BY <1>2 DEF TypeOK
  <2>. QED BY <1>1, <1>2, <2>1, EnqueuedType
<1>5. TypeOK'
  BY <1>2, <1>3, <1>4 DEF TypeOK
<1>6. /\ Lasts
      /\ \A p \in Operations : threads'[p] = threads[p] /\ execs'[p] = execs[p]
  BY <1>2, <1>3, Disjoint DEF Lasts, Waited
<1>7. RecordsOk'
  <2>1. \A t \in Threads : ThreadOk(t)'
    BY <1>2, <1>3, <1>6, ThreadStays DEF RecordsOk, ThreadOk
  <2>2. \A p \in Operations : ExecOk(p)'
    BY <1>2, <1>6 DEF RecordsOk, ExecOk
  <2>3. \A d \in Revisions : CallbackOk(d)'
    BY <1>2, <1>6, CallbackStays DEF RecordsOk
  <2>. QED BY <1>2, <2>1, <2>2, <2>3 DEF RecordsOk, IncidentOk
<1>8. TokensAreKept'
  BY <1>2, <1>6, TokensStay DEF WorkflowInv, Awaits
<1>9. NoLostWakeup'
  <2>1. SUFFICES ASSUME NEW p \in Operations, NEW d \in Revisions, Owed(p, d)'
                 PROVE  \E t \in Calls \cup {p} : Wakes(t, p, d)'
    BY NoLostWakeupNext
  <2>2. Owed(p, d)
    BY <2>1, <1>2, <1>6 DEF Owed, Awaits, Decision
  <2>3. PICK t \in Calls \cup {p} : Wakes(t, p, d) /\ t \in Threads
    BY <2>2, NoLostWakeupIs, Disjoint DEF WorkflowInv
  <2>4. t # c
    BY <2>3, <1>2 DEF Wakes
  <2>. QED BY <2>3, <2>4, <1>3 DEF Wakes
<1>. QED BY <1>5, <1>7, <1>8, <1>9 DEF WorkflowInv

(* An approval is about to dispatch and then to wake its revision.           *)
LEMMA ApproveInv ==
    ASSUME WorkflowAssumption, WorkflowInv, NEW c \in Calls, Approve(c)
    PROVE  WorkflowInv'
<1>1. PICK o \in Operations :
          /\ \/ /\ jobs' = Enqueued(o, "submit")
                /\ incident' = [incident EXCEPT !.status = "IN_FLIGHT",
                                               !.attempt = incident.revision, !.op = o]
             \/ UNCHANGED <<incident, jobs>>
          /\ threads' = [threads EXCEPT ![c] =
                            [@ EXCEPT !.pc = "dispatching", !.op = o, !.revision = incident.revision]]
  BY DEF Approve
<1>2. /\ threads[c].pc = "idle" /\ incident.revision # 0
      /\ UNCHANGED <<execs, callbacks, faults>> /\ unwoken' \subseteq unwoken
      /\ TypeOK /\ RecordsOk /\ c \in Threads /\ c \notin Operations
      /\ threads[c] \in ThreadRecord
  BY Disjoint DEF Approve, WorkflowInv, TypeOK
<1>3. incident.revision \in Revisions
  BY <1>2, Disjoint DEF TypeOK
<1>4. /\ threads'[c].pc = "dispatching" /\ threads'[c].op = o
      /\ threads'[c].revision = incident.revision
      /\ \A t \in Threads \ {c} : threads'[t] = threads[t]
      /\ threads' \in [Threads -> ThreadRecord]
  BY <1>1, <1>2 DEF TypeOK, ThreadRecord
<1>5. jobs' \in [Operations -> JobRecord]
  <2>1. jobs \in [Operations -> JobRecord]
    BY <1>2 DEF TypeOK
  <2>. QED BY <1>1, <1>2, <2>1, EnqueuedType
<1>6. incident'.revision = incident.revision /\ IncidentOk'
  <2>1. incident.revision \in Nat /\ incident.attempt <= incident.revision
    BY <1>2 DEF TypeOK, RecordsOk, IncidentOk
  <2>2. CASE incident' = [incident EXCEPT !.status = "IN_FLIGHT", !.attempt = incident.revision,
                                          !.op = o]
    <3>1. incident'.revision = incident.revision /\ incident'.attempt = incident.revision
      BY <2>2, <1>2 DEF TypeOK
    <3>. QED BY <3>1, <2>1, <1>2 DEF IncidentOk
  <2>3. CASE UNCHANGED incident
    BY <2>3, <1>2 DEF RecordsOk, IncidentOk
  <2>. QED BY <1>1, <2>2, <2>3
<1>7. incident' \in [revision : 0..MaxRevisions, attempt : 0..MaxRevisions,
                    op : Operations \cup {None},
                    status : Reserved \cup {"NONE", "AWAITING_APPROVAL", "CANCELLED",
                                            "FAILED_BEFORE_SUBMISSION"}]
  BY <1>1, <1>2 DEF TypeOK, Reserved
<1>8. TypeOK'
  BY <1>2, <1>4, <1>5, <1>7 DEF TypeOK
<1>9. /\ Lasts
      /\ \A p \in Operations : threads'[p] = threads[p] /\ execs'[p] = execs[p]
  BY <1>2, <1>4, Disjoint DEF Lasts, Waited
<1>10. RecordsOk'
  <2>1. \A t \in Threads : ThreadOk(t)'
    BY <1>2, <1>4, <1>9, ThreadStays DEF RecordsOk, ThreadOk
  <2>2. \A p \in Operations : ExecOk(p)'
    BY <1>2, <1>9 DEF RecordsOk, ExecOk
  <2>3. \A d \in Revisions : CallbackOk(d)'
    BY <1>2, <1>9, CallbackStays DEF RecordsOk
  <2>. QED BY <1>6, <2>1, <2>2, <2>3 DEF RecordsOk
<1>11. TokensAreKept'
  BY <1>2, <1>9, TokensStay DEF WorkflowInv, Awaits
<1>12. NoLostWakeup'
  <2>1. SUFFICES ASSUME NEW p \in Operations, NEW d \in Revisions, Owed(p, d)'
                 PROVE  Wakes(c, p, d)'
    BY NoLostWakeupNext
  <2>2. incident'.revision = d
    BY <2>1 DEF Owed, Decision
  <2>. QED BY <2>2, <1>4, <1>6 DEF Wakes
<1>. QED BY <1>8, <1>10, <1>11, <1>12 DEF WorkflowInv

(* A dispatched approval goes on to wake; one whose dispatch fails is a      *)
(* fault, and its revision is noted.                                         *)
LEMMA DispatchInv ==
    ASSUME WorkflowAssumption, WorkflowInv, NEW c \in Calls, Dispatch(c)
    PROVE  WorkflowInv'
<1>1. /\ threads[c].pc = "dispatching" /\ UNCHANGED <<incident, jobs, callbacks>>
      /\ TypeOK /\ RecordsOk /\ c \in Threads /\ c \notin Operations
      /\ threads[c] \in ThreadRecord /\ threads[c].op \in Operations
      /\ threads[c].revision \in 0..MaxRevisions
  BY Disjoint DEF Dispatch, WorkflowInv, RecordsOk, ThreadOk, TypeOK, ThreadRecord
<1>2. \/ /\ threads[c].revision = 0 /\ GoOver(c) /\ UNCHANGED <<unwoken, faults>>
         /\ execs' = [execs EXCEPT ![threads[c].op] = IF @ = "absent" THEN "run" ELSE @]
      \/ /\ threads[c].revision # 0 /\ Goto(c, "waking") /\ UNCHANGED <<unwoken, faults>>
         /\ execs' = [execs EXCEPT ![threads[c].op] = IF @ = "absent" THEN "run" ELSE @]
      \/ /\ GoOver(c) /\ UNCHANGED execs /\ Fault
         /\ unwoken' = unwoken \cup ({threads[c].revision} \ {0})
  BY DEF Dispatch
<1>3. /\ threads' \in [Threads -> ThreadRecord]
      /\ threads'[c].pc = "over" \/ (/\ threads'[c].pc = "waking" /\ threads[c].revision # 0
                                    /\ threads'[c].revision = threads[c].revision)
      /\ \A t \in Threads \ {c} : threads'[t] = threads[t]
  BY <1>1, <1>2, GotoType, GoOverType
<1>4. \A p \in Operations :
          /\ execs'[p] = execs[p] \/ (execs[p] = "absent" /\ execs'[p] = "run")
          /\ threads'[p] = threads[p]
  BY <1>1, <1>2, <1>3, Disjoint DEF TypeOK
<1>5. TypeOK'
  <2>1. execs' \in [Operations -> {"absent", "run", "working", "choosing", "delay", "awaiting",
                                  "finished", "failed"}]
    BY <1>1, <1>2 DEF TypeOK
  <2>2. unwoken' \subseteq Revisions
    BY <1>1, <1>2, Disjoint DEF TypeOK
  <2>3. faults' \in 0..MaxFaults
    BY <1>1, <1>2 DEF TypeOK, Fault, WorkflowAssumption
  <2>. QED BY <1>1, <1>3, <2>1, <2>2, <2>3 DEF TypeOK
<1>6. Lasts
  BY <1>4 DEF Lasts, Waited
<1>7. RecordsOk'
  <2>1. ThreadOk(c)'
    BY <1>1, <1>3, Disjoint DEF ThreadOk
  <2>2. \A t \in Threads : ThreadOk(t)'
    BY <1>1, <1>3, <1>6, <2>1, ThreadStays DEF RecordsOk
  <2>3. \A p \in Operations : ExecOk(p)'
    BY <1>1, <1>4 DEF RecordsOk, ExecOk
  <2>4. \A d \in Revisions : CallbackOk(d)'
    BY <1>1, <1>6, CallbackStays DEF RecordsOk
  <2>. QED BY <1>1, <2>2, <2>3, <2>4 DEF RecordsOk, IncidentOk
<1>8. TokensAreKept'
  BY <1>1, <1>4, TokensStay DEF WorkflowInv, Awaits
<1>9. NoLostWakeup'
  <2>1. SUFFICES ASSUME NEW p \in Operations, NEW d \in Revisions, Owed(p, d)'
                 PROVE  \E t \in Calls \cup {p} : Wakes(t, p, d)'
    BY NoLostWakeupNext
  <2>2. Owed(p, d)
    BY <2>1, <1>1, <1>2, <1>4 DEF Owed, Awaits, Decision
  <2>3. PICK t \in Calls \cup {p} : Wakes(t, p, d) /\ t \in Threads
    BY <2>2, NoLostWakeupIs, Disjoint DEF WorkflowInv
  <2>4. CASE t # c
    BY <2>3, <2>4, <1>3 DEF Wakes
  <2>5. CASE t = c
    <3>1. threads[c].revision = d /\ d # 0
      BY <2>3, <2>5, Disjoint DEF Wakes
    <3>2. ~(unwoken' = unwoken \cup ({threads[c].revision} \ {0}))
      BY <3>1, <2>1 DEF Owed
    <3>3. Goto(c, "waking")
      BY <1>2, <3>1, <3>2
    <3>4. threads'[c].pc = "waking" /\ threads'[c].revision = d
      BY <3>1, <3>3, <1>1, GotoType
    <3>. QED BY <3>4, <1>1 DEF Wakes
  <2>. QED BY <2>4, <2>5
<1>. QED BY <1>5, <1>7, <1>8, <1>9 DEF WorkflowInv

(* What a step that moves only the case has to show: nothing is approved by  *)
(* it.                                                                       *)
LEMMA CaseInv ==
    ASSUME WorkflowAssumption, WorkflowInv,
           UNCHANGED <<jobs, execs, callbacks, threads, unwoken, faults>>,
           incident' \in [revision : 0..MaxRevisions, attempt : 0..MaxRevisions,
                          op : Operations \cup {None},
                          status : Reserved \cup {"NONE", "AWAITING_APPROVAL", "CANCELLED",
                                                  "FAILED_BEFORE_SUBMISSION"}],
           IncidentOk', \A d \in Revisions : Decision(d)' # "approved"
    PROVE  WorkflowInv'
<1>1. TypeOK'
  BY DEF WorkflowInv, TypeOK
<1>2. Lasts
  BY DEF Lasts, Waited
<1>3. RecordsOk'
  BY <1>2, ThreadStays, CallbackStays DEF WorkflowInv, RecordsOk, ExecOk
<1>4. TokensAreKept'
  BY TokensStay DEF WorkflowInv, Awaits
<1>5. NoLostWakeup'
  BY NoLostWakeupNext DEF Owed
<1>. QED BY <1>1, <1>3, <1>4, <1>5 DEF WorkflowInv

(* A case whose report is drafted or revised keeps the rest of its record.   *)
LEMMA DraftedType ==
    ASSUME TypeOK, NEW r \in 0..MaxRevisions,
           incident' = [incident EXCEPT !.revision = r, !.status = "AWAITING_APPROVAL"]
    PROVE  /\ incident' \in [revision : 0..MaxRevisions, attempt : 0..MaxRevisions,
                          op : Operations \cup {None},
                          status : Reserved \cup {"NONE", "AWAITING_APPROVAL", "CANCELLED",
                                                  "FAILED_BEFORE_SUBMISSION"}]
           /\ incident'.revision = r /\ incident'.attempt = incident.attempt
<1>. DEFINE States == Reserved \cup {"NONE", "AWAITING_APPROVAL", "CANCELLED",
                                     "FAILED_BEFORE_SUBMISSION"}
<1>1. incident \in [revision : 0..MaxRevisions, attempt : 0..MaxRevisions,
                    op : Operations \cup {None}, status : States]
  BY DEF TypeOK
<1>2. "AWAITING_APPROVAL" \in States
  OBVIOUS
<1>. HIDE DEF States
<1>3. /\ incident' \in [revision : 0..MaxRevisions, attempt : 0..MaxRevisions,
                        op : Operations \cup {None}, status : States]
      /\ incident'.revision = r /\ incident'.attempt = incident.attempt
  BY <1>1, <1>2
<1>. QED BY <1>3 DEF States

(* A new revision has no attempt.                                            *)
LEMMA ReviseInv ==
    ASSUME WorkflowAssumption, WorkflowInv, Revise
    PROVE  WorkflowInv'
<1>1. /\ UNCHANGED <<jobs, execs, callbacks, threads, unwoken, faults>>
      /\ incident.revision \in 1..MaxRevisions - 1
      /\ incident' = [incident EXCEPT !.revision = @ + 1, !.status = "AWAITING_APPROVAL"]
      /\ MaxRevisions \in Nat
  BY DEF Revise, WorkflowAssumption
<1>2. /\ incident.attempt \in Nat /\ incident.attempt <= incident.revision
      /\ incident' \in [revision : 0..MaxRevisions, attempt : 0..MaxRevisions,
                        op : Operations \cup {None},
                        status : Reserved \cup {"NONE", "AWAITING_APPROVAL", "CANCELLED",
                                                "FAILED_BEFORE_SUBMISSION"}]
      /\ incident'.revision = incident.revision + 1 /\ incident'.attempt = incident.attempt
  <2>1. /\ TypeOK /\ incident.attempt <= incident.revision
        /\ incident.attempt \in Nat
    BY DEF WorkflowInv, TypeOK, RecordsOk, IncidentOk
  <2>2. incident.revision + 1 \in 0..MaxRevisions
    BY <1>1
  <2>3. incident' = [incident EXCEPT !.revision = incident.revision + 1,
                                     !.status = "AWAITING_APPROVAL"]
    BY <1>1
  <2>. QED BY <2>1, <2>2, <2>3, DraftedType
<1>3. IncidentOk'
  BY <1>1, <1>2 DEF IncidentOk
<1>4. \A d \in Revisions : Decision(d)' # "approved"
  BY <1>1, <1>2 DEF Decision
<1>. QED BY <1>1, <1>2, <1>3, <1>4, CaseInv

(* A cancelled revision is not approved.                                     *)
LEMMA CancelInv ==
    ASSUME WorkflowAssumption, WorkflowInv, Cancel
    PROVE  WorkflowInv'
<1>1. /\ UNCHANGED <<jobs, execs, callbacks, threads, unwoken, faults>>
      /\ incident.status # "NONE"
      /\ incident' = [incident EXCEPT !.status = "CANCELLED"]
  BY DEF Cancel
<1>2. /\ incident' \in [revision : 0..MaxRevisions, attempt : 0..MaxRevisions,
                        op : Operations \cup {None},
                        status : Reserved \cup {"NONE", "AWAITING_APPROVAL", "CANCELLED",
                                                "FAILED_BEFORE_SUBMISSION"}]
      /\ incident'.status = "CANCELLED" /\ incident'.revision = incident.revision
      /\ incident'.attempt = incident.attempt
  BY <1>1 DEF WorkflowInv, TypeOK
<1>3. IncidentOk'
  BY <1>1, <1>2 DEF WorkflowInv, RecordsOk, IncidentOk
<1>4. \A d \in Revisions : Decision(d)' # "approved"
  BY <1>2 DEF Decision
<1>. QED BY <1>1, <1>2, <1>3, <1>4, CaseInv

-------------------------------------------------------------------------------
(* The execution                                                             *)

(* What a step of an execution that is not waiting, and does not begin to,   *)
(* has to show: what it makes of the case approves nothing.                  *)
LEMMA EarlyInv ==
    ASSUME WorkflowAssumption, WorkflowInv, NEW o \in Operations,
           execs[o] \notin {"awaiting", "finished", "failed"},
           NEW e \in {"run", "working", "choosing", "delay", "finished", "failed"},
           execs' = [execs EXCEPT ![o] = e],
           UNCHANGED <<callbacks, threads, unwoken>>, TypeOK', IncidentOk',
           \A d \in Revisions : Decision(d)' = "approved" => Decision(d) = "approved"
    PROVE  WorkflowInv'
<1>1. TypeOK /\ RecordsOk /\ threads[o].pc = "idle"
  BY DEF WorkflowInv, RecordsOk, ExecOk
<1>2. execs'[o] = e /\ \A p \in Operations \ {o} : execs'[p] = execs[p]
  BY <1>1 DEF TypeOK
<1>3. Lasts
  BY <1>2 DEF Lasts, Waited
<1>4. \A p \in Operations : ExecOk(p)'
  BY <1>1, <1>2 DEF RecordsOk, ExecOk
<1>5. RecordsOk'
  BY <1>1, <1>3, <1>4, ThreadStays, CallbackStays DEF RecordsOk
<1>6. \A p \in Operations : Awaits(p)' => Awaits(p)
  BY <1>2 DEF Awaits
<1>7. TokensAreKept'
  BY <1>6, TokensStay DEF WorkflowInv
<1>8. NoLostWakeup'
  <2>1. SUFFICES ASSUME NEW p \in Operations, NEW d \in Revisions, Owed(p, d)'
                 PROVE  \E t \in Calls \cup {p} : Wakes(t, p, d)'
    BY NoLostWakeupNext
  <2>2. Owed(p, d)
    BY <2>1, <1>6 DEF Owed
  <2>3. PICK t \in Calls \cup {p} : Wakes(t, p, d) /\ t \in Threads
    BY <2>2, NoLostWakeupIs, Disjoint DEF WorkflowInv
  <2>. QED BY <2>3 DEF Wakes
<1>. QED BY <1>5, <1>7, <1>8 DEF WorkflowInv

(* A job that moves keeps its type.                                          *)
LEMMA JobType ==
    ASSUME TypeOK, NEW o \in Operations, NEW leased \in BOOLEAN,
           NEW status \in {"pending", "running", "completed", "failed"},
           jobs' = [jobs EXCEPT ![o].status = status, ![o].leased = leased]
    PROVE  jobs' \in [Operations -> JobRecord]
<1>1. jobs \in [Operations -> JobRecord] /\ jobs[o] \in JobRecord
  BY DEF TypeOK
<1>2. [jobs[o] EXCEPT !.status = status, !.leased = leased] \in JobRecord
  BY <1>1 DEF JobRecord
<1>. QED BY <1>1, <1>2

(* Phase run                                                                 *)
LEMMA RunInv ==
    ASSUME WorkflowAssumption, WorkflowInv, NEW o \in Operations, Run(o)
    PROVE  WorkflowInv'
<1>1. /\ execs[o] = "run" /\ UNCHANGED <<incident, callbacks, threads, unwoken>>
      /\ UNCHANGED faults \/ Fault
      /\ TypeOK /\ IncidentOk
  BY DEF Run, WorkflowInv, RecordsOk
<1>2. \/ /\ jobs' = [jobs EXCEPT ![o].status = "running", ![o].leased = TRUE]
         /\ execs' = [execs EXCEPT ![o] = "working"]
      \/ UNCHANGED jobs /\ execs' = [execs EXCEPT ![o] = "delay"]
      \/ UNCHANGED jobs /\ execs' = [execs EXCEPT ![o] = "failed"]
  BY DEF Run
<1>3. jobs' \in [Operations -> JobRecord]
  <2>1. CASE jobs' = [jobs EXCEPT ![o].status = "running", ![o].leased = TRUE]
    BY <2>1, <1>1, JobType
  <2>2. CASE UNCHANGED jobs
    BY <2>2, <1>1 DEF TypeOK
  <2>. QED BY <1>2, <2>1, <2>2
<1>4. faults' \in 0..MaxFaults
  BY <1>1 DEF TypeOK, Fault, WorkflowAssumption
<1>5. TypeOK'
  BY <1>1, <1>2, <1>3, <1>4 DEF TypeOK
<1>6. IncidentOk' /\ \A d \in Revisions : Decision(d)' = "approved" => Decision(d) = "approved"
  BY <1>1 DEF IncidentOk, Decision
<1>. QED BY <1>1, <1>2, <1>5, <1>6, EarlyInv

(* The wait before another try                                               *)
LEMMA DelayInv ==
    ASSUME WorkflowAssumption, WorkflowInv, NEW o \in Operations, Delay(o)
    PROVE  WorkflowInv'
<1>1. /\ execs[o] = "delay" /\ UNCHANGED <<incident, callbacks, threads, unwoken, faults>>
      /\ execs' = [execs EXCEPT ![o] = "run"] /\ jobs' = [jobs EXCEPT ![o].leased = FALSE]
      /\ TypeOK /\ IncidentOk
  BY DEF Delay, WorkflowInv, RecordsOk
<1>2. jobs' \in [Operations -> JobRecord]
  <2>1. jobs \in [Operations -> JobRecord] /\ jobs[o] \in JobRecord
    BY <1>1 DEF TypeOK
  <2>2. [jobs[o] EXCEPT !.leased = FALSE] \in JobRecord
    BY <2>1 DEF JobRecord
  <2>. QED BY <1>1, <2>1, <2>2
<1>3. TypeOK'
  BY <1>1, <1>2 DEF TypeOK
<1>4. IncidentOk' /\ \A d \in Revisions : Decision(d)' = "approved" => Decision(d) = "approved"
  BY <1>1 DEF IncidentOk, Decision
<1>. QED BY <1>1, <1>3, <1>4, EarlyInv

(* The work of a job                                                         *)
LEMMA WorkInv ==
    ASSUME WorkflowAssumption, WorkflowInv, NEW o \in Operations, Work(o)
    PROVE  WorkflowInv'
<1>. DEFINE failed == [incident EXCEPT !.status = "FAILED_BEFORE_SUBMISSION"]
<1>1. /\ execs[o] = "working" /\ UNCHANGED <<callbacks, threads, unwoken>>
      /\ TypeOK /\ IncidentOk /\ MaxRevisions \in Nat \ {0}
  BY DEF Work, WorkflowInv, RecordsOk, WorkflowAssumption
<1>2. /\ \/ execs' = [execs EXCEPT ![o] = "choosing"]
         \/ execs' = [execs EXCEPT ![o] = "failed"]
         \/ execs' = [execs EXCEPT ![o] = "run"]
      /\ \/ jobs' = [jobs EXCEPT ![o].status = "completed", ![o].leased = FALSE]
         \/ jobs' = [jobs EXCEPT ![o].status = "failed", ![o].leased = FALSE]
         \/ UNCHANGED jobs
      /\ UNCHANGED faults \/ Fault
  BY DEF Work
<1>3. \/ incident' = incident
      \/ incident.revision = 0 /\ incident' = [incident EXCEPT !.revision = 1, !.status = "AWAITING_APPROVAL"]
      \/ incident.status = "IN_FLIGHT" /\ incident' = [incident EXCEPT !.status = "SUBMITTED"]
      \/ incident.status = "IN_FLIGHT" /\ incident' = failed
  BY DEF Work, Completed
<1>4. jobs' \in [Operations -> JobRecord]
  <2>1. CASE UNCHANGED jobs
    BY <2>1, <1>1 DEF TypeOK
  <2>. QED BY <1>1, <1>2, <2>1, JobType
<1>5. /\ incident' \in [revision : 0..MaxRevisions, attempt : 0..MaxRevisions,
                        op : Operations \cup {None},
                        status : Reserved \cup {"NONE", "AWAITING_APPROVAL", "CANCELLED",
                                                "FAILED_BEFORE_SUBMISSION"}]
      /\ incident'.attempt = incident.attempt
      /\ \/ incident'.revision = incident.revision
         \/ incident.revision = 0 /\ incident'.revision = 1
      /\ incident'.revision = incident.revision =>
            incident' = incident \/ incident.status = "IN_FLIGHT"
  <2>1. incident \in [revision : 0..MaxRevisions, attempt : 0..MaxRevisions,
                        op : Operations \cup {None},
                        status : Reserved \cup {"NONE", "AWAITING_APPROVAL", "CANCELLED",
                                                "FAILED_BEFORE_SUBMISSION"}]
    BY <1>1 DEF TypeOK
  <2>2. CASE incident' = incident
    BY <2>1, <2>2
  <2>3. CASE incident.revision = 0
             /\ incident' = [incident EXCEPT !.revision = 1, !.status = "AWAITING_APPROVAL"]
    <3>1. 1 \in 0..MaxRevisions
      BY <1>1
    <3>2. /\ incident' \in [revision : 0..MaxRevisions, attempt : 0..MaxRevisions,
                            op : Operations \cup {None},
                            status : Reserved \cup {"NONE", "AWAITING_APPROVAL", "CANCELLED",
                                                    "FAILED_BEFORE_SUBMISSION"}]
          /\ incident'.revision = 1 /\ incident'.attempt = incident.attempt
      BY <1>1, <2>3, <3>1, DraftedType
    <3>. QED BY <2>3, <3>2
  <2>4. CASE incident.status = "IN_FLIGHT" /\ incident' = [incident EXCEPT !.status = "SUBMITTED"]
    BY <2>1, <2>4 DEF Reserved
  <2>5. CASE incident.status = "IN_FLIGHT" /\ incident' = failed
    BY <2>1, <2>5
  <2>. QED BY <1>3, <2>2, <2>3, <2>4, <2>5
<1>6. faults' \in 0..MaxFaults
  BY <1>1, <1>2 DEF TypeOK, Fault, WorkflowAssumption
<1>7. TypeOK'
  BY <1>1, <1>2, <1>4, <1>5, <1>6 DEF TypeOK
<1>8. incident.revision \in Nat /\ incident.attempt \in Nat
      /\ incident.attempt <= incident.revision
  BY <1>1 DEF TypeOK, IncidentOk
<1>9. IncidentOk'
  BY <1>1, <1>5, <1>8 DEF IncidentOk
<1>10. \A d \in Revisions : Decision(d)' = "approved" => Decision(d) = "approved"
  <2>1. SUFFICES ASSUME NEW d \in Revisions, Decision(d)' = "approved"
                 PROVE  Decision(d) = "approved"
    OBVIOUS
  <2>2. incident'.revision = d /\ incident'.attempt = d /\ d # 0
    BY <2>1, Disjoint DEF Decision
  <2>3. incident'.revision = incident.revision
    BY <2>2, <1>5, <1>8
  <2>4. incident' = incident \/ incident.status = "IN_FLIGHT"
    BY <2>3, <1>5
  <2>. QED BY <2>1, <2>2, <2>3, <2>4, <1>5 DEF Decision
<1>11. PICK e \in {"run", "working", "choosing", "delay", "finished", "failed"} :
          execs' = [execs EXCEPT ![o] = e]
  BY <1>2
<1>. QED BY <1>1, <1>7, <1>9, <1>10, <1>11, EarlyInv

(* The end of phase run: the execution is over, or it begins to wait and its *)
(* Lambda to register.                                                       *)
LEMMA ChooseInv ==
    ASSUME WorkflowAssumption, WorkflowInv, NEW o \in Operations, Choose(o)
    PROVE  WorkflowInv'
<1>1. /\ execs[o] = "choosing" /\ UNCHANGED <<incident, jobs, callbacks, unwoken>>
      /\ TypeOK /\ RecordsOk /\ TokensAreKept /\ threads[o].pc = "idle" /\ o \in Threads
      /\ threads[o] \in ThreadRecord
  BY Disjoint DEF Choose, WorkflowInv, RecordsOk, ExecOk, TypeOK
<1>2. CASE /\ \/ execs' = [execs EXCEPT ![o] = "finished"] /\ UNCHANGED faults
              \/ execs' = [execs EXCEPT ![o] = "failed"] /\ Fault
           /\ UNCHANGED threads
  <2>1. TypeOK' /\ IncidentOk'
    <3>1. faults' \in 0..MaxFaults
      BY <1>1, <1>2 DEF TypeOK, Fault, WorkflowAssumption
    <3>. QED BY <1>1, <1>2, <3>1 DEF TypeOK, RecordsOk, IncidentOk
  <2>2. \A d \in Revisions : Decision(d)' = "approved" => Decision(d) = "approved"
    BY <1>1 DEF Decision
  <2>. QED BY <1>1, <1>2, <2>1, <2>2, EarlyInv
<1>3. CASE /\ incident.status = "AWAITING_APPROVAL" /\ UNCHANGED faults
           /\ execs' = [execs EXCEPT ![o] = "awaiting"]
           /\ threads' = [threads EXCEPT ![o] =
                              [@ EXCEPT !.pc = "registering", !.revision = incident.revision]]
  <2>1. incident.revision \in Revisions
    BY <1>1, <1>3, Disjoint DEF TypeOK, RecordsOk, IncidentOk
  <2>2. /\ threads' \in [Threads -> ThreadRecord]
        /\ threads'[o].pc = "registering" /\ threads'[o].revision = incident.revision
        /\ \A t \in Threads \ {o} : threads'[t] = threads[t]
    BY <1>1, <1>3 DEF TypeOK, ThreadRecord
  <2>3. execs'[o] = "awaiting" /\ \A p \in Operations \ {o} : execs'[p] = execs[p]
    BY <1>1, <1>3 DEF TypeOK
  <2>4. TypeOK'
    BY <1>1, <1>3, <2>2 DEF TypeOK
  <2>5. Lasts
    BY <1>1, <2>2, <2>3, Disjoint DEF Lasts, Waited
  <2>6. \A t \in Threads : ThreadOk(t)'
    BY <1>1, <2>1, <2>2, <2>5, ThreadStays DEF RecordsOk, ThreadOk
  <2>7. \A p \in Operations : ExecOk(p)'
    BY <1>1, <2>2, <2>3, Disjoint DEF RecordsOk, ExecOk
  <2>8. RecordsOk'
    BY <1>1, <2>5, <2>6, <2>7, CallbackStays DEF RecordsOk, IncidentOk
  <2>9. \A p \in Operations : Awaits(p)' => Awaits(p)
    BY <2>2, <2>3, Disjoint DEF Awaits
  <2>10. TokensAreKept'
    BY <1>1, <2>9, TokensStay
  <2>11. NoLostWakeup'
    <3>1. SUFFICES ASSUME NEW p \in Operations, NEW d \in Revisions, Owed(p, d)'
                   PROVE  \E t \in Calls \cup {p} : Wakes(t, p, d)'
      BY NoLostWakeupNext
    <3>2. Owed(p, d)
      BY <3>1, <1>1, <2>9 DEF Owed, Decision
    <3>3. PICK t \in Calls \cup {p} : Wakes(t, p, d) /\ t \in Threads
      BY <3>2, NoLostWakeupIs, Disjoint DEF WorkflowInv
    <3>4. t # o
      BY <3>3, <1>1 DEF Wakes
    <3>. QED BY <3>3, <3>4, <2>2 DEF Wakes
  <2>. QED BY <2>4, <2>8, <2>10, <2>11 DEF WorkflowInv
<1>. QED BY <1>2, <1>3 DEF Choose

(* A wait that is over, by the clock or by a call, ends what is owed to it.  *)
LEMMA OverInv ==
    ASSUME WorkflowAssumption, WorkflowInv, NEW o \in Operations, execs[o] = "awaiting",
           threads[o].pc = "over", execs' = [execs EXCEPT ![o] = "finished"],
           UNCHANGED <<incident, jobs, callbacks, threads, unwoken, faults>>
    PROVE  WorkflowInv'
<1>1. TypeOK /\ RecordsOk /\ TokensAreKept
  BY DEF WorkflowInv
<1>2. execs'[o] = "finished" /\ \A p \in Operations \ {o} : execs'[p] = execs[p]
  BY <1>1 DEF TypeOK
<1>3. TypeOK'
  BY <1>1 DEF TypeOK
<1>4. Lasts
  BY <1>2 DEF Lasts, Waited
<1>5. \A p \in Operations : ExecOk(p)'
  BY <1>1, <1>2 DEF RecordsOk, ExecOk
<1>6. RecordsOk'
  BY <1>1, <1>4, <1>5, ThreadStays, CallbackStays DEF RecordsOk, IncidentOk
<1>7. \A p \in Operations : Awaits(p)' => Awaits(p)
  BY <1>2 DEF Awaits
<1>8. TokensAreKept'
  BY <1>1, <1>7, TokensStay
<1>9. NoLostWakeup'
  <2>1. SUFFICES ASSUME NEW p \in Operations, NEW d \in Revisions, Owed(p, d)'
                 PROVE  \E t \in Calls \cup {p} : Wakes(t, p, d)'
    BY NoLostWakeupNext
  <2>2. Owed(p, d)
    BY <2>1, <1>7 DEF Owed, Decision
  <2>. QED BY <2>2, NoLostWakeupIs DEF WorkflowInv, Wakes
<1>. QED BY <1>3, <1>6, <1>8, <1>9 DEF WorkflowInv

(* The hour is over.                                                         *)
LEMMA TimeOutInv ==
    ASSUME WorkflowAssumption, WorkflowInv, NEW o \in Operations, TimeOut(o)
    PROVE  WorkflowInv'
  BY OverInv DEF TimeOut

-------------------------------------------------------------------------------
(* The approval callback                                                     *)

(* A thread that raises on its way: an execution whose own Lambda raised does *)
(* not wait any more, and a request that had not woken anyone is noted.      *)
LEMMA CutOffInv ==
    ASSUME WorkflowAssumption, WorkflowInv, NEW t \in Threads, CutOff(t),
           threads[t].pc \in {"registering", "waking", "sending", "marking"},
           NotWoken(t) \/ (threads[t].pc \in {"registering", "marking"} /\ UNCHANGED unwoken),
           UNCHANGED <<incident, jobs, callbacks>>
    PROVE  WorkflowInv'
<1>1. /\ TypeOK /\ RecordsOk /\ TokensAreKept /\ GoOver(t) /\ Fault
      /\ threads[t].revision \in Revisions
      /\ execs' = IF t \in Operations /\ execs[t] = "awaiting"
                  THEN [execs EXCEPT ![t] = "finished"] ELSE execs
  BY DEF CutOff, WorkflowInv, RecordsOk, ThreadOk
<1>2. /\ threads' \in [Threads -> ThreadRecord]
      /\ threads'[t].pc = "over"
      /\ \A u \in Threads \ {t} : threads'[u] = threads[u]
  BY <1>1, GoOverType
<1>3. /\ execs' \in [Operations -> {"absent", "run", "working", "choosing", "delay", "awaiting",
                                   "finished", "failed"}]
      /\ \A p \in Operations \ {t} : execs'[p] = execs[p]
      /\ t \in Operations => execs'[t] = IF execs[t] = "awaiting" THEN "finished" ELSE execs[t]
  BY <1>1 DEF TypeOK
<1>4. /\ faults' \in 0..MaxFaults
      /\ unwoken' \subseteq Revisions /\ unwoken \subseteq unwoken'
  BY <1>1 DEF NotWoken, TypeOK, Fault, WorkflowAssumption
<1>5. TypeOK'
  BY <1>1, <1>2, <1>3, <1>4 DEF TypeOK
<1>6. Lasts
  BY <1>1, <1>2, <1>3, Disjoint DEF Lasts, Waited
<1>7. \A u \in Threads : ThreadOk(u)'
  <2>1. ThreadOk(t)'
    BY <1>2 DEF ThreadOk
  <2>. QED BY <1>1, <1>2, <1>6, <2>1, ThreadStays DEF RecordsOk
<1>8. \A p \in Operations : ExecOk(p)'
  <2>1. SUFFICES ASSUME NEW p \in Operations PROVE ExecOk(p)'
    OBVIOUS
  <2>2. ExecOk(p) /\ p \in Threads
    BY <1>1, Disjoint DEF RecordsOk
  <2>3. CASE p = t
    BY <2>2, <2>3, <1>2, <1>3 DEF ExecOk
  <2>4. CASE p # t
    <3>1. threads'[p] = threads[p] /\ execs'[p] = execs[p]
      BY <2>2, <2>4, <1>2, <1>3
    <3>. QED BY <2>2, <3>1 DEF ExecOk
  <2>. QED BY <2>3, <2>4
<1>9. RecordsOk'
  BY <1>1, <1>6, <1>7, <1>8, CallbackStays DEF RecordsOk, IncidentOk
<1>10. \A p \in Operations : Awaits(p)' => Awaits(p) /\ p # t
  BY <1>2, <1>3, Disjoint DEF Awaits
<1>11. TokensAreKept'
  BY <1>1, <1>10, TokensStay
<1>12. NoLostWakeup'
  <2>1. SUFFICES ASSUME NEW p \in Operations, NEW e \in Revisions, Owed(p, e)'
                 PROVE  \E u \in Calls \cup {p} : Wakes(u, p, e)'
    BY NoLostWakeupNext
  <2>2. Owed(p, e) /\ p # t
    BY <2>1, <1>4, <1>10 DEF Owed, Decision
  <2>3. PICK u \in Calls \cup {p} : Wakes(u, p, e) /\ u \in Threads
    BY <2>2, NoLostWakeupIs, Disjoint DEF WorkflowInv
  <2>4. u # t
    <3>1. SUFFICES ASSUME u = t PROVE FALSE
      OBVIOUS
    <3>2. t \in Calls /\ threads[t].revision = e /\ threads[t].pc \in {"dispatching", "waking", "sending"}
      BY <2>2, <2>3, <3>1 DEF Wakes
    <3>3. e \in unwoken'
      BY <3>2 DEF NotWoken
    <3>. QED BY <2>1, <3>3 DEF Owed
  <2>. QED BY <2>3, <2>4, <1>2 DEF Wakes
<1>. QED BY <1>5, <1>9, <1>11, <1>12 DEF WorkflowInv

(* Registration: the token is on record and its Lambda about to wake; what   *)
(* was on record before was used, or another's wait for the same revision is *)
(* there already and this one is over.                                       *)
LEMMA RegisterInv ==
    ASSUME WorkflowAssumption, WorkflowInv, NEW o \in Operations, Register(o)
    PROVE  WorkflowInv'
<1>. DEFINE r == threads[o].revision
<1>1. PICK d : d = r
  OBVIOUS
<1>2. /\ threads[o].pc = "registering" /\ UNCHANGED <<incident, jobs, unwoken>>
      /\ TypeOK /\ RecordsOk /\ TokensAreKept /\ o \in Threads /\ d \in Revisions
      /\ execs[o] = "awaiting" /\ threads[o] \in ThreadRecord
  BY <1>1, Disjoint DEF Register, WorkflowInv, RecordsOk, ExecOk, ThreadOk, TypeOK
<1>3. \A e \in Revisions : callbacks[e].token # o
  BY <1>2, Disjoint DEF RecordsOk, CallbackOk, Waited
<1>4. CASE /\ execs' = [execs EXCEPT ![o] = "finished"] /\ GoOver(o)
           /\ UNCHANGED <<callbacks, faults>>
  <2>1. /\ execs' = [execs EXCEPT ![o] = "finished"] /\ GoOver(o)
        /\ UNCHANGED <<callbacks, faults>>
    BY <1>4
  <2>2. /\ threads' \in [Threads -> ThreadRecord]
        /\ threads'[o].pc = "over"
        /\ \A t \in Threads \ {o} : threads'[t] = threads[t]
    BY <1>2, <2>1, GoOverType
  <2>3. execs'[o] = "finished" /\ \A p \in Operations \ {o} : execs'[p] = execs[p]
    BY <1>2, <2>1 DEF TypeOK
  <2>4. TypeOK'
    BY <1>2, <2>1, <2>2 DEF TypeOK
  <2>5. Lasts
    BY <1>2, <2>2, <2>3, Disjoint DEF Lasts, Waited
  <2>6. \A t \in Threads : ThreadOk(t)'
    BY <1>2, <2>2, <2>5, ThreadStays DEF RecordsOk, ThreadOk
  <2>7. \A p \in Operations : ExecOk(p)'
    BY <1>2, <2>2, <2>3, Disjoint DEF RecordsOk, ExecOk
  <2>8. RecordsOk'
    BY <1>2, <2>1, <2>5, <2>6, <2>7, CallbackStays DEF RecordsOk, IncidentOk
  <2>9. \A p \in Operations : Awaits(p)' => Awaits(p)
    BY <2>2, <2>3, Disjoint DEF Awaits
  <2>10. TokensAreKept'
    BY <1>2, <2>1, <2>9, TokensStay
  <2>11. NoLostWakeup'
    <3>1. SUFFICES ASSUME NEW p \in Operations, NEW e \in Revisions, Owed(p, e)'
                   PROVE  \E t \in Calls \cup {p} : Wakes(t, p, e)'
      BY NoLostWakeupNext
    <3>2. Owed(p, e)
      BY <3>1, <1>2, <2>1, <2>9 DEF Owed, Decision
    <3>3. PICK t \in Calls \cup {p} : Wakes(t, p, e) /\ t \in Threads
      BY <3>2, NoLostWakeupIs, Disjoint DEF WorkflowInv
    <3>4. t # o
      BY <3>3, <1>2 DEF Wakes
    <3>. QED BY <3>3, <3>4, <2>2 DEF Wakes
  <2>. QED BY <2>4, <2>8, <2>10, <2>11 DEF WorkflowInv
<1>5. CASE /\ MayRegister(o, d)
           /\ callbacks' = [callbacks EXCEPT ![d] = [token |-> o, consumed |-> FALSE]]
           /\ Registered(o) /\ UNCHANGED <<execs, faults>>
  <2>1. /\ callbacks' = [callbacks EXCEPT ![d] = [token |-> o, consumed |-> FALSE]]
        /\ Goto(o, "waking") /\ UNCHANGED <<execs, faults>>
    BY <1>5 DEF Registered
  <2>2. /\ threads' \in [Threads -> ThreadRecord]
        /\ threads'[o].pc = "waking" /\ threads'[o].revision = d
        /\ \A t \in Threads \ {o} : threads'[t] = threads[t]
    BY <1>1, <1>2, <2>1, GotoType
  <2>3. /\ callbacks'[d].token = o /\ ~callbacks'[d].consumed
        /\ \A e \in Revisions \ {d} : callbacks'[e] = callbacks[e]
        /\ callbacks' \in [Revisions -> [token : Operations \cup {None}, consumed : BOOLEAN]]
    BY <1>2, <2>1 DEF TypeOK
  <2>4. TypeOK'
    BY <1>2, <2>1, <2>2, <2>3 DEF TypeOK
  <2>5. Lasts
    BY <1>2, <2>1, <2>2, Disjoint DEF Lasts, Waited
  <2>6. \A t \in Threads : ThreadOk(t)'
    BY <1>2, <2>2, <2>5, ThreadStays DEF RecordsOk, ThreadOk
  <2>7. \A p \in Operations : ExecOk(p)'
    BY <1>2, <2>1, <2>2, Disjoint DEF RecordsOk, ExecOk
  <2>8. CallbackOk(d)'
    BY <1>2, <2>1, <2>2, <2>3 DEF CallbackOk, Waited
  <2>9. RecordsOk'
    BY <1>2, <2>3, <2>5, <2>6, <2>7, <2>8, CallbackStays DEF RecordsOk, IncidentOk
  <2>10. \A p \in Operations \ {o} : Awaits(p)' => Awaits(p)
    BY <2>1, <2>2, Disjoint DEF Awaits
  <2>11. TokensAreKept'
    <3>1. SUFFICES ASSUME NEW p \in Operations, Awaits(p)'
                   PROVE  \E e \in Revisions : callbacks'[e].token = p /\ ~callbacks'[e].consumed
      BY DEF TokensAreKept
    <3>2. CASE p = o
      BY <3>2, <1>2, <2>3
    <3>3. CASE p # o
      <4>1. PICK e \in Revisions : callbacks[e].token = p /\ ~callbacks[e].consumed
        BY <3>1, <3>3, <2>10, <1>2 DEF TokensAreKept
      <4>2. e # d
        BY <4>1, <3>3, <1>5, Disjoint DEF MayRegister
      <4>. QED BY <4>1, <4>2, <2>3
    <3>. QED BY <3>2, <3>3
  <2>12. NoLostWakeup'
    <3>1. SUFFICES ASSUME NEW p \in Operations, NEW e \in Revisions, Owed(p, e)'
                   PROVE  \E t \in Calls \cup {p} : Wakes(t, p, e)'
      BY NoLostWakeupNext
    <3>2. CASE e = d
      <4>1. p = o
        BY <3>1, <3>2, <2>3 DEF Owed
      <4>. QED BY <3>2, <4>1, <1>2, <2>2 DEF Wakes
    <3>3. CASE e # d
      <4>1. callbacks[e].token = p /\ p # o
        BY <3>1, <3>3, <2>3, <1>3 DEF Owed
      <4>2. Owed(p, e)
        BY <3>1, <4>1, <1>2, <2>10 DEF Owed, Decision
      <4>3. PICK t \in Calls \cup {p} : Wakes(t, p, e) /\ t \in Threads
        BY <4>2, NoLostWakeupIs, Disjoint DEF WorkflowInv
      <4>4. t # o
        BY <4>3, <1>2 DEF Wakes
      <4>. QED BY <4>3, <4>4, <2>2 DEF Wakes
    <3>. QED BY <3>2, <3>3
  <2>. QED BY <2>4, <2>9, <2>11, <2>12 DEF WorkflowInv
<1>6. CASE CutOff(o) /\ UNCHANGED callbacks
  BY <1>2, <1>6, CutOffInv
<1>. QED BY <1>1, <1>4, <1>5, <1>6 DEF Register

(* A wake-up with something to send takes the token on record: the workflow  *)
(* it is owed to is still about to be woken.                                 *)
LEMMA ReadCallbackInv ==
    ASSUME WorkflowAssumption, WorkflowInv, NEW t \in Threads, ReadCallback(t)
    PROVE  WorkflowInv'
<1>. DEFINE r == threads[t].revision
<1>1. CASE CutOff(t) /\ NotWoken(t)
  BY <1>1, CutOffInv DEF ReadCallback
<1>. SUFFICES ASSUME ~(CutOff(t) /\ NotWoken(t)) PROVE WorkflowInv'
  BY <1>1
<1>2. PICK d : d = r
  OBVIOUS
<1>3. /\ threads[t].pc = "waking"
      /\ UNCHANGED <<incident, jobs, execs, callbacks, unwoken, faults>>
      /\ TypeOK /\ RecordsOk /\ TokensAreKept /\ d \in Revisions /\ threads[t] \in ThreadRecord
  BY <1>2 DEF ReadCallback, WorkflowInv, RecordsOk, ThreadOk, TypeOK
<1>4. \/ /\ callbacks[d].token = None \/ callbacks[d].consumed \/ Decision(d) = "pending"
         /\ GoOver(t)
      \/ /\ callbacks[d].token # None
         /\ threads' = [threads EXCEPT ![t] = [@ EXCEPT !.pc = "sending", !.token = callbacks[d].token]]
  BY <1>2 DEF ReadCallback
<1>5. callbacks[d].token \in Operations \cup {None}
  BY <1>3 DEF TypeOK
<1>6. /\ threads' \in [Threads -> ThreadRecord]
      /\ \/ /\ threads'[t].pc = "over"
            /\ callbacks[d].token = None \/ callbacks[d].consumed \/ Decision(d) = "pending"
         \/ /\ threads'[t].pc = "sending" /\ threads'[t].revision = d
            /\ threads'[t].token = callbacks[d].token /\ callbacks[d].token # None
      /\ \A u \in Threads \ {t} : threads'[u] = threads[u]
  <2>1. CASE /\ callbacks[d].token = None \/ callbacks[d].consumed \/ Decision(d) = "pending"
             /\ GoOver(t)
    BY <2>1, <1>3, GoOverType
  <2>2. CASE /\ callbacks[d].token # None
             /\ threads' = [threads EXCEPT ![t] =
                               [@ EXCEPT !.pc = "sending", !.token = callbacks[d].token]]
    <3>. DEFINE sends == [threads[t] EXCEPT !.pc = "sending", !.token = callbacks[d].token]
    <3>1. sends \in ThreadRecord /\ sends.pc = "sending" /\ sends.revision = threads[t].revision
          /\ sends.token = callbacks[d].token
      BY <1>3, <1>5 DEF ThreadRecord
    <3>2. threads \in [Threads -> ThreadRecord]
      BY <1>3 DEF TypeOK
    <3>3. threads' = [threads EXCEPT ![t] = sends]
      BY <2>2
    <3>. HIDE DEF sends, ThreadRecord
    <3>4. threads'[t] = sends /\ threads' \in [Threads -> ThreadRecord]
          /\ \A u \in Threads \ {t} : threads'[u] = threads[u]
      BY <3>1, <3>2, <3>3
    <3>. QED BY <3>1, <3>4, <2>2, <1>2
  <2>. QED BY <1>4, <2>1, <2>2
<1>7. TypeOK'
  BY <1>3, <1>6 DEF TypeOK
<1>8. \A p \in Operations : threads'[p].pc # "registering" <=> threads[p].pc # "registering"
  BY <1>3, <1>6, Disjoint
<1>9. Lasts
  BY <1>3, <1>8 DEF Lasts, Waited
<1>10. ThreadOk(t)'
  <2>1. CASE threads'[t].pc = "over"
    BY <2>1 DEF ThreadOk
  <2>2. CASE /\ threads'[t].pc = "sending" /\ threads'[t].revision = d
             /\ threads'[t].token = callbacks[d].token /\ callbacks[d].token # None
    <3>1. callbacks[d].token \in Operations /\ Waited(callbacks[d].token)
      BY <2>2, <1>3 DEF RecordsOk, CallbackOk
    <3>2. threads'[t].token \in Operations /\ Waited(threads'[t].token)
      BY <2>2, <3>1
    <3>3. Waited(threads[t].token)'
      BY <3>2, <1>3, <1>8 DEF Waited
    <3>. QED BY <2>2, <3>2, <3>3, <1>3 DEF ThreadOk
  <2>. QED BY <1>6, <2>1, <2>2
<1>11. \A u \in Threads : ThreadOk(u)'
  BY <1>3, <1>6, <1>9, <1>10, ThreadStays DEF RecordsOk
<1>12. \A p \in Operations : ExecOk(p)'
  BY <1>3, <1>6, Disjoint DEF RecordsOk, ExecOk
<1>13. RecordsOk'
  BY <1>3, <1>9, <1>11, <1>12, CallbackStays DEF RecordsOk, IncidentOk
<1>14. \A p \in Operations : Awaits(p)' => Awaits(p)
  BY <1>3, <1>8 DEF Awaits
<1>15. TokensAreKept'
  BY <1>3, <1>14, TokensStay
<1>16. NoLostWakeup'
  <2>1. SUFFICES ASSUME NEW p \in Operations, NEW e \in Revisions, Owed(p, e)'
                 PROVE  \E u \in Calls \cup {p} : Wakes(u, p, e)'
    BY NoLostWakeupNext
  <2>2. Owed(p, e)
    BY <2>1, <1>3, <1>14 DEF Owed, Decision
  <2>3. PICK u \in Calls \cup {p} : Wakes(u, p, e) /\ u \in Threads
    BY <2>2, NoLostWakeupIs, Disjoint DEF WorkflowInv
  <2>4. CASE u # t
    BY <2>3, <2>4, <1>6 DEF Wakes
  <2>5. CASE u = t
    <3>1. e = d
      BY <2>3, <2>5, <1>2 DEF Wakes
    <3>2. /\ callbacks[d].token = p /\ execs[p] = "awaiting" /\ Decision(d) = "approved"
      BY <2>2, <3>1 DEF Owed, Awaits
    <3>3. ~callbacks[d].consumed /\ callbacks[d].token # None
      BY <3>2, <1>3, Disjoint DEF RecordsOk, CallbackOk
    <3>4. threads'[t].pc = "sending" /\ threads'[t].revision = d /\ threads'[t].token = p
      BY <3>2, <3>3, <1>6
    <3>. QED BY <2>3, <2>5, <3>1, <3>4 DEF Wakes
  <2>. QED BY <2>4, <2>5
<1>. QED BY <1>7, <1>13, <1>15, <1>16 DEF WorkflowInv

(* Sending the token ends the wait of the workflow it was handed to, and     *)
(* nothing more is owed to it; a failed call is a fault, and its revision is *)
(* noted.                                                                    *)
LEMMA SendInv ==
    ASSUME WorkflowAssumption, WorkflowInv, NEW t \in Threads, Send(t)
    PROVE  WorkflowInv'
<1>. DEFINE r == threads[t].revision
            k == threads[t].token
<1>1. PICK d : d = r
  OBVIOUS
<1>2. PICK token : token = k
  OBVIOUS
<1>3. /\ threads[t].pc = "sending" /\ UNCHANGED <<incident, jobs, callbacks>>
      /\ TypeOK /\ RecordsOk /\ TokensAreKept /\ d \in Revisions
      /\ token \in Operations /\ Waited(token)
  BY <1>1, <1>2 DEF Send, WorkflowInv, RecordsOk, ThreadOk
<1>4. CASE /\ execs' = [execs EXCEPT ![token] = IF @ = "awaiting" THEN "finished" ELSE @]
           /\ Goto(t, "marking") /\ UNCHANGED <<unwoken, faults>>
  <2>1. /\ threads' \in [Threads -> ThreadRecord]
        /\ threads'[t].pc = "marking" /\ threads'[t].revision = d /\ threads'[t].token = token
        /\ \A u \in Threads \ {t} : threads'[u] = threads[u]
    BY <1>1, <1>2, <1>3, <1>4, GotoType
  <2>2. execs'[token] = "finished" /\ \A p \in Operations \ {token} : execs'[p] = execs[p]
    BY <1>3, <1>4 DEF TypeOK, Waited
  <2>3. execs' \in [Operations -> {"absent", "run", "working", "choosing", "delay", "awaiting",
                                  "finished", "failed"}]
    BY <1>3, <1>4 DEF TypeOK
  <2>4. TypeOK'
    BY <1>3, <1>4, <2>1, <2>3 DEF TypeOK
  <2>5. \A p \in Operations : threads'[p].pc # "registering" <=> threads[p].pc # "registering"
    BY <1>3, <2>1, Disjoint
  <2>6. Lasts
    BY <2>2, <2>5 DEF Lasts, Waited
  <2>7. ThreadOk(t)'
    <3>1. Waited(token)' /\ Waited(threads[t].token)'
      BY <1>3, <2>1, <2>2, <2>5 DEF Waited
    <3>. QED BY <1>3, <2>1, <2>2, <3>1 DEF ThreadOk
  <2>8. \A u \in Threads : ThreadOk(u)'
    BY <1>3, <2>1, <2>6, <2>7, ThreadStays DEF RecordsOk
  <2>9. \A p \in Operations : ExecOk(p)'
    BY <1>3, <2>1, <2>2, Disjoint DEF RecordsOk, ExecOk, Waited
  <2>10. RecordsOk'
    BY <1>3, <2>6, <2>8, <2>9, CallbackStays DEF RecordsOk, IncidentOk
  <2>11. \A p \in Operations : Awaits(p)' => Awaits(p) /\ p # token
    BY <2>2, <2>5 DEF Awaits
  <2>12. TokensAreKept'
    BY <1>3, <2>11, TokensStay
  <2>13. NoLostWakeup'
    <3>1. SUFFICES ASSUME NEW p \in Operations, NEW e \in Revisions, Owed(p, e)'
                   PROVE  \E u \in Calls \cup {p} : Wakes(u, p, e)'
      BY NoLostWakeupNext
    <3>2. Owed(p, e) /\ p # token
      BY <3>1, <1>3, <1>4, <2>11 DEF Owed, Decision
    <3>3. PICK u \in Calls \cup {p} : Wakes(u, p, e) /\ u \in Threads
      BY <3>2, NoLostWakeupIs, Disjoint DEF WorkflowInv
    <3>4. u # t
      BY <3>2, <3>3, <1>2, <1>3 DEF Wakes
    <3>. QED BY <3>3, <3>4, <2>1 DEF Wakes
  <2>. QED BY <2>4, <2>10, <2>12, <2>13 DEF WorkflowInv
<1>5. CASE CutOff(t) /\ NotWoken(t)
  BY <1>3, <1>5, CutOffInv
<1>. QED BY <1>1, <1>2, <1>4, <1>5 DEF Send

(* Only the token that was sent is erased from the record, and its workflow  *)
(* does not wait any more.                                                   *)
LEMMA MarkInv ==
    ASSUME WorkflowAssumption, WorkflowInv, NEW t \in Threads, Mark(t)
    PROVE  WorkflowInv'
<1>. DEFINE r == threads[t].revision
            k == threads[t].token
<1>1. CASE CutOff(t) /\ UNCHANGED callbacks
  BY <1>1, CutOffInv DEF Mark
<1>. SUFFICES ASSUME ~(CutOff(t) /\ UNCHANGED callbacks) PROVE WorkflowInv'
  BY <1>1
<1>2. PICK d : d = r
  OBVIOUS
<1>3. PICK token : token = k
  OBVIOUS
<1>4. /\ threads[t].pc = "marking" /\ UNCHANGED <<incident, jobs, execs, unwoken, faults>>
      /\ TypeOK /\ RecordsOk /\ TokensAreKept /\ d \in Revisions
      /\ token \in Operations /\ execs[token] = "finished" /\ GoOver(t)
      /\ callbacks' = Consumed(d, token)
  BY <1>2, <1>3 DEF Mark, WorkflowInv, RecordsOk, ThreadOk
<1>5. /\ threads' \in [Threads -> ThreadRecord]
      /\ threads'[t].pc = "over"
      /\ \A u \in Threads \ {t} : threads'[u] = threads[u]
  BY <1>4, GoOverType
<1>6. callbacks \in [Revisions -> [token : Operations \cup {None}, consumed : BOOLEAN]]
  BY <1>4 DEF TypeOK
<1>7. /\ callbacks' \in [Revisions -> [token : Operations \cup {None}, consumed : BOOLEAN]]
      /\ callbacks'[d].token = callbacks[d].token
      /\ callbacks[d].token # token => callbacks'[d] = callbacks[d]
      /\ \A e \in Revisions \ {d} : callbacks'[e] = callbacks[e]
  <2>. DEFINE marked == [callbacks[d] EXCEPT !.consumed = @ \/ callbacks[d].token = token]
              Callback == [token : Operations \cup {None}, consumed : BOOLEAN]
  <2>1. callbacks[d] \in Callback
    BY <1>4, <1>6
  <2>2. marked \in Callback /\ marked.token = callbacks[d].token
    BY <2>1
  <2>3. callbacks[d].token # token => marked = callbacks[d]
    BY <2>1
  <2>4. callbacks' = [callbacks EXCEPT ![d] = marked]
    BY <1>4, <1>6 DEF Consumed
  <2>. HIDE DEF marked
  <2>5. callbacks \in [Revisions -> Callback]
    BY <1>6
  <2>. HIDE DEF Callback
  <2>6. /\ callbacks' \in [Revisions -> Callback] /\ callbacks'[d] = marked
        /\ \A e \in Revisions \ {d} : callbacks'[e] = callbacks[e]
    BY <1>4, <2>2, <2>4, <2>5
  <2>. QED BY <2>2, <2>3, <2>6 DEF Callback
<1>8. TypeOK'
  BY <1>4, <1>5, <1>7 DEF TypeOK
<1>9. \A p \in Operations : threads'[p].pc # "registering" <=> threads[p].pc # "registering"
  BY <1>4, <1>5, Disjoint
<1>10. Lasts
  BY <1>4, <1>9 DEF Lasts, Waited
<1>11. \A u \in Threads : ThreadOk(u)'
  <2>1. ThreadOk(t)'
    BY <1>5 DEF ThreadOk
  <2>. QED BY <1>4, <1>5, <1>10, <2>1, ThreadStays DEF RecordsOk
<1>12. \A p \in Operations : ExecOk(p)'
  BY <1>4, <1>5, Disjoint DEF RecordsOk, ExecOk
<1>13. \A e \in Revisions : CallbackOk(e)'
  <2>1. CallbackOk(d)'
    <3>1. CallbackOk(d)
      BY <1>4 DEF RecordsOk
    <3>2. CASE callbacks[d].token = token
      <4>1. callbacks'[d].token = token /\ execs'[token] = "finished"
        BY <3>2, <1>4, <1>7
      <4>2. token # None /\ Waited(token)
        BY <3>1, <3>2, <1>4, Disjoint DEF CallbackOk
      <4>3. Waited(callbacks[d].token)'
        BY <4>1, <4>2, <1>4, <1>10 DEF Lasts, Waited
      <4>. QED BY <4>1, <4>3, <1>4 DEF CallbackOk
    <3>3. CASE callbacks[d].token # token
      BY <3>1, <3>3, <1>4, <1>7, <1>10, CallbackStays
    <3>. QED BY <3>2, <3>3
  <2>. QED BY <2>1, <1>4, <1>7, <1>10, CallbackStays DEF RecordsOk
<1>14. RecordsOk'
  BY <1>4, <1>11, <1>12, <1>13 DEF RecordsOk, IncidentOk
<1>15. \A p \in Operations : Awaits(p)' => Awaits(p)
  BY <1>4, <1>9 DEF Awaits
<1>16. TokensAreKept'
  <2>1. SUFFICES ASSUME NEW p \in Operations, Awaits(p)'
                 PROVE  \E e \in Revisions : callbacks'[e].token = p /\ ~callbacks'[e].consumed
    BY DEF TokensAreKept
  <2>2. PICK e \in Revisions : callbacks[e].token = p /\ ~callbacks[e].consumed
    BY <2>1, <1>15, <1>4 DEF TokensAreKept
  <2>3. p # token
    BY <2>1, <1>4 DEF Awaits
  <2>. QED BY <2>2, <2>3, <1>7
<1>17. NoLostWakeup'
  <2>1. SUFFICES ASSUME NEW p \in Operations, NEW e \in Revisions, Owed(p, e)'
                 PROVE  \E u \in Calls \cup {p} : Wakes(u, p, e)'
    BY NoLostWakeupNext
  <2>2. callbacks'[e].token = callbacks[e].token
    BY <1>7
  <2>3. Owed(p, e)
    BY <2>1, <2>2, <1>4, <1>15 DEF Owed, Decision
  <2>4. PICK u \in Calls \cup {p} : Wakes(u, p, e) /\ u \in Threads
    BY <2>3, NoLostWakeupIs, Disjoint DEF WorkflowInv
  <2>5. u # t
    BY <2>4, <1>4 DEF Wakes
  <2>. QED BY <2>4, <2>5, <1>5 DEF Wakes
<1>. QED BY <1>8, <1>14, <1>16, <1>17 DEF WorkflowInv

-------------------------------------------------------------------------------
(* The theorems                                                              *)

(* Every step keeps the invariant.                                           *)
LEMMA NextInv ==
    ASSUME WorkflowAssumption, WorkflowInv, [Next]_vars
    PROVE  WorkflowInv'
<1>1. CASE UNCHANGED vars
  BY <1>1 DEF vars, WorkflowInv, TypeOK, RecordsOk, IncidentOk, ThreadOk, ExecOk, CallbackOk,
              Waited, TokensAreKept, NoLostWakeup, Awaits, Decision
<1>2. CASE \E c \in Calls : Decide(c) \/ Approve(c) \/ Dispatch(c)
  BY <1>2, DecideInv, ApproveInv, DispatchInv
<1>3. CASE Revise \/ Cancel
  BY <1>3, ReviseInv, CancelInv
<1>4. CASE \E o \in Operations :
              Run(o) \/ Work(o) \/ Delay(o) \/ Choose(o) \/ Register(o) \/ TimeOut(o)
  BY <1>4, RunInv, WorkInv, DelayInv, ChooseInv, RegisterInv, TimeOutInv
<1>5. CASE \E t \in Threads : ReadCallback(t) \/ Send(t) \/ Mark(t)
  BY <1>5, ReadCallbackInv, SendInv, MarkInv
<1>. QED BY <1>1, <1>2, <1>3, <1>4, <1>5 DEF Next

(* The inductive invariant holds of every behaviour, whatever the bounds.    *)
THEOREM WorkflowInvariance == ASSUME WorkflowAssumption PROVE Spec => []WorkflowInv
<1>1. Init => WorkflowInv
  BY InitInv
<1>2. WorkflowInv /\ [Next]_vars => WorkflowInv'
  BY NextInv
<1>. QED BY <1>1, <1>2, PTL DEF Spec

(* The variables keep their types.                                           *)
THEOREM TypeCorrect == ASSUME WorkflowAssumption PROVE Spec => []TypeOK
<1>1. WorkflowInv => TypeOK
  BY DEF WorkflowInv
<1>. QED BY <1>1, WorkflowInvariance, PTL

(* wake_approval erases only the token it used: a workflow that waits has    *)
(* its token in the callback record of a revision.                           *)
THEOREM TokensStayOnRecord == ASSUME WorkflowAssumption PROVE Spec => []TokensAreKept
<1>1. WorkflowInv => TokensAreKept
  BY DEF WorkflowInv
<1>. QED BY <1>1, WorkflowInvariance, PTL

(* Registration reconciles with the approval and approval with registration: *)
(* a workflow that waits for an approved revision is about to be woken,      *)
(* unless a request's wake-up was cut off, by admission closed in the middle *)
(* of it or a failed call, since the resident last approved.                 *)
THEOREM WakeUpsArrive == ASSUME WorkflowAssumption PROVE Spec => []NoLostWakeup
<1>1. WorkflowInv => NoLostWakeup
  BY DEF WorkflowInv
<1>. QED BY <1>1, WorkflowInvariance, PTL
===============================================================================

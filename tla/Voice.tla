--------------------------------- MODULE Voice --------------------------------
(***************************************************************************)
(* The simulated call, on top of Outreach: the envelope the resident       *)
(* approves, the run, the worker that writes its captions, the temporary   *)
(* session that holds them, and the cleanup that must remove them.         *)
(* services/api/domain.py, services/agents/aws_workflow.py (AWS mode).     *)
(*                                                                         *)
(* Timing assumption: a cleanup starts ten minutes after it was scheduled  *)
(* (VOICE_SESSION_SECONDS), when the worker that scheduled it is over: a   *)
(* worker has five (infra/cdk/stack.ts).                                   *)
(***************************************************************************)
EXTENDS Outreach

VARIABLES
    worker,   \* where the generation of each run is
    sessions, \* runs whose captions are in the temporary table
    cleanup,  \* the scheduled purge of each run
    closing   \* runs whose session a committed command is about to delete

vars == <<outreach, worker, sessions, cleanup, closing>>

-------------------------------------------------------------------------------
(* Types *)

EnvelopeRecord ==
    [status : {"absent", "AWAITING_APPROVAL", "APPROVED", "GENERATING", "RUNNING", "FAILED",
               "COMPLETED", "ENDED", "INTERRUPTED", "STALE"},
     selection : 0..MaxResearches, run : 0..MaxRuns]

(* receipt is the run_status of the receipt whose id derives from the run.   *)
RunRecord ==
    [status : {"absent", "GENERATING", "RUNNING", "FAILED", "COMPLETED", "ENDED", "INTERRUPTED"},
     envelope : 0..MaxEnvelopes, played : BOOLEAN,
     receipt : {"none", "COMPLETED", "ENDED", "INTERRUPTED"}]

TypeOK ==
    /\ case \in Pointers
    /\ previews \in [1..MaxPreviews -> [status : {"absent", "PENDING", "AWAITING_CONFIRMATION",
                                                  "CONFIRMED", "STALE", "FAILED"}]]
    /\ geocodes \subseteq 1..MaxPreviews
    /\ researches \in [1..MaxResearches -> ResearchRecord]
    /\ search \in [1..MaxResearches -> {"none", "invoked", "searching", "storing", "committing", "over"}]
    /\ cached \subseteq 1..MaxResearches
    /\ selections \in [1..MaxResearches -> SelectionRecord]
    /\ drafts \in [1..MaxDrafts -> DraftRecord]
    /\ envelopes \in [1..MaxEnvelopes -> EnvelopeRecord]
    /\ runs \in [1..MaxRuns -> RunRecord]
    /\ worker \in [1..MaxRuns -> {"none", "invoked", "generating", "scheduling", "storing",
                                  "committing", "failing", "over"}]
    /\ sessions \subseteq 1..MaxRuns
    /\ cleanup \in [1..MaxRuns -> {"none", "scheduled", "purging", "over", "failed"}]
    /\ closing \subseteq 1..MaxRuns

Init ==
    /\ InitOutreach
    /\ worker = [v \in 1..MaxRuns |-> "none"]
    /\ sessions = {}
    /\ cleanup = [v \in 1..MaxRuns |-> "none"]
    /\ closing = {}

-------------------------------------------------------------------------------
(* create_voice_envelope, approve_voice_envelope, run_voice_simulation *)

CreateEnvelope(e) ==
    /\ e \in Fresh(envelopes)
    /\ NoActiveRun
    /\ SelectionIsCurrent /\ selections[case.selection].contact \in Phones
    /\ envelopes' = [Staled(envelopes, case.envelope) EXCEPT
                        ![e] = [status |-> "AWAITING_APPROVAL", selection |-> case.selection, run |-> 0]]
    /\ case' = [case EXCEPT !.envelope = e]
    /\ UNCHANGED <<research, selections, drafts, runs, worker, sessions, cleanup, closing>>

ApproveEnvelope ==
    /\ case.envelope # 0 /\ IsCurrent(envelopes[case.envelope])
    /\ envelopes[case.envelope].status = "AWAITING_APPROVAL"
    /\ envelopes' = [envelopes EXCEPT ![case.envelope].status = "APPROVED"]
    /\ UNCHANGED <<case, research, selections, drafts, runs, worker, sessions, cleanup, closing>>

(* An approved envelope runs once; a second request gets the run it has.     *)
HasRun(e) == envelopes[e].run # 0 /\ runs[envelopes[e].run].status # "FAILED"

StartRun(v) ==
    LET e == case.envelope
    IN  /\ v \in Fresh(runs)
        /\ e # 0 /\ IsCurrent(envelopes[e])
        /\ envelopes[e].status \notin {"absent", "AWAITING_APPROVAL", "INTERRUPTED", "STALE"}
        /\ ~HasRun(e)
        /\ envelopes' = [envelopes EXCEPT ![e].status = "GENERATING", ![e].run = v]
        /\ runs' = [runs EXCEPT ![v] = [status |-> "GENERATING", envelope |-> e, played |-> FALSE,
                                        receipt |-> "none"]]
        /\ case' = [case EXCEPT !.run = v]
        /\ worker' = [worker EXCEPT ![v] = "invoked"]  \* dispatch_outreach_worker
        /\ UNCHANGED <<research, selections, drafts, sessions, cleanup, closing>>

-------------------------------------------------------------------------------
(* scrub_voice_outcome *)

(* The run and its envelope take the outcome and lose what they held; the    *)
(* envelope is no longer the current one.                                    *)
Ended(v, status, receipt) ==
    LET e == runs[v].envelope
    IN  /\ runs' = [runs EXCEPT ![v] = [@ EXCEPT !.status = status, !.played = FALSE, !.receipt = receipt]]
        /\ envelopes' = [envelopes EXCEPT ![e] = [@ EXCEPT !.status = status, !.run = 0]]
        /\ case' = [case EXCEPT !.envelope = IF @ = e THEN 0 ELSE @]

-------------------------------------------------------------------------------
(* The worker *)

At(v, pc) == worker[v] = pc
Goto(v, pc) == worker' = [worker EXCEPT ![v] = pc]

(* claim_provider: one worker gets to generate.                              *)
ClaimRun(v) ==
    /\ At(v, "invoked") /\ Goto(v, "generating")
    /\ runs[v].status = "GENERATING"
    /\ LET e == runs[v].envelope
       IN  envelopes[e].status = "GENERATING" /\ case.envelope = e
    /\ UNCHANGED <<outreach, sessions, cleanup, closing>>

(* complete_voice_generation, its first transaction.                         *)
CheckRun(v) ==
    /\ At(v, "generating") /\ Goto(v, "scheduling")
    /\ runs[v].status = "GENERATING"
    /\ LET e == runs[v].envelope
       IN  envelopes[e].status = "GENERATING" /\ case.envelope = e /\ case.run = v
    /\ UNCHANGED <<outreach, sessions, cleanup, closing>>

(* Mutant of Scheduled: the cleanup is scheduled after the captions are      *)
(* stored, by a worker that may stop in between.                             *)
ScheduledLater(v) == cleanup

(* start_voice_cleanup, whose execution name makes it one per run.           *)
Scheduled(v) == [cleanup EXCEPT ![v] = IF @ = "none" THEN "scheduled" ELSE @]

ScheduleCleanup(v) ==
    /\ At(v, "scheduling") /\ Goto(v, "storing")
    /\ cleanup' = Scheduled(v)
    /\ UNCHANGED <<outreach, sessions, closing>>

StoreSession(v) ==
    /\ At(v, "storing") /\ Goto(v, "committing")
    /\ sessions' = sessions \cup {v}
    /\ UNCHANGED <<outreach, cleanup, closing>>

StillGenerating(v) == runs[v].status = "GENERATING"

(* The second transaction: the run starts, or, ended or past its deadline,   *)
(* its captions are deleted; or it conflicts and the worker starts again.    *)
CommitRun(v) ==
    /\ At(v, "committing")
    /\ \/ /\ StillGenerating(v)
          /\ runs' = [runs EXCEPT ![v].status = "RUNNING"]
          /\ envelopes' = [envelopes EXCEPT ![runs[v].envelope].status = "RUNNING"]
          /\ Goto(v, "over")
          /\ UNCHANGED <<case, sessions>>
       \/ /\ sessions' = sessions \ {v}
          /\ Goto(v, "failing")
          /\ UNCHANGED <<case, runs, envelopes>>
       \/ /\ Goto(v, "generating")
          /\ UNCHANGED <<case, runs, envelopes, sessions>>
    /\ UNCHANGED <<research, selections, drafts, cleanup, closing>>

(* fail_voice_generation, by the API whose dispatch failed, by the worker    *)
(* that holds the claim, or by one that met the deadline.  A worker that     *)
(* lost its claim to the scrub of an ended run leaves the session alone.     *)
FailRun(v) ==
    /\ worker[v] \in {"invoked", "generating", "scheduling", "storing", "failing"}
    /\ Goto(v, "over")
    /\ \/ /\ runs[v].status = "GENERATING"
          /\ Ended(v, "FAILED", "none")
          /\ closing' = closing \cup {v}
       \/ /\ runs[v].status # "GENERATING"
          /\ closing' = IF At(v, "invoked") THEN closing \cup {v} ELSE closing
          /\ UNCHANGED <<case, runs, envelopes>>
    /\ UNCHANGED <<research, selections, drafts, sessions, cleanup>>

(* The worker stops: an error, its time limit or a crash.                    *)
StopWorker(v) ==
    /\ worker[v] \notin {"none", "over"} /\ Goto(v, "over")
    /\ UNCHANGED <<outreach, sessions, cleanup, closing>>

-------------------------------------------------------------------------------
(* Playing and ending *)

(* voice_turn_audio: the last turn has been streamed to its end, and the     *)
(* run is still running.                                                     *)
PlayTurns(v) ==
    /\ runs[v].status = "RUNNING" /\ ~runs[v].played
    /\ runs' = [runs EXCEPT ![v].played = TRUE]
    /\ UNCHANGED <<case, research, selections, drafts, envelopes, worker, sessions, cleanup, closing>>

(* Mutant of HasReceipt: an ended run is ended again.                        *)
HasReceiptNever(v) == runs[v].status = "absent"

HasReceipt(v) == runs[v].receipt # "none"

(* end_voice_simulation, asked by the resident, or because the 90 seconds or *)
(* the research ran out, whatever the status of the run; expired wins over   *)
(* what was asked.                                                           *)
EndRun(v) ==
    /\ runs[v].status # "absent"
    /\ \/ HasReceipt(v) /\ Ended(v, runs[v].receipt, runs[v].receipt)
       \/ /\ ~HasReceipt(v)
          /\ \E status \in {"ENDED", "INTERRUPTED"}
                           \cup (IF runs[v].status = "RUNNING" /\ runs[v].played THEN {"COMPLETED"} ELSE {}) :
                Ended(v, status, status)
    /\ closing' = closing \cup {v}
    /\ UNCHANGED <<research, selections, drafts, worker, sessions, cleanup>>

(* delete_voice_session, after the commit; a command that finds the receipt  *)
(* deletes before its own commit, which may still be refused.                *)
CloseSession(v) ==
    /\ v \in closing \cup {u \in DOMAIN runs : HasReceipt(u)}
    /\ closing' = closing \ {v}
    /\ sessions' = sessions \ {v}
    /\ UNCHANGED <<outreach, worker, cleanup>>

(* The command's process stops before that.                                  *)
StopClosing(v) ==
    /\ v \in closing
    /\ closing' = closing \ {v}
    /\ UNCHANGED <<outreach, worker, sessions, cleanup>>

(* outreach_snapshot, whose read writes what has timed out: a search or a    *)
(* result, a generation, or both.  (A second delivery of the invocation that *)
(* meets the deadline of a generation does the same to it.)                  *)
Snapshot ==
    /\ \/ /\ case.research # 0 /\ researches[case.research].status = "PENDING"
          /\ researches' = Scrubbed(case.research, "FAILED")
          /\ UNCHANGED cached
       \/ /\ case.research # 0 /\ researches[case.research].status = "READY"
          /\ researches' = Scrubbed(case.research, "EXPIRED")
          /\ cached' = cached \ {case.research}
       \/ UNCHANGED <<researches, cached>>
    /\ \/ /\ case.run # 0 /\ runs[case.run].status = "GENERATING"
          /\ Ended(case.run, "FAILED", "none")
          /\ closing' = closing \cup {case.run}
       \/ UNCHANGED <<case, runs, envelopes, closing>>
    /\ UNCHANGED <<previews, geocodes, search, selections, drafts, worker, sessions, cleanup>>

-------------------------------------------------------------------------------
(* The cleanup *)

(* expire_voice_run, at the session's expiry.                                *)
ExpireRun(v) ==
    /\ cleanup[v] = "scheduled" /\ At(v, "over")
    /\ cleanup' = [cleanup EXCEPT ![v] = "purging"]
    /\ \/ ~HasReceipt(v) /\ IsActive(v) /\ Ended(v, "INTERRUPTED", "INTERRUPTED")
       \/ ~(~HasReceipt(v) /\ IsActive(v)) /\ UNCHANGED <<case, runs, envelopes>>
    /\ UNCHANGED <<research, selections, drafts, worker, sessions, closing>>

(* The purge that follows it in any case; it is retried, and after the last  *)
(* retry the table's own expiry is what remains.                             *)
Purge(v) ==
    /\ cleanup[v] = "purging"
    /\ \/ sessions' = sessions \ {v} /\ cleanup' = [cleanup EXCEPT ![v] = "over"]
       \/ cleanup' = [cleanup EXCEPT ![v] = "failed"] /\ UNCHANGED sessions
    /\ UNCHANGED <<outreach, worker, closing>>

Next ==
    \/ NextOutreach /\ UNCHANGED <<worker, sessions, cleanup, closing>>
    \/ \E e \in DOMAIN envelopes : CreateEnvelope(e)
    \/ ApproveEnvelope
    \/ \E v \in DOMAIN runs :
          \/ StartRun(v) \/ ClaimRun(v) \/ CheckRun(v) \/ ScheduleCleanup(v)
          \/ StoreSession(v) \/ CommitRun(v) \/ FailRun(v) \/ StopWorker(v)
          \/ PlayTurns(v) \/ EndRun(v) \/ CloseSession(v) \/ StopClosing(v)
          \/ ExpireRun(v) \/ Purge(v)
    \/ Snapshot

Spec == Init /\ [][Next]_vars

-------------------------------------------------------------------------------
(* Properties *)

(* Once a contact is selected, the list it was selected from, with the       *)
(* contacts that were not, is not in the temporary table, whichever worker   *)
(* stored it and whenever.                                                   *)
SelectionHidesCandidates ==
    case.selection # 0 => selections[case.selection].research \notin cached

(* The preview a resident can approve or run was made from the contact that  *)
(* is selected now, and from the research it was selected from.              *)
PreviewsAreCurrent ==
    \A record \in {drafts[d] : d \in {case.draft} \ {0}} \cup {envelopes[e] : e \in {case.envelope} \ {0}} :
        /\ record.status # "STALE"
        /\ record.selection = case.selection
        /\ selections[case.selection].status = "SELECTED"
        /\ selections[case.selection].research = case.research

(* At most one run is being generated or played; it is the case's, and what  *)
(* it plays is still the approved envelope: nothing replaced it meanwhile.   *)
ActiveRunIsCurrent ==
    \A v \in DOMAIN runs : IsActive(v) =>
        /\ v = case.run
        /\ runs[v].envelope = case.envelope
        /\ envelopes[case.envelope].run = v
        /\ envelopes[case.envelope].status = runs[v].status

(* Whoever ends a run first decides how it ended: the resident, the clock,   *)
(* the research's expiry or the cleanup.  Its receipt and its status say so  *)
(* from then on, whatever a late worker or a second end does.                *)
ReceiptsAreFinal ==
    [][\A v \in DOMAIN runs :
          runs[v].receipt # "none" => runs'[v].receipt = runs[v].receipt /\ runs'[v].status = runs[v].receipt]_vars

(* Captions in the temporary table are always going to be removed: their     *)
(* cleanup is scheduled, and when it is over none come back.                 *)
CaptionsHaveCleanup ==
    \A v \in sessions : cleanup[v] \in {"scheduled", "purging", "failed"}

(* An envelope is approved once; a run, or a change that makes it stale,     *)
(* uses the approval up.                                                     *)
Approval(e) ==
    CASE envelopes[e].status \in {"absent", "AWAITING_APPROVAL"} -> "none"
      [] envelopes[e].status = "APPROVED" -> "given"
      [] OTHER -> "over"

Approvals == [e \in DOMAIN envelopes |-> Approval(e)]

Call(v) ==
    CASE runs[v].status = "absent" -> "none"
      [] runs[v].status \in {"GENERATING", "RUNNING"} -> "active"
      [] OTHER -> runs[v].status

Calls == [v \in DOMAIN runs |-> Call(v)]

Heard == {v \in DOMAIN runs : runs[v].played}

Simulated == INSTANCE Simulation WITH
    Envelopes <- 1..MaxEnvelopes, Runs <- 1..MaxRuns,
    approval <- Approvals, call <- Calls, heard <- Heard

(* An approval is good for one call, one call goes on at a time, and whoever *)
(* ends it first decides how it ended: the resident, the clock, the          *)
(* research's expiry or the cleanup, whatever a late worker or a second end  *)
(* does.                                                                     *)
ImplementsSimulation == Simulated!Spec
===============================================================================

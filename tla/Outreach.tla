------------------------------- MODULE Outreach -------------------------------
(***************************************************************************)
(* Official-contact research and outreach previews of one case, from the   *)
(* area preview to a simulated email: services/api/domain.py, and the      *)
(* research worker in services/agents/aws_workflow.py.  Voice.tla adds the *)
(* simulated call.                                                         *)
(*                                                                         *)
(* Each action is one committed transaction (Store.tla) or one effect      *)
(* outside the database.  The contacts a search finds are kept outside the *)
(* database: a transaction that purges them and is then refused has purged *)
(* them.  A deadline may pass at any moment: an action that needs one to   *)
(* have passed has no guard for it, and one that needs it not to have      *)
(* passed may be refused, which changes nothing.  The case's own facts     *)
(* never change once it exists, so only time makes research stale.         *)
(***************************************************************************)
EXTENDS Naturals, FiniteSets

CONSTANTS
    Contacts,       \* what a search may find
    Emails, Phones, \* the contacts with an email address, with a phone number
    None,           \* no contact chosen
    \* Bounds: records ever created, of each kind and of all
    MaxPreviews, MaxResearches, MaxDrafts, MaxEnvelopes, MaxRuns, MaxRecords

ASSUME OutreachAssumption ==
    /\ Emails \subseteq Contacts /\ Phones \subseteq Contacts
    /\ None \notin Contacts
    /\ {MaxPreviews, MaxResearches, MaxDrafts, MaxEnvelopes, MaxRuns, MaxRecords} \subseteq Nat

VARIABLES
    case,       \* the incident's pointers to its current records, 0 for none
    previews,   \* jurisdiction candidates
    geocodes,   \* previews whose lookup is under way
    researches, \* contact_research records
    search,     \* where the worker of each research is
    cached,     \* researches whose candidates are in the temporary table
    selections, \* contact_selection records
    drafts,     \* email drafts
    envelopes,  \* voice envelopes
    runs        \* voice runs

outreach == <<case, previews, geocodes, researches, search, cached, selections,
              drafts, envelopes, runs>>
research == <<previews, geocodes, researches, search, cached>>

-------------------------------------------------------------------------------
(* Records *)

Pointers == [preview : 0..MaxPreviews, research : 0..MaxResearches, selection : 0..MaxResearches,
             draft : 0..MaxDrafts, envelope : 0..MaxEnvelopes, run : 0..MaxRuns]

ResearchRecord ==
    [status : {"absent", "PENDING", "READY", "FAILED", "STALE", "EXPIRED"},
     preview : 0..MaxPreviews, chosen : Contacts \cup {None}]

SelectionRecord ==
    [status : {"absent", "SELECTED", "STALE"}, research : 0..MaxResearches,
     contact : Contacts \cup {None}]

(* An approval has the status of the record it approves.                     *)
DraftRecord ==
    [status : {"absent", "AWAITING_APPROVAL", "APPROVED", "STALE", "SIMULATED_NOT_SENT"},
     selection : 0..MaxResearches]

Created(records) == {i \in DOMAIN records : records[i].status # "absent"}

(* The next record of a kind, as far as the bounds allow one.                *)
Fresh(records) ==
    {i \in DOMAIN records : /\ records[i].status = "absent"
                            /\ \A j \in DOMAIN records : j < i => records[j].status # "absent"
                            /\ Cardinality(Created(previews)) + Cardinality(Created(researches))
                               + Cardinality(Created(selections)) + Cardinality(Created(drafts))
                               + Cardinality(Created(envelopes)) + Cardinality(Created(runs)) < MaxRecords}

InitOutreach ==
    /\ case = [preview |-> 0, research |-> 0, selection |-> 0, draft |-> 0, envelope |-> 0, run |-> 0]
    /\ previews = [p \in 1..MaxPreviews |-> [status |-> "absent"]]
    /\ geocodes = {}
    /\ researches = [r \in 1..MaxResearches |-> [status |-> "absent", preview |-> 0, chosen |-> None]]
    /\ search = [r \in 1..MaxResearches |-> "none"]
    /\ cached = {}
    /\ selections = [s \in 1..MaxResearches |-> [status |-> "absent", research |-> 0, contact |-> None]]
    /\ drafts = [d \in 1..MaxDrafts |-> [status |-> "absent", selection |-> 0]]
    /\ envelopes = [e \in 1..MaxEnvelopes |-> [status |-> "absent", selection |-> 0, run |-> 0]]
    /\ runs = [v \in 1..MaxRuns |-> [status |-> "absent", envelope |-> 0, played |-> FALSE,
                                     receipt |-> "none"]]

-------------------------------------------------------------------------------
(* Invalidation *)

IsActive(v) == v # 0 /\ runs[v].status \in {"GENERATING", "RUNNING"}

(* Mutant of NoActiveRun: the guard looks at calls in progress only.         *)
NoRunningRun == case.run # 0 => runs[case.run].status # "RUNNING"

(* ensure_no_active_voice_run                                                *)
NoActiveRun == ~IsActive(case.run)

(* _mark_record_stale                                                        *)
Staled(records, i) ==
    IF i = 0 \/ records[i].status \in {"COMPLETED", "SIMULATED_NOT_SENT", "ENDED"}
    THEN records
    ELSE [records EXCEPT ![i].status = "STALE"]

(* invalidate_outreach, in the transactions that drop the selection too.     *)
Invalidate ==
    /\ NoActiveRun
    /\ drafts' = Staled(drafts, case.draft)
    /\ envelopes' = Staled(envelopes, case.envelope)
    /\ selections' = Staled(selections, case.selection)

(* Mutant of Dropped: the email draft stays current.                         *)
DroppedButDraft == [case EXCEPT !.selection = 0, !.envelope = 0]

Dropped == [case EXCEPT !.selection = 0, !.draft = 0, !.envelope = 0]

(* scrub_contact_research: researches and cached after it.                   *)
Scrubbed(r, status) ==
    IF r = 0 THEN researches ELSE [researches EXCEPT ![r].status = status]

-------------------------------------------------------------------------------
(* jurisdiction_preview *)

(* The transaction before the lookup.  An unexpired preview, or a pending    *)
(* one before its deadline, is answered without a change.                    *)
StartPreview(p) ==
    /\ p \in Fresh(previews)
    /\ NoActiveRun
    /\ LET current == case.preview
       IN  /\ previews' = [i \in DOMAIN previews |->
                              [status |-> CASE i = p -> "PENDING"
                                            [] i = current -> "STALE"
                                            [] OTHER -> previews[i].status]]
           /\ \/ /\ current # 0
                 /\ Invalidate
                 /\ case' = [Dropped EXCEPT !.preview = p]
                 /\ researches' = Scrubbed(case.research, "STALE")
                 /\ cached' = cached \ {case.research}
              \/ /\ current = 0
                 /\ case' = [case EXCEPT !.preview = p]
                 /\ UNCHANGED <<researches, cached, selections, drafts, envelopes>>
    /\ geocodes' = geocodes \cup {p}
    /\ UNCHANGED <<search, runs>>

(* The transaction after it: the answer is used only if the preview is still *)
(* the current one and still pending.                                        *)
FinishPreview(p) ==
    /\ p \in geocodes
    /\ geocodes' = geocodes \ {p}
    /\ \/ previews' = [previews EXCEPT ![p].status =
                          IF case.preview = p /\ @ = "PENDING" THEN "AWAITING_CONFIRMATION" ELSE "STALE"]
       \/ previews' = [previews EXCEPT ![p].status = IF @ = "PENDING" THEN "FAILED" ELSE @]
       \/ UNCHANGED previews  \* the process stops
    /\ UNCHANGED <<case, researches, search, cached, selections, drafts, envelopes, runs>>

-------------------------------------------------------------------------------
(* contact_research and its worker *)

(* A confirmed area starts a search; the research before it is scrubbed,     *)
(* timed out or not, and everything built on it is dropped.  An unexpired    *)
(* result is answered as it is unless the resident asks for a fresh one.     *)
ContactResearch(r) ==
    /\ r \in Fresh(researches)
    /\ NoActiveRun
    /\ case.preview # 0
    /\ previews[case.preview].status \in {"AWAITING_CONFIRMATION", "CONFIRMED"}
    /\ Invalidate
    /\ researches' = [Scrubbed(case.research, "STALE") EXCEPT
                         ![r] = [status |-> "PENDING", preview |-> case.preview, chosen |-> None]]
    /\ cached' = cached \ {case.research}
    /\ previews' = [previews EXCEPT ![case.preview].status = "CONFIRMED"]
    /\ case' = [Dropped EXCEPT !.research = r]
    /\ search' = [search EXCEPT ![r] = "invoked"]  \* dispatch_outreach_worker
    /\ UNCHANGED <<geocodes, runs>>

(* claim_provider: one worker gets to search, for the current research.      *)
ClaimSearch(r) ==
    /\ search[r] = "invoked"
    /\ researches[r].status = "PENDING" /\ case.research = r
    /\ search' = [search EXCEPT ![r] = "searching"]
    /\ UNCHANGED <<case, previews, geocodes, researches, cached, selections, drafts, envelopes, runs>>

IsWanted(r) == researches[r].status = "PENDING" /\ case.research = r

(* complete_contact_research up to its first write: the checks.              *)
CheckResult(r) ==
    /\ search[r] = "searching" /\ IsWanted(r)
    /\ search' = [search EXCEPT ![r] = "storing"]
    /\ UNCHANGED <<case, previews, geocodes, researches, cached, selections, drafts, envelopes, runs>>

(* put_contact_candidates, inside the transaction but outside the database.  *)
StoreCandidates(r) ==
    /\ search[r] = "storing"
    /\ search' = [search EXCEPT ![r] = "committing"]
    /\ cached' = cached \cup {r}
    /\ UNCHANGED <<case, previews, geocodes, researches, selections, drafts, envelopes, runs>>

(* The commit: of the state that was checked, or else the worker retries.    *)
CommitResult(r) ==
    /\ search[r] = "committing"
    /\ \/ /\ IsWanted(r)
          /\ researches' = [researches EXCEPT ![r].status = "READY"]
          /\ search' = [search EXCEPT ![r] = "over"]
       \/ /\ search' = [search EXCEPT ![r] = "searching"]
          /\ UNCHANGED researches
    /\ UNCHANGED <<case, previews, geocodes, cached, selections, drafts, envelopes, runs>>

(* fail_contact_research: the dispatch failed, the search or its completion  *)
(* did, or a worker (a second one, too) met the deadline.                    *)
FailResearch(r) ==
    /\ search[r] \in {"invoked", "searching"}
    /\ search' = [search EXCEPT ![r] = "over"]
    /\ \/ /\ researches[r].status = "PENDING"
          /\ researches' = Scrubbed(r, "FAILED")
          /\ cached' = cached \ {r}
       \/ researches[r].status # "PENDING" /\ UNCHANGED <<researches, cached>>
    /\ UNCHANGED <<case, previews, geocodes, selections, drafts, envelopes, runs>>

(* A second delivery of the invocation finds the deadline passed while the   *)
(* first worker is still busy, or after it stopped.                          *)
FailOverdue(r) ==
    /\ search[r] \in {"searching", "storing", "committing", "over"} /\ IsWanted(r)
    /\ researches' = Scrubbed(r, "FAILED")
    /\ cached' = cached \ {r}
    /\ UNCHANGED <<case, previews, geocodes, search, selections, drafts, envelopes, runs>>

(* The process stops before the dispatch, or the worker does.                *)
StopSearch(r) ==
    /\ search[r] \notin {"none", "over"}
    /\ search' = [search EXCEPT ![r] = IF @ = "invoked" THEN "none" ELSE "over"]
    /\ UNCHANGED <<case, previews, geocodes, researches, cached, selections, drafts, envelopes, runs>>

(* A transaction purges the candidates and is then refused, or they expire.  *)
LoseCandidates(r) ==
    /\ r \in cached
    /\ cached' = cached \ {r}
    /\ UNCHANGED <<case, previews, geocodes, researches, search, selections, drafts, envelopes, runs>>

(* reconcile_outreach_context, on a result that has expired.                 *)
Reconcile ==
    /\ case.research # 0 /\ researches[case.research].status = "READY"
    /\ Invalidate
    /\ case' = Dropped
    /\ previews' = Staled(previews, case.preview)
    /\ researches' = Scrubbed(case.research, "EXPIRED")
    /\ cached' = cached \ {case.research}
    /\ UNCHANGED <<geocodes, search, runs>>

-------------------------------------------------------------------------------
(* select_contact *)

(* What may be chosen: the contacts found, or, once they are purged, the one *)
(* chosen before.                                                            *)
Candidates(r) ==
    CASE r \in cached -> Contacts
      [] r \notin cached /\ case.selection # 0 ->
            {selections[case.selection].contact} \cap {researches[r].chosen}
      [] OTHER -> {}

(* Mutant of Purged: the candidates stay until they expire.                  *)
PurgedLater(r) == cached

Purged(r) == cached \ {r}

SelectContact(c) ==
    LET r == case.research
        previous == case.selection
    IN  /\ NoActiveRun
        /\ r # 0 /\ researches[r].status = "READY"
        /\ c \in Candidates(r)
        /\ cached' = Purged(r)
        /\ \/ /\ previous # 0 /\ selections[previous].contact = c
              /\ UNCHANGED <<case, researches, selections, drafts, envelopes>>
           \/ /\ previous # 0 => selections[previous].contact # c
              /\ \E s \in Fresh(selections) :
                    /\ selections' = [selections EXCEPT ![s] =
                                         [status |-> "SELECTED", research |-> r, contact |-> c]]
                    /\ case' = [case EXCEPT !.selection = s, !.draft = 0, !.envelope = 0]
              /\ researches' = [researches EXCEPT ![r].chosen = c]
              /\ drafts' = Staled(drafts, case.draft)
              /\ envelopes' = Staled(envelopes, case.envelope)
        /\ UNCHANGED <<previews, geocodes, search, runs>>

(* _current_selection: what every preview and every simulation rests on.  It *)
(* refuses otherwise, and the refusal undoes what it wrote.                  *)
SelectionIsCurrent ==
    /\ case.selection # 0 /\ selections[case.selection].status = "SELECTED"
    /\ LET r == selections[case.selection].research
       IN  researches[r].status = "READY" /\ researches[r].chosen = selections[case.selection].contact

(* _require_current_outreach_record                                          *)
IsCurrent(record) == SelectionIsCurrent /\ record.selection = case.selection

-------------------------------------------------------------------------------
(* create_email_draft, approve_email_draft, run_email_simulation *)

CreateDraft(d) ==
    /\ d \in Fresh(drafts)
    /\ SelectionIsCurrent /\ selections[case.selection].contact \in Emails
    /\ drafts' = [Staled(drafts, case.draft) EXCEPT
                     ![d] = [status |-> "AWAITING_APPROVAL", selection |-> case.selection]]
    /\ case' = [case EXCEPT !.draft = d]
    /\ UNCHANGED <<research, selections, envelopes, runs>>

ApproveDraft ==
    /\ case.draft # 0 /\ IsCurrent(drafts[case.draft])
    /\ drafts[case.draft].status = "AWAITING_APPROVAL"
    /\ drafts' = [drafts EXCEPT ![case.draft].status = "APPROVED"]
    /\ UNCHANGED <<case, research, selections, envelopes, runs>>

RunEmail ==
    /\ case.draft # 0 /\ IsCurrent(drafts[case.draft])
    /\ drafts[case.draft].status = "APPROVED"
    /\ drafts' = [drafts EXCEPT ![case.draft].status = "SIMULATED_NOT_SENT"]
    /\ UNCHANGED <<case, research, selections, envelopes, runs>>

NextOutreach ==
    \/ \E p \in DOMAIN previews : StartPreview(p) \/ FinishPreview(p)
    \/ \E r \in DOMAIN researches :
          \/ ContactResearch(r) \/ ClaimSearch(r) \/ CheckResult(r)
          \/ StoreCandidates(r) \/ CommitResult(r) \/ FailResearch(r) \/ FailOverdue(r)
          \/ StopSearch(r) \/ LoseCandidates(r)
    \/ Reconcile
    \/ \E c \in Contacts : SelectContact(c)
    \/ \E d \in DOMAIN drafts : CreateDraft(d)
    \/ ApproveDraft \/ RunEmail
===============================================================================

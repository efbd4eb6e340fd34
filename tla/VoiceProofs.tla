------------------------------ MODULE VoiceProofs ------------------------------
(***************************************************************************)
(* Proofs about Outreach and Voice for any contacts and any number of      *)
(* records: their types, that a selection leaves no other contact behind,  *)
(* that what can be approved or run is current, that a run is played from  *)
(* the envelope that was approved, that a receipt is final, and that       *)
(* captions always have a cleanup to come.                                 *)
(***************************************************************************)
EXTENDS Voice, TLAPS

Previews == 1..MaxPreviews
Researches == 1..MaxResearches
Drafts == 1..MaxDrafts
Envelopes == 1..MaxEnvelopes
Runs == 1..MaxRuns

(* Whoever has something to select from has no worker that may still store.  *)
SearchesOk ==
    \A r \in Researches : researches[r].status \in {"READY", "EXPIRED"} => search[r] = "over"

(* The selected contact is of the current research, found and then purged.   *)
SelectionOk ==
    case.selection # 0 =>
        /\ selections[case.selection].status = "SELECTED"
        /\ selections[case.selection].research = case.research /\ case.research # 0
        /\ researches[case.research].status \in {"READY", "EXPIRED"}
        /\ case.research \notin cached

(* A preview made from the contact selected now.                             *)
PreviewOk(record) ==
    record.status # "STALE" /\ record.selection = case.selection /\ case.selection # 0

PreviewsOk ==
    /\ case.draft # 0 => PreviewOk(drafts[case.draft])
    /\ case.envelope # 0 => PreviewOk(envelopes[case.envelope])

(* A run has an envelope of its own, which is the current one exactly while  *)
(* the run is active.                                                        *)
RunOk(v) ==
    LET e == runs[v].envelope
    IN  /\ runs[v].status # "absent" =>
              /\ e # 0 /\ envelopes[e].status # "absent"
              /\ e = case.envelope => IsActive(v)
        /\ IsActive(v) =>
              /\ v = case.run /\ e = case.envelope
              /\ envelopes[e].run = v /\ envelopes[e].status = runs[v].status
        /\ runs[v].receipt # "none" => runs[v].status = runs[v].receipt

(* The cleanup of a run is scheduled before its captions are stored, and     *)
(* does not begin before its worker is over.                                 *)
CaptionsOk(v) ==
    /\ runs[v].status = "absent" => worker[v] = "none"
    /\ worker[v] \in {"storing", "committing"} => cleanup[v] = "scheduled"
    /\ cleanup[v] \in {"purging", "over", "failed"} => worker[v] = "over"
    /\ v \in sessions => cleanup[v] \in {"scheduled", "purging", "failed"}

VoiceInv ==
    /\ TypeOK
    /\ SearchesOk /\ SelectionOk /\ PreviewsOk
    /\ \A v \in Runs : RunOk(v) /\ CaptionsOk(v)

-------------------------------------------------------------------------------
(* Steps of the same shape *)

(* A step of the research worker, or of a lookup, that touches nothing       *)
(* built on them.                                                            *)
LEMMA ResearchStep ==
    ASSUME VoiceInv,
           UNCHANGED <<case, selections, drafts, envelopes, runs, worker, sessions, cleanup, closing>>,
           previews' \in [Previews -> [status : {"absent", "PENDING", "AWAITING_CONFIRMATION",
                                                 "CONFIRMED", "STALE", "FAILED"}]],
           geocodes' \subseteq Previews,
           researches' \in [Researches -> ResearchRecord],
           search' \in [Researches -> {"none", "invoked", "searching", "storing", "committing", "over"}],
           cached' \subseteq Researches,
           SearchesOk', SelectionOk'
    PROVE  VoiceInv'
<1>1. TypeOK'
  BY DEF VoiceInv, TypeOK, Previews, Researches
<1>2. PreviewsOk'
  BY DEF VoiceInv, PreviewsOk, PreviewOk
<1>3. ASSUME NEW v \in Runs PROVE RunOk(v)' /\ CaptionsOk(v)'
  BY DEF VoiceInv, RunOk, IsActive, CaptionsOk
<1>. QED BY <1>1, <1>2, <1>3 DEF VoiceInv

(* A step of the worker of a run, or of its cleanup, outside the database.   *)
LEMMA WorkerStep ==
    ASSUME VoiceInv, UNCHANGED outreach,
           worker' \in [Runs -> {"none", "invoked", "generating", "scheduling", "storing",
                                 "committing", "failing", "over"}],
           sessions' \subseteq Runs,
           cleanup' \in [Runs -> {"none", "scheduled", "purging", "over", "failed"}],
           closing' \subseteq Runs,
           \A v \in Runs : CaptionsOk(v)'
    PROVE  VoiceInv'
<1>1. UNCHANGED <<case, previews, geocodes, researches, search, cached, selections, drafts,
                  envelopes, runs>>
  BY DEF outreach
<1>2. TypeOK'
  BY <1>1 DEF VoiceInv, TypeOK, Runs
<1>3. SearchesOk' /\ SelectionOk' /\ PreviewsOk'
  BY <1>1 DEF VoiceInv, SearchesOk, SelectionOk, PreviewsOk, PreviewOk
<1>4. ASSUME NEW v \in Runs PROVE RunOk(v)'
  BY <1>1 DEF VoiceInv, RunOk, IsActive
<1>. QED BY <1>2, <1>3, <1>4 DEF VoiceInv

Stale(record) == [record EXCEPT !.status = "STALE"]

(* _mark_record_stale changes one record, and of it the status, if at all.   *)
LEMMA StaledOk ==
    ASSUME NEW I, NEW R, NEW records \in [I -> R], NEW i \in I \cup {0},
           \A r \in R : Stale(r) \in R
    PROVE  /\ Staled(records, i) \in [I -> R]
           /\ \A j \in I : Staled(records, i)[j] \in {records[j], Stale(records[j])}
<1>1. CASE Staled(records, i) = records
  BY <1>1
<1>2. CASE i \in I /\ Staled(records, i) = [records EXCEPT ![i] = Stale(records[i])]
  BY <1>2
<1>3. [records EXCEPT ![i].status = "STALE"] = [records EXCEPT ![i] = Stale(records[i])]
  BY DEF Stale
<1>. QED BY <1>1, <1>2, <1>3 DEF Staled

(* The records that invalidation marks.                                      *)
LEMMA StaleRecords ==
    /\ \A r \in SelectionRecord : Stale(r) \in SelectionRecord
    /\ \A r \in DraftRecord : Stale(r) \in DraftRecord
    /\ \A r \in EnvelopeRecord :
          Stale(r) \in EnvelopeRecord /\ Stale(r).status = "STALE" /\ Stale(r).run = r.run
  BY DEF SelectionRecord, DraftRecord, EnvelopeRecord, Stale

(* No run is active but the case's.                                          *)
LEMMA NobodyActive ==
    ASSUME VoiceInv, NoActiveRun, NEW v \in Runs
    PROVE  ~IsActive(v) /\ (runs[v].status # "absent" => runs[v].envelope # case.envelope)
  BY DEF VoiceInv, NoActiveRun, RunOk

(* With no active run and no envelope current, whatever becomes of the       *)
(* envelopes that exist is right for the runs.                               *)
LEMMA RunsRest ==
    ASSUME VoiceInv, NoActiveRun, UNCHANGED runs,
           NEW v \in Runs,
           runs[v].status # "absent" =>
               /\ envelopes'[runs[v].envelope].status # "absent"
               /\ case'.envelope # runs[v].envelope
    PROVE  RunOk(v)'
<1>1. ~IsActive(v) /\ RunOk(v)
  BY NobodyActive DEF VoiceInv
<1>. QED BY <1>1 DEF RunOk, IsActive

(* The types after a step that leaves the calls alone.                       *)
LEMMA UncalledTypes ==
    ASSUME TypeOK, UNCHANGED <<runs, worker, sessions, cleanup, closing>>,
           case' \in Pointers,
           previews' \in [Previews -> [status : {"absent", "PENDING", "AWAITING_CONFIRMATION",
                                                 "CONFIRMED", "STALE", "FAILED"}]],
           geocodes' \subseteq Previews,
           researches' \in [Researches -> ResearchRecord],
           search' \in [Researches -> {"none", "invoked", "searching", "storing", "committing", "over"}],
           cached' \subseteq Researches,
           selections' \in [Researches -> SelectionRecord],
           drafts' \in [Drafts -> DraftRecord],
           envelopes' \in [Envelopes -> EnvelopeRecord]
    PROVE  TypeOK'
<1>. DEFINE W == {"none", "invoked", "generating", "scheduling", "storing",
                  "committing", "failing", "over"}
            C == {"none", "scheduled", "purging", "over", "failed"}
<1>1. /\ runs \in [1..MaxRuns -> RunRecord] /\ worker \in [1..MaxRuns -> W]
      /\ sessions \subseteq 1..MaxRuns /\ cleanup \in [1..MaxRuns -> C]
      /\ closing \subseteq 1..MaxRuns
  BY DEF TypeOK
<1>2. /\ runs' \in [1..MaxRuns -> RunRecord] /\ worker' \in [1..MaxRuns -> W]
      /\ sessions' \subseteq 1..MaxRuns /\ cleanup' \in [1..MaxRuns -> C]
      /\ closing' \subseteq 1..MaxRuns
  BY <1>1
<1>. QED
  BY <1>2, Zenon DEF TypeOK, Previews, Researches, Drafts, Envelopes

(* An invalidation drops selection, draft and envelope, and marks them.      *)
LEMMA DropStep ==
    ASSUME VoiceInv, Invalidate, UNCHANGED <<runs, worker, sessions, cleanup, closing>>,
           case' \in Pointers, case'.selection = 0, case'.draft = 0, case'.envelope = 0,
           previews' \in [Previews -> [status : {"absent", "PENDING", "AWAITING_CONFIRMATION",
                                                 "CONFIRMED", "STALE", "FAILED"}]],
           geocodes' \subseteq Previews,
           researches' \in [Researches -> ResearchRecord],
           search' \in [Researches -> {"none", "invoked", "searching", "storing", "committing", "over"}],
           cached' \subseteq Researches,
           SearchesOk'
    PROVE  VoiceInv'
<1>1. /\ NoActiveRun /\ drafts' = Staled(drafts, case.draft)
      /\ envelopes' = Staled(envelopes, case.envelope)
      /\ selections' = Staled(selections, case.selection) /\ TypeOK
  BY DEF Invalidate, VoiceInv
<1>2. /\ case.draft \in Drafts \cup {0} /\ case.envelope \in Envelopes \cup {0}
      /\ case.selection \in Researches \cup {0}
      /\ drafts \in [Drafts -> DraftRecord] /\ envelopes \in [Envelopes -> EnvelopeRecord]
      /\ selections \in [Researches -> SelectionRecord]
  BY <1>1 DEF TypeOK, Pointers, Drafts, Envelopes, Researches
<1>3. /\ drafts' \in [Drafts -> DraftRecord] /\ selections' \in [Researches -> SelectionRecord]
  <2>1. Staled(drafts, case.draft) \in [Drafts -> DraftRecord]
    BY <1>2, StaledOk, StaleRecords
  <2>2. Staled(selections, case.selection) \in [Researches -> SelectionRecord]
    BY <1>2, StaledOk, StaleRecords
  <2>. QED BY <1>1, <2>1, <2>2
<1>4. /\ envelopes' \in [Envelopes -> EnvelopeRecord]
      /\ \A e \in Envelopes : envelopes'[e] \in {envelopes[e], Stale(envelopes[e])}
  <2>1. \A r \in EnvelopeRecord : Stale(r) \in EnvelopeRecord
    BY StaleRecords
  <2>2. LET after == Staled(envelopes, case.envelope)
        IN  /\ after \in [Envelopes -> EnvelopeRecord]
            /\ \A e \in Envelopes : after[e] \in {envelopes[e], Stale(envelopes[e])}
    BY <1>2, <2>1, StaledOk
  <2>. QED BY <1>1, <2>2
<1>5. TypeOK'
  BY <1>1, <1>3, <1>4, UncalledTypes
<1>6. SelectionOk' /\ PreviewsOk'
  BY DEF SelectionOk, PreviewsOk
<1>7. ASSUME NEW v \in Runs PROVE RunOk(v)' /\ CaptionsOk(v)'
  <2>1. ASSUME runs[v].status # "absent"
        PROVE  /\ envelopes'[runs[v].envelope].status # "absent"
               /\ case'.envelope # runs[v].envelope
    <3>1. runs[v].envelope # 0 /\ envelopes[runs[v].envelope].status # "absent"
      BY <2>1 DEF VoiceInv, RunOk
    <3>2. runs[v].envelope \in Envelopes
      BY <1>1, <3>1 DEF TypeOK, RunRecord, Runs, Envelopes
    <3>. QED BY <1>2, <1>4, <3>1, <3>2, StaleRecords
  <2>2. RunOk(v)'
    BY <1>1, <2>1, RunsRest
  <2>3. CaptionsOk(v)'
    BY DEF VoiceInv, CaptionsOk
  <2>. QED BY <2>2, <2>3
<1>. QED BY <1>5, <1>6, <1>7 DEF VoiceInv

-------------------------------------------------------------------------------
(* Research *)

(* What the invariant says of a research and of what it found.               *)
LEMMA ResearchFacts ==
    ASSUME VoiceInv
    PROVE  /\ case \in Pointers /\ case.research \in Researches \cup {0}
           /\ case.preview \in Previews \cup {0}
           /\ previews \in [Previews -> [status : {"absent", "PENDING", "AWAITING_CONFIRMATION",
                                                   "CONFIRMED", "STALE", "FAILED"}]]
           /\ geocodes \subseteq Previews
           /\ researches \in [Researches -> ResearchRecord]
           /\ search \in [Researches -> {"none", "invoked", "searching", "storing", "committing", "over"}]
           /\ cached \subseteq Researches
           /\ SearchesOk /\ SelectionOk
           /\ \A r \in Researches : search[r] # "over" =>
                 researches[r].status \notin {"READY", "EXPIRED"}
           /\ case.selection # 0 => case.research \in Researches /\ search[case.research] = "over"
  BY DEF VoiceInv, TypeOK, Pointers, Previews, Researches, SearchesOk, SelectionOk

(* scrub_contact_research changes a status.                                  *)
LEMMA ScrubbedOk ==
    ASSUME VoiceInv, NEW r \in Researches \cup {0},
           NEW status \in {"FAILED", "STALE", "EXPIRED"}
    PROVE  /\ Scrubbed(r, status) \in [Researches -> ResearchRecord]
           /\ \A q \in Researches : q # r => Scrubbed(r, status)[q] = researches[q]
           /\ r # 0 => Scrubbed(r, status)[r].status = status
<1>1. researches \in [Researches -> ResearchRecord]
  BY ResearchFacts
<1>2. \A q \in ResearchRecord : [q EXCEPT !.status = status] \in ResearchRecord
  BY DEF ResearchRecord
<1>3. CASE r = 0
  BY <1>1, <1>3 DEF Scrubbed
<1>4. CASE r # 0
  <2>1. Scrubbed(r, status) = [researches EXCEPT ![r] = [researches[r] EXCEPT !.status = status]]
    BY <1>4 DEF Scrubbed
  <2>2. [researches[r] EXCEPT !.status = status].status = status
    BY <1>1, <1>4 DEF ResearchRecord
  <2>. HIDE DEF ResearchRecord
  <2>. QED BY <1>1, <1>2, <1>4, <2>1, <2>2
<1>. QED BY <1>3, <1>4

(* Scrubbing the current research, there being one or not.                   *)
LEMMA ResearchScrubbed ==
    ASSUME VoiceInv, NEW status \in {"FAILED", "STALE", "EXPIRED"}
    PROVE  LET after == Scrubbed(case.research, status)
           IN  /\ after \in [Researches -> ResearchRecord]
               /\ \A q \in Researches : after[q] = researches[q] \/ after[q].status = status
<1>1. PICK r \in Researches \cup {0} : r = case.research
  BY ResearchFacts
<1>2. /\ Scrubbed(r, status) \in [Researches -> ResearchRecord]
      /\ \A q \in Researches : q # r => Scrubbed(r, status)[q] = researches[q]
      /\ r # 0 => Scrubbed(r, status)[r].status = status
  BY ScrubbedOk
<1>3. ASSUME NEW q \in Researches
      PROVE  Scrubbed(r, status)[q] = researches[q] \/ Scrubbed(r, status)[q].status = status
  <2>1. CASE q = r
    <3>1. r # 0
      BY <2>1 DEF Researches
    <3>. QED BY <1>2, <2>1, <3>1
  <2>2. CASE q # r
    BY <1>2, <2>2
  <2>. QED BY <2>1, <2>2
<1>. QED BY <1>1, <1>2, <1>3

(* What is dropped, and what may be set with it.                             *)
LEMMA DroppedOk ==
    ASSUME OutreachAssumption, VoiceInv
    PROVE  /\ Dropped \in Pointers
           /\ Dropped.selection = 0 /\ Dropped.draft = 0 /\ Dropped.envelope = 0
           /\ \A p \in Previews : LET after == [Dropped EXCEPT !.preview = p]
                                 IN  /\ after \in Pointers /\ after.selection = 0
                                     /\ after.draft = 0 /\ after.envelope = 0
           /\ \A r \in Researches : LET after == [Dropped EXCEPT !.research = r]
                                   IN  /\ after \in Pointers /\ after.selection = 0
                                       /\ after.draft = 0 /\ after.envelope = 0
<1>1. case \in Pointers
  BY ResearchFacts
<1>2. /\ Dropped \in Pointers
      /\ Dropped.selection = 0 /\ Dropped.draft = 0 /\ Dropped.envelope = 0
  <2>1. 0 \in 0..MaxResearches /\ 0 \in 0..MaxDrafts /\ 0 \in 0..MaxEnvelopes
    BY DEF OutreachAssumption
  <2>2. Dropped \in Pointers
    BY <1>1, <2>1 DEF Pointers, Dropped
  <2>. QED BY <1>1, <2>2 DEF Pointers, Dropped
<1>. HIDE DEF Dropped
<1>3. ASSUME NEW p \in Previews
      PROVE  LET after == [Dropped EXCEPT !.preview = p]
             IN  after \in Pointers /\ after.selection = 0 /\ after.draft = 0 /\ after.envelope = 0
  BY <1>2 DEF Pointers, Previews
<1>4. ASSUME NEW r \in Researches
      PROVE  LET after == [Dropped EXCEPT !.research = r]
             IN  after \in Pointers /\ after.selection = 0 /\ after.draft = 0 /\ after.envelope = 0
  BY <1>2 DEF Pointers, Researches
<1>. QED BY <1>2, <1>3, <1>4

(* The variables of Voice alone.                                             *)
voice == <<worker, sessions, cleanup, closing>>

(* A preview before its lookup, and what it replaces.                        *)
LEMMA StartPreviewInv ==
    ASSUME OutreachAssumption, VoiceInv, NEW p \in Previews, StartPreview(p), UNCHANGED voice
    PROVE  VoiceInv'
<1>1. /\ previews' = [i \in DOMAIN previews |->
                         [status |-> CASE i = p -> "PENDING"
                                       [] i = case.preview -> "STALE"
                                       [] OTHER -> previews[i].status]]
      /\ geocodes' = geocodes \cup {p} /\ UNCHANGED <<search, runs>>
      /\ UNCHANGED <<worker, sessions, cleanup, closing>>
  BY DEF StartPreview, voice
<1>. DEFINE S == {"absent", "PENDING", "AWAITING_CONFIRMATION", "CONFIRMED", "STALE", "FAILED"}
<1>2. previews' \in [Previews -> [status : S]]
  <2>1. ASSUME NEW i \in Previews PROVE previews'[i] \in [status : S]
    <3>1. previews[i].status \in S
      BY ResearchFacts
    <3>2. CASE i = p
      BY <1>1, <3>2, ResearchFacts
    <3>3. CASE i # p /\ i = case.preview
      BY <1>1, <3>3, ResearchFacts
    <3>4. CASE i # p /\ i # case.preview
      BY <1>1, <3>1, <3>4, ResearchFacts
    <3>. QED BY <3>2, <3>3, <3>4
  <2>2. previews' = [i \in Previews |-> previews'[i]]
    BY <1>1, ResearchFacts
  <2>. QED BY <2>1, <2>2
<1>3. geocodes' \subseteq Previews
  BY <1>1, ResearchFacts
<1>4. CASE /\ Invalidate
           /\ case' = [Dropped EXCEPT !.preview = p]
           /\ researches' = Scrubbed(case.research, "STALE")
           /\ cached' = cached \ {case.research}
  <2>1. /\ case' \in Pointers /\ case'.selection = 0 /\ case'.draft = 0 /\ case'.envelope = 0
    BY <1>4, DroppedOk
  <2>2. /\ researches' \in [Researches -> ResearchRecord]
        /\ \A q \in Researches : researches'[q] = researches[q] \/ researches'[q].status = "STALE"
    BY <1>4, ResearchScrubbed
  <2>3. SearchesOk' /\ cached' \subseteq Researches
    BY <1>1, <1>4, <2>2, ResearchFacts DEF SearchesOk
  <2>4. search' \in [Researches -> {"none", "invoked", "searching", "storing", "committing", "over"}]
    BY <1>1, ResearchFacts
  <2>. QED BY <1>1, <1>2, <1>3, <1>4, <2>1, <2>2, <2>3, <2>4, DropStep
<1>5. CASE /\ case' = [case EXCEPT !.preview = p]
           /\ UNCHANGED <<researches, cached, selections, drafts, envelopes>>
  <2>1. /\ case' \in Pointers /\ case'.selection = case.selection /\ case'.draft = case.draft
        /\ case'.envelope = case.envelope /\ case'.run = case.run /\ case'.research = case.research
    <3>1. case \in Pointers /\ p \in 0..MaxPreviews
      BY ResearchFacts DEF Previews
    <3>. QED BY <1>5, <3>1 DEF Pointers
  <2>2. TypeOK'
    <3>1. /\ researches \in [Researches -> ResearchRecord]
          /\ search \in [Researches -> {"none", "invoked", "searching", "storing", "committing", "over"}]
          /\ cached \subseteq Researches /\ selections \in [Researches -> SelectionRecord]
          /\ drafts \in [Drafts -> DraftRecord] /\ envelopes \in [Envelopes -> EnvelopeRecord]
      BY DEF VoiceInv, TypeOK, Researches, Drafts, Envelopes
    <3>. QED BY <1>1, <1>2, <1>3, <1>5, <2>1, <3>1, UncalledTypes DEF VoiceInv
  <2>3. SearchesOk' /\ SelectionOk' /\ PreviewsOk'
    BY <1>1, <1>5, <2>1 DEF VoiceInv, SearchesOk, SelectionOk, PreviewsOk, PreviewOk
  <2>4. ASSUME NEW v \in Runs PROVE RunOk(v)' /\ CaptionsOk(v)'
    BY <1>1, <1>5, <2>1 DEF VoiceInv, RunOk, IsActive, CaptionsOk
  <2>. QED BY <2>2, <2>3, <2>4 DEF VoiceInv
<1>. QED BY <1>4, <1>5 DEF StartPreview

(* A confirmed area starts a search in place of the research before it.      *)
LEMMA ContactResearchInv ==
    ASSUME OutreachAssumption, VoiceInv, NEW r \in Researches, ContactResearch(r), UNCHANGED voice
    PROVE  VoiceInv'
<1>. DEFINE q == [status |-> "PENDING", preview |-> case.preview, chosen |-> None]
<1>1. /\ Invalidate /\ case.preview # 0
      /\ researches' = [Scrubbed(case.research, "STALE") EXCEPT ![r] = q]
      /\ cached' = cached \ {case.research}
      /\ previews' = [previews EXCEPT ![case.preview].status = "CONFIRMED"]
      /\ case' = [Dropped EXCEPT !.research = r]
      /\ search' = [search EXCEPT ![r] = "invoked"]
      /\ UNCHANGED <<geocodes, runs, worker, sessions, cleanup, closing>>
  BY DEF ContactResearch, voice
<1>2. /\ case' \in Pointers /\ case'.selection = 0 /\ case'.draft = 0 /\ case'.envelope = 0
  BY <1>1, DroppedOk
<1>3. q \in ResearchRecord /\ q.status = "PENDING"
  BY ResearchFacts DEF ResearchRecord, Previews
<1>. HIDE DEF q
<1>4. /\ researches' \in [Researches -> ResearchRecord] /\ researches'[r].status = "PENDING"
      /\ \A p \in Researches \ {r} :
            researches'[p] = researches[p] \/ researches'[p].status = "STALE"
  <2>1. /\ Scrubbed(case.research, "STALE") \in [Researches -> ResearchRecord]
        /\ \A p \in Researches : \/ Scrubbed(case.research, "STALE")[p] = researches[p]
                                 \/ Scrubbed(case.research, "STALE")[p].status = "STALE"
    BY ResearchScrubbed
  <2>. QED BY <1>1, <1>3, <2>1
<1>5. /\ search' \in [Researches -> {"none", "invoked", "searching", "storing", "committing", "over"}]
      /\ \A p \in Researches \ {r} : search'[p] = search[p]
  BY <1>1, ResearchFacts
<1>6. SearchesOk' /\ cached' \subseteq Researches
  BY <1>1, <1>4, <1>5, ResearchFacts DEF SearchesOk
<1>7. previews' \in [Previews -> [status : {"absent", "PENDING", "AWAITING_CONFIRMATION",
                                           "CONFIRMED", "STALE", "FAILED"}]]
  BY <1>1, ResearchFacts
<1>8. geocodes' \subseteq Previews
  BY <1>1, ResearchFacts
<1>. QED BY <1>1, <1>2, <1>4, <1>5, <1>6, <1>7, <1>8, DropStep

(* A result that has expired takes everything built on it along.             *)
LEMMA ReconcileInv ==
    ASSUME OutreachAssumption, VoiceInv, Reconcile, UNCHANGED voice
    PROVE  VoiceInv'
<1>. DEFINE S == {"absent", "PENDING", "AWAITING_CONFIRMATION", "CONFIRMED", "STALE", "FAILED"}
<1>1. /\ Invalidate /\ case' = Dropped
      /\ case.research # 0 /\ researches[case.research].status = "READY"
      /\ previews' = Staled(previews, case.preview)
      /\ researches' = Scrubbed(case.research, "EXPIRED")
      /\ cached' = cached \ {case.research}
      /\ UNCHANGED <<geocodes, search, runs, worker, sessions, cleanup, closing>>
  BY DEF Reconcile, voice
<1>2. case' \in Pointers /\ case'.selection = 0 /\ case'.draft = 0 /\ case'.envelope = 0
  BY <1>1, DroppedOk
<1>3. previews' \in [Previews -> [status : S]]
  <2>1. \A record \in [status : S] : Stale(record) \in [status : S]
    BY DEF Stale
  <2>. HIDE DEF S
  <2>2. previews \in [Previews -> [status : S]] /\ case.preview \in Previews \cup {0}
    BY ResearchFacts DEF S
  <2>3. Staled(previews, case.preview) \in [Previews -> [status : S]]
    BY <2>1, <2>2, StaledOk
  <2>. QED BY <1>1, <2>3
<1>4. /\ researches' \in [Researches -> ResearchRecord]
      /\ \A q \in Researches : q # case.research => researches'[q] = researches[q]
      /\ case.research \in Researches /\ search[case.research] = "over"
  <2>1. case.research \in Researches /\ search[case.research] = "over"
    BY <1>1, ResearchFacts
  <2>. QED BY <1>1, <2>1, ScrubbedOk
<1>5. SearchesOk' /\ cached' \subseteq Researches
  BY <1>1, <1>4, ResearchFacts DEF SearchesOk
<1>6. /\ geocodes' \subseteq Previews
      /\ search' \in [Researches -> {"none", "invoked", "searching", "storing", "committing", "over"}]
  BY <1>1, ResearchFacts
<1>. QED BY <1>1, <1>2, <1>3, <1>4, <1>5, <1>6, DropStep

(* A lookup answers, fails or is given up.                                   *)
LEMMA FinishPreviewInv ==
    ASSUME VoiceInv, NEW p \in Previews, FinishPreview(p), UNCHANGED voice
    PROVE  VoiceInv'
<1>1. /\ UNCHANGED <<case, selections, drafts, envelopes, runs, worker, sessions, cleanup, closing>>
      /\ UNCHANGED <<researches, search, cached>> /\ geocodes' = geocodes \ {p}
  BY DEF FinishPreview, voice
<1>2. previews' \in [Previews -> [status : {"absent", "PENDING", "AWAITING_CONFIRMATION",
                                           "CONFIRMED", "STALE", "FAILED"}]]
  BY ResearchFacts DEF FinishPreview
<1>3. SearchesOk' /\ SelectionOk'
  BY <1>1, ResearchFacts DEF SearchesOk, SelectionOk
<1>. QED BY <1>1, <1>2, <1>3, ResearchFacts, ResearchStep

(* The worker of a search goes on, and may write what it found, unless it is *)
(* over; only a search that commits makes its research ready.                *)
LEMMA SearchStep ==
    ASSUME VoiceInv, NEW r \in Researches, NEW pc,
           pc \in {"none", "searching", "storing", "committing", "over"},
           search' = [search EXCEPT ![r] = pc], search[r] # "over",
           \/ UNCHANGED researches
           \/ pc = "over" /\ researches' = [researches EXCEPT ![r].status = "READY"]
           \/ pc = "over" /\ researches' = Scrubbed(r, "FAILED"),
           cached' \in {cached, cached \ {r}, cached \cup {r}},
           UNCHANGED <<case, previews, geocodes, selections, drafts, envelopes, runs>>,
           UNCHANGED voice
    PROVE  VoiceInv'
<1>1. UNCHANGED <<case, selections, drafts, envelopes, runs, worker, sessions, cleanup, closing>>
  BY DEF voice
<1>2. /\ researches' \in [Researches -> ResearchRecord]
      /\ \A q \in Researches \ {r} : researches'[q] = researches[q]
      /\ researches'[r] = researches[r] \/ pc = "over"
  <2>1. CASE UNCHANGED researches
    BY <2>1, ResearchFacts
  <2>2. CASE pc = "over" /\ researches' = [researches EXCEPT ![r].status = "READY"]
    BY <2>2, ResearchFacts DEF ResearchRecord
  <2>3. CASE pc = "over" /\ researches' = Scrubbed(r, "FAILED")
    BY <2>3, ResearchFacts, ScrubbedOk
  <2>. QED BY <2>1, <2>2, <2>3
<1>3. /\ search' \in [Researches -> {"none", "invoked", "searching", "storing", "committing", "over"}]
      /\ search'[r] = pc /\ \A q \in Researches \ {r} : search'[q] = search[q]
  BY ResearchFacts
<1>4. SearchesOk'
  <2>1. ASSUME NEW q \in Researches, researches'[q].status \in {"READY", "EXPIRED"}
        PROVE  search'[q] = "over"
    <3>1. CASE q = r
      BY <1>2, <1>3, <2>1, <3>1, ResearchFacts
    <3>2. CASE q # r
      BY <1>2, <1>3, <2>1, <3>2, ResearchFacts DEF SearchesOk
    <3>. QED BY <3>1, <3>2
  <2>. QED BY <2>1 DEF SearchesOk
<1>5. SelectionOk'
  <2>1. ASSUME case.selection # 0
        PROVE  /\ researches'[case.research].status \in {"READY", "EXPIRED"}
               /\ case.research \notin cached'
    <3>1. case.research \in Researches \ {r}
      BY <2>1, ResearchFacts
    <3>. QED BY <1>2, <2>1, <3>1, ResearchFacts DEF SelectionOk
  <2>. QED BY <2>1, ResearchFacts DEF SelectionOk
<1>6. cached' \subseteq Researches
  BY ResearchFacts
<1>7. /\ previews' \in [Previews -> [status : {"absent", "PENDING", "AWAITING_CONFIRMATION",
                                              "CONFIRMED", "STALE", "FAILED"}]]
      /\ geocodes' \subseteq Previews
  BY ResearchFacts
<1>. QED BY <1>1, <1>2, <1>3, <1>4, <1>5, <1>6, <1>7, ResearchStep

(* The worker of a search.                                                   *)
LEMMA SearchInv ==
    ASSUME VoiceInv, NEW r \in Researches, UNCHANGED voice,
           \/ ClaimSearch(r) \/ CheckResult(r) \/ StoreCandidates(r) \/ CommitResult(r)
           \/ FailResearch(r) \/ StopSearch(r)
    PROVE  VoiceInv'
<1>1. CASE ClaimSearch(r)
  BY <1>1, SearchStep DEF ClaimSearch
<1>2. CASE CheckResult(r)
  BY <1>2, SearchStep DEF CheckResult
<1>3. CASE StoreCandidates(r)
  BY <1>3, SearchStep DEF StoreCandidates
<1>4. CASE CommitResult(r)
  BY <1>4, SearchStep DEF CommitResult
<1>5. CASE FailResearch(r)
  BY <1>5, SearchStep DEF FailResearch
<1>6. CASE StopSearch(r)
  <2>1. /\ search' = [search EXCEPT ![r] = IF search[r] = "invoked" THEN "none" ELSE "over"]
        /\ search[r] # "over" /\ cached' = cached
        /\ UNCHANGED <<case, previews, geocodes, researches, selections, drafts, envelopes, runs>>
    BY <1>6 DEF StopSearch
  <2>2. CASE search[r] = "invoked"
    BY <2>1, <2>2, SearchStep
  <2>3. CASE search[r] # "invoked"
    BY <2>1, <2>3, SearchStep
  <2>. QED BY <2>2, <2>3
<1>. QED BY <1>1, <1>2, <1>3, <1>4, <1>5, <1>6

(* A pending research fails, a ready one expires, or candidates are lost,    *)
(* whatever the worker is at.                                                *)
LEMMA ScrubStep ==
    ASSUME VoiceInv, cached' \subseteq cached,
           \/ UNCHANGED researches
           \/ \E r \in Researches : /\ researches[r].status = "PENDING"
                                    /\ researches' = Scrubbed(r, "FAILED")
           \/ \E r \in Researches : /\ researches[r].status = "READY"
                                    /\ researches' = Scrubbed(r, "EXPIRED")
    PROVE  /\ researches' \in [Researches -> ResearchRecord]
           /\ \A r \in Researches :
                 researches'[r].status \in {"READY", "EXPIRED"} <=>
                     researches[r].status \in {"READY", "EXPIRED"}
           /\ UNCHANGED search => SearchesOk'
           /\ UNCHANGED <<case, selections>> => SelectionOk'
<1>1. /\ researches' \in [Researches -> ResearchRecord]
      /\ \A r \in Researches :
            researches'[r].status \in {"READY", "EXPIRED"} <=>
                researches[r].status \in {"READY", "EXPIRED"}
  <2>1. CASE UNCHANGED researches
    BY <2>1, ResearchFacts
  <2>2. ASSUME NEW r \in Researches, researches[r].status = "PENDING",
               researches' = Scrubbed(r, "FAILED")
        PROVE  <1>1!1 /\ <1>1!2
    BY <2>2, ScrubbedOk DEF Researches
  <2>3. ASSUME NEW r \in Researches, researches[r].status = "READY",
               researches' = Scrubbed(r, "EXPIRED")
        PROVE  <1>1!1 /\ <1>1!2
    BY <2>3, ScrubbedOk DEF Researches
  <2>. QED BY <2>1, <2>2, <2>3
<1>2. UNCHANGED search => SearchesOk'
  BY <1>1, ResearchFacts DEF SearchesOk
<1>3. UNCHANGED <<case, selections>> => SelectionOk'
  BY <1>1, ResearchFacts DEF SelectionOk
<1>. QED BY <1>1, <1>2, <1>3

(* The deadline of a search, and candidates that go.                         *)
LEMMA LossInv ==
    ASSUME VoiceInv, NEW r \in Researches, UNCHANGED voice, FailOverdue(r) \/ LoseCandidates(r)
    PROVE  VoiceInv'
<1>1. /\ UNCHANGED <<case, selections, drafts, envelopes, runs, worker, sessions, cleanup, closing>>
      /\ UNCHANGED <<previews, geocodes, search>> /\ cached' = cached \ {r}
      /\ \/ UNCHANGED researches
         \/ researches[r].status = "PENDING" /\ researches' = Scrubbed(r, "FAILED")
  BY DEF FailOverdue, LoseCandidates, IsWanted, voice
<1>2. researches' \in [Researches -> ResearchRecord] /\ SearchesOk' /\ SelectionOk'
  BY <1>1, ScrubStep
<1>. QED BY <1>1, <1>2, ResearchFacts, ResearchStep

-------------------------------------------------------------------------------
(* Selections, drafts and envelopes *)

(* What the invariant says of the records built on a research.               *)
LEMMA BuiltFacts ==
    ASSUME VoiceInv
    PROVE  /\ case \in Pointers /\ case.selection \in Researches \cup {0}
           /\ case.draft \in Drafts \cup {0} /\ case.envelope \in Envelopes \cup {0}
           /\ case.run \in Runs \cup {0}
           /\ selections \in [Researches -> SelectionRecord]
           /\ drafts \in [Drafts -> DraftRecord]
           /\ envelopes \in [Envelopes -> EnvelopeRecord]
           /\ runs \in [Runs -> RunRecord]
           /\ SelectionOk /\ PreviewsOk
           /\ \A v \in Runs : RunOk(v) /\ CaptionsOk(v)
  BY DEF VoiceInv, TypeOK, Pointers, Researches, Drafts, Envelopes, Runs

(* A step that leaves research and the worker of runs alone keeps types.     *)
LEMMA BuiltTypes ==
    ASSUME VoiceInv, UNCHANGED research, UNCHANGED voice,
           case' \in Pointers, selections' \in [Researches -> SelectionRecord],
           drafts' \in [Drafts -> DraftRecord], envelopes' \in [Envelopes -> EnvelopeRecord],
           runs' \in [Runs -> RunRecord]
    PROVE  TypeOK' /\ SearchesOk'
<1>1. UNCHANGED <<previews, geocodes, researches, search, cached, worker, sessions, cleanup, closing>>
  BY DEF research, voice
<1>2. TypeOK'
  BY <1>1 DEF VoiceInv, TypeOK, Researches, Drafts, Envelopes, Runs
<1>3. SearchesOk'
  BY <1>1 DEF VoiceInv, SearchesOk
<1>. QED BY <1>2, <1>3

(* A step on drafts: the current one, if any, is of the selection.           *)
LEMMA DraftStep ==
    ASSUME VoiceInv, UNCHANGED research, UNCHANGED voice, UNCHANGED <<selections, envelopes, runs>>,
           drafts' \in [Drafts -> DraftRecord], NEW d \in Drafts,
           case' = [case EXCEPT !.draft = d],
           drafts'[d].status # "STALE", drafts'[d].selection = case.selection, case.selection # 0
    PROVE  VoiceInv'
<1>1. /\ case' \in Pointers /\ case'.draft = d /\ case'.selection = case.selection
      /\ case'.research = case.research /\ case'.envelope = case.envelope /\ case'.run = case.run
  BY BuiltFacts DEF Pointers, Drafts
<1>2. TypeOK' /\ SearchesOk'
  BY <1>1, BuiltFacts, BuiltTypes
<1>3. SelectionOk' /\ PreviewsOk'
  BY <1>1, BuiltFacts DEF SelectionOk, PreviewsOk, PreviewOk, research
<1>4. ASSUME NEW v \in Runs PROVE RunOk(v)' /\ CaptionsOk(v)'
  <2>1. RunOk(v)'
    BY <1>1, BuiltFacts DEF RunOk, IsActive
  <2>2. CaptionsOk(v)'
    BY BuiltFacts DEF CaptionsOk, voice
  <2>. QED BY <2>1, <2>2
<1>. QED BY <1>2, <1>3, <1>4 DEF VoiceInv

(* A new draft, in place of the one before it.                               *)
LEMMA CreateDraftInv ==
    ASSUME OutreachAssumption, VoiceInv, NEW d \in Drafts, CreateDraft(d), UNCHANGED voice
    PROVE  VoiceInv'
<1>. DEFINE r == [status |-> "AWAITING_APPROVAL", selection |-> case.selection]
<1>1. /\ case.selection # 0 /\ drafts' = [Staled(drafts, case.draft) EXCEPT ![d] = r]
      /\ case' = [case EXCEPT !.draft = d]
      /\ UNCHANGED research /\ UNCHANGED <<selections, envelopes, runs>>
  BY DEF CreateDraft, SelectionIsCurrent
<1>2. r \in DraftRecord /\ r.status # "STALE" /\ r.selection = case.selection
  BY BuiltFacts DEF DraftRecord, Researches, OutreachAssumption
<1>3. Staled(drafts, case.draft) \in [Drafts -> DraftRecord]
  BY BuiltFacts, StaledOk, StaleRecords
<1>. HIDE DEF r
<1>4. drafts' \in [Drafts -> DraftRecord] /\ drafts'[d] = r
  BY <1>1, <1>2, <1>3
<1>. QED BY <1>1, <1>2, <1>4, DraftStep

(* Its approval and its simulation.                                          *)
LEMMA DraftMovesInv ==
    ASSUME VoiceInv, ApproveDraft \/ RunEmail, UNCHANGED voice
    PROVE  VoiceInv'
<1>1. PICK d \in Drafts : d = case.draft
  BY BuiltFacts DEF ApproveDraft, RunEmail
<1>2. PICK status \in {"APPROVED", "SIMULATED_NOT_SENT"} :
         drafts' = [drafts EXCEPT ![d].status = status]
  BY <1>1 DEF ApproveDraft, RunEmail
<1>3. UNCHANGED case /\ UNCHANGED research /\ UNCHANGED <<selections, envelopes, runs>>
  BY DEF ApproveDraft, RunEmail
<1>4. case' = [case EXCEPT !.draft = d]
  BY <1>1, <1>3, BuiltFacts DEF Pointers
<1>5. PreviewOk(drafts[d])
  BY <1>1, BuiltFacts DEF PreviewsOk, Drafts
<1>6. /\ drafts' \in [Drafts -> DraftRecord]
      /\ drafts'[d].status = status /\ drafts'[d].selection = drafts[d].selection
  BY <1>2, BuiltFacts DEF DraftRecord
<1>. QED BY <1>3, <1>4, <1>5, <1>6, DraftStep DEF PreviewOk

(* A step on envelopes while no run is active: the current one, if any, is   *)
(* of the selection and has not been run.                                    *)
LEMMA EnvelopeStep ==
    ASSUME VoiceInv, UNCHANGED research, UNCHANGED voice, UNCHANGED <<selections, drafts, runs>>,
           envelopes' \in [Envelopes -> EnvelopeRecord], NEW e \in Envelopes,
           case' = [case EXCEPT !.envelope = e],
           envelopes'[e].status # "STALE", envelopes'[e].selection = case.selection,
           case.selection # 0, NoActiveRun,
           \A f \in Envelopes : envelopes[f].status # "absent" => envelopes'[f].status # "absent",
           \A v \in Runs : runs[v].status # "absent" => runs[v].envelope # e
    PROVE  VoiceInv'
<1>1. /\ case' \in Pointers /\ case'.envelope = e /\ case'.selection = case.selection
      /\ case'.research = case.research /\ case'.draft = case.draft /\ case'.run = case.run
  BY BuiltFacts DEF Pointers, Envelopes
<1>2. TypeOK' /\ SearchesOk'
  BY <1>1, BuiltFacts, BuiltTypes
<1>3. SelectionOk' /\ PreviewsOk'
  BY <1>1, BuiltFacts DEF SelectionOk, PreviewsOk, PreviewOk, research
<1>4. ASSUME NEW v \in Runs PROVE RunOk(v)' /\ CaptionsOk(v)'
  <2>1. ASSUME runs[v].status # "absent"
        PROVE  /\ envelopes'[runs[v].envelope].status # "absent"
               /\ case'.envelope # runs[v].envelope
    <3>1. runs[v].envelope # 0 /\ envelopes[runs[v].envelope].status # "absent"
      BY <2>1, BuiltFacts DEF RunOk
    <3>2. runs[v].envelope \in Envelopes
      BY <3>1, BuiltFacts DEF RunRecord, Envelopes
    <3>. QED BY <1>1, <2>1, <3>1, <3>2
  <2>2. RunOk(v)'
    BY <2>1, RunsRest
  <2>3. CaptionsOk(v)'
    BY BuiltFacts DEF CaptionsOk, voice
  <2>. QED BY <2>2, <2>3
<1>. QED BY <1>2, <1>3, <1>4 DEF VoiceInv

(* A new envelope, which no run has been made from.                          *)
LEMMA CreateEnvelopeInv ==
    ASSUME OutreachAssumption, VoiceInv, NEW e \in Envelopes, CreateEnvelope(e)
    PROVE  VoiceInv'
<1>. DEFINE r == [status |-> "AWAITING_APPROVAL", selection |-> case.selection, run |-> 0]
<1>1. /\ case.selection # 0 /\ NoActiveRun /\ envelopes[e].status = "absent"
      /\ envelopes' = [Staled(envelopes, case.envelope) EXCEPT ![e] = r]
      /\ case' = [case EXCEPT !.envelope = e]
      /\ UNCHANGED research /\ UNCHANGED <<selections, drafts, runs>> /\ UNCHANGED voice
  BY DEF CreateEnvelope, SelectionIsCurrent, Fresh, voice
<1>2. r \in EnvelopeRecord /\ r.status = "AWAITING_APPROVAL" /\ r.selection = case.selection
  BY BuiltFacts DEF EnvelopeRecord, Researches, OutreachAssumption
<1>3. /\ Staled(envelopes, case.envelope) \in [Envelopes -> EnvelopeRecord]
      /\ \A f \in Envelopes :
            Staled(envelopes, case.envelope)[f] \in {envelopes[f], Stale(envelopes[f])}
  BY BuiltFacts, StaledOk, StaleRecords
<1>. HIDE DEF r
<1>4. /\ envelopes' \in [Envelopes -> EnvelopeRecord] /\ envelopes'[e] = r
      /\ \A f \in Envelopes \ {e} : envelopes'[f] \in {envelopes[f], Stale(envelopes[f])}
  BY <1>1, <1>2, <1>3
<1>5. ASSUME NEW f \in Envelopes, envelopes[f].status # "absent"
      PROVE  envelopes'[f].status # "absent"
  <2>1. f # e /\ envelopes[f] \in EnvelopeRecord
    BY <1>1, <1>5, BuiltFacts
  <2>. QED BY <1>4, <1>5, <2>1, StaleRecords
<1>6. \A v \in Runs : runs[v].status # "absent" => runs[v].envelope # e
  BY <1>1, BuiltFacts DEF RunOk
<1>. QED BY <1>1, <1>2, <1>4, <1>5, <1>6, EnvelopeStep

(* Its approval: it waited for one, so that no run has been made from it.    *)
LEMMA ApproveEnvelopeInv ==
    ASSUME VoiceInv, ApproveEnvelope
    PROVE  VoiceInv'
<1>1. PICK e \in Envelopes : e = case.envelope
  BY BuiltFacts DEF ApproveEnvelope
<1>2. /\ envelopes[e].status = "AWAITING_APPROVAL"
      /\ envelopes' = [envelopes EXCEPT ![e].status = "APPROVED"]
      /\ UNCHANGED case /\ UNCHANGED research /\ UNCHANGED <<selections, drafts, runs>>
      /\ UNCHANGED voice
  BY <1>1 DEF ApproveEnvelope, voice
<1>3. case' = [case EXCEPT !.envelope = e]
  BY <1>1, <1>2, BuiltFacts DEF Pointers
<1>4. PreviewOk(envelopes[e])
  BY <1>1, BuiltFacts DEF PreviewsOk, Envelopes
<1>5. /\ envelopes' \in [Envelopes -> EnvelopeRecord]
      /\ envelopes'[e].status = "APPROVED" /\ envelopes'[e].selection = envelopes[e].selection
      /\ \A f \in Envelopes : envelopes[f].status # "absent" => envelopes'[f].status # "absent"
  BY <1>2, BuiltFacts DEF EnvelopeRecord
<1>6. \A v \in Runs : runs[v].status # "absent" => runs[v].envelope # e
  BY <1>1, <1>2, BuiltFacts DEF RunOk, IsActive
<1>7. NoActiveRun
  BY <1>1, <1>2, BuiltFacts DEF RunOk, IsActive, NoActiveRun
<1>. QED BY <1>2, <1>3, <1>4, <1>5, <1>6, <1>7, EnvelopeStep DEF PreviewOk

(* Choosing a contact: the one selected already, or another, for which a new *)
(* selection is made; the others are purged either way.                      *)
LEMMA SelectContactInv ==
    ASSUME OutreachAssumption, VoiceInv, NEW c \in Contacts, SelectContact(c), UNCHANGED voice
    PROVE  VoiceInv'
<1>1. PICK r \in Researches : r = case.research
  BY ResearchFacts DEF SelectContact
<1>2. /\ NoActiveRun /\ researches[r].status = "READY" /\ cached' = cached \ {r}
      /\ UNCHANGED <<previews, geocodes, search, runs, worker, sessions, cleanup, closing>>
  BY <1>1 DEF SelectContact, Purged, voice
<1>3. CASE UNCHANGED <<case, researches, selections, drafts, envelopes>>
  <2>1. SearchesOk' /\ SelectionOk'
    BY <1>2, <1>3, ResearchFacts DEF SearchesOk, SelectionOk
  <2>2. cached' \subseteq Researches /\ researches' \in [Researches -> ResearchRecord]
    BY <1>2, <1>3, ResearchFacts
  <2>3. /\ previews' \in [Previews -> [status : {"absent", "PENDING", "AWAITING_CONFIRMATION",
                                                "CONFIRMED", "STALE", "FAILED"}]]
        /\ geocodes' \subseteq Previews
        /\ search' \in [Researches -> {"none", "invoked", "searching", "storing", "committing", "over"}]
    BY <1>2, ResearchFacts
  <2>. QED BY <1>2, <1>3, <2>1, <2>2, <2>3, ResearchStep
<1>4. ASSUME NEW s \in Researches,
             selections' = [selections EXCEPT ![s] =
                               [status |-> "SELECTED", research |-> r, contact |-> c]],
             case' = [case EXCEPT !.selection = s, !.draft = 0, !.envelope = 0],
             researches' = [researches EXCEPT ![r].chosen = c],
             drafts' = Staled(drafts, case.draft), envelopes' = Staled(envelopes, case.envelope)
      PROVE  VoiceInv'
  <2>1. /\ case' \in Pointers /\ case'.selection = s /\ case'.draft = 0 /\ case'.envelope = 0
        /\ case'.research = r /\ case'.run = case.run
    <3>1. 0 \in 0..MaxDrafts /\ 0 \in 0..MaxEnvelopes /\ s \in 0..MaxResearches
      BY DEF OutreachAssumption, Researches
    <3>2. case' \in Pointers
      BY <1>4, <3>1, BuiltFacts DEF Pointers
    <3>3. case \in Pointers
      BY BuiltFacts
    <3>4. case'.selection = s /\ case'.draft = 0 /\ case'.envelope = 0
      BY <1>4, <3>3 DEF Pointers
    <3>5. case'.research = case.research /\ case'.run = case.run
      BY <1>4, <3>3 DEF Pointers
    <3>. QED BY <1>1, <3>2, <3>4, <3>5
  <2>2. /\ selections' \in [Researches -> SelectionRecord]
        /\ selections'[s].status = "SELECTED" /\ selections'[s].research = r
    BY <1>4, BuiltFacts DEF SelectionRecord, Researches
  <2>3. /\ researches' \in [Researches -> ResearchRecord]
        /\ \A q \in Researches : researches'[q].status = researches[q].status
    BY <1>4, ResearchFacts DEF ResearchRecord
  <2>4. drafts' \in [Drafts -> DraftRecord]
    BY <1>4, BuiltFacts, StaledOk, StaleRecords
  <2>5. /\ envelopes' \in [Envelopes -> EnvelopeRecord]
        /\ \A e \in Envelopes : envelopes'[e] \in {envelopes[e], Stale(envelopes[e])}
    BY <1>4, BuiltFacts, StaledOk, StaleRecords
  <2>6. TypeOK'
    BY <1>2, <2>1, <2>2, <2>3, <2>4, <2>5 DEF VoiceInv, TypeOK, Researches, Drafts, Envelopes
  <2>7. SearchesOk'
    BY <1>2, <2>3, ResearchFacts DEF SearchesOk
  <2>8. SelectionOk'
    BY <1>2, <2>1, <2>2, <2>3 DEF SelectionOk, Researches
  <2>9. PreviewsOk'
    BY <2>1 DEF PreviewsOk
  <2>10. ASSUME NEW v \in Runs PROVE RunOk(v)' /\ CaptionsOk(v)'
    <3>1. ASSUME runs[v].status # "absent"
          PROVE  /\ envelopes'[runs[v].envelope].status # "absent"
                 /\ case'.envelope # runs[v].envelope
      <4>1. runs[v].envelope # 0 /\ envelopes[runs[v].envelope].status # "absent"
        BY <3>1, BuiltFacts DEF RunOk
      <4>2. runs[v].envelope \in Envelopes
        BY <4>1, BuiltFacts DEF RunRecord, Envelopes
      <4>. QED BY <2>1, <2>5, <4>1, <4>2, BuiltFacts, StaleRecords
    <3>2. RunOk(v)'
      BY <1>2, <3>1, RunsRest
    <3>3. CaptionsOk(v)'
      BY <1>2, BuiltFacts DEF CaptionsOk
    <3>. QED BY <3>2, <3>3
  <2>. QED BY <2>6, <2>7, <2>8, <2>9, <2>10 DEF VoiceInv
<1>5. DOMAIN selections = Researches
  BY BuiltFacts
<1>. QED BY <1>1, <1>3, <1>4, <1>5 DEF SelectContact, Fresh

-------------------------------------------------------------------------------
(* Runs *)

(* The approved envelope gets its run: no other run has it.                  *)
LEMMA StartRunInv ==
    ASSUME OutreachAssumption, VoiceInv, NEW v \in Runs, StartRun(v)
    PROVE  VoiceInv'
<1>1. PICK e \in Envelopes : e = case.envelope
  BY BuiltFacts DEF StartRun
<1>. DEFINE r == [status |-> "GENERATING", envelope |-> e, played |-> FALSE, receipt |-> "none"]
<1>2. /\ runs[v].status = "absent" /\ ~HasRun(e)
      /\ envelopes[e].status \notin {"absent", "STALE"}
      /\ envelopes' = [envelopes EXCEPT ![e].status = "GENERATING", ![e].run = v]
      /\ runs' = [runs EXCEPT ![v] = r]
      /\ case' = [case EXCEPT !.run = v]
      /\ worker' = [worker EXCEPT ![v] = "invoked"]
      /\ UNCHANGED research /\ UNCHANGED <<selections, drafts, sessions, cleanup, closing>>
  BY <1>1 DEF StartRun, Fresh
<1>3. /\ case' \in Pointers /\ case'.run = v /\ case'.envelope = e /\ case'.selection = case.selection
      /\ case'.research = case.research /\ case'.draft = case.draft
  <2>1. v \in 0..MaxRuns /\ case \in Pointers
    BY BuiltFacts DEF OutreachAssumption, Runs
  <2>2. case' \in Pointers
    BY <1>2, <2>1 DEF Pointers
  <2>3. /\ case'.run = v /\ case'.envelope = case.envelope /\ case'.selection = case.selection
        /\ case'.research = case.research /\ case'.draft = case.draft
    BY <1>2, <2>1 DEF Pointers
  <2>. QED BY <1>1, <2>2, <2>3
<1>4. /\ envelopes' \in [Envelopes -> EnvelopeRecord]
      /\ envelopes'[e].status = "GENERATING" /\ envelopes'[e].run = v
      /\ envelopes'[e].selection = envelopes[e].selection
      /\ \A f \in Envelopes \ {e} : envelopes'[f] = envelopes[f]
  <2>. DEFINE f == [envelopes[e] EXCEPT !.status = "GENERATING", !.run = v]
  <2>1. envelopes[e] \in EnvelopeRecord /\ v \in 0..MaxRuns
    BY BuiltFacts DEF OutreachAssumption, Runs
  <2>2. /\ f \in EnvelopeRecord /\ f.status = "GENERATING" /\ f.run = v
        /\ f.selection = envelopes[e].selection
    BY <2>1 DEF EnvelopeRecord
  <2>3. envelopes' = [envelopes EXCEPT ![e] = f]
    BY <1>2, BuiltFacts
  <2>. HIDE DEF f, EnvelopeRecord
  <2>. QED BY <2>2, <2>3, BuiltFacts
<1>5. r \in RunRecord /\ r.status = "GENERATING" /\ r.envelope = e /\ r.receipt = "none"
  BY DEF RunRecord, Envelopes
<1>. HIDE DEF r
<1>6. /\ runs' \in [Runs -> RunRecord] /\ runs'[v] = r
      /\ \A u \in Runs \ {v} : runs'[u] = runs[u]
  BY <1>2, <1>5, BuiltFacts
<1>7. /\ worker' \in [Runs -> {"none", "invoked", "generating", "scheduling", "storing",
                               "committing", "failing", "over"}]
      /\ worker'[v] = "invoked" /\ \A u \in Runs \ {v} : worker'[u] = worker[u]
  BY <1>2 DEF VoiceInv, TypeOK, Runs
<1>8. TypeOK'
  BY <1>2, <1>3, <1>4, <1>6, <1>7 DEF VoiceInv, TypeOK, research, Envelopes, Runs
<1>9. SearchesOk' /\ SelectionOk' /\ PreviewsOk'
  BY <1>1, <1>2, <1>3, <1>4
     DEF VoiceInv, SearchesOk, SelectionOk, PreviewsOk, PreviewOk, research, Envelopes
<1>10. ASSUME NEW u \in Runs, runs[u].status # "absent"
       PROVE  ~IsActive(u) /\ runs[u].envelope # e
  <2>1. RunOk(u)
    BY BuiltFacts
  <2>2. ~IsActive(u)
    BY <1>1, <1>2, <2>1 DEF RunOk, IsActive, HasRun
  <2>. QED BY <1>1, <1>10, <2>1, <2>2 DEF RunOk
<1>11. ASSUME NEW u \in Runs PROVE RunOk(u)' /\ CaptionsOk(u)'
  <2>1. CASE u = v
    <3>1. RunOk(v)'
      BY <1>3, <1>4, <1>5, <1>6 DEF RunOk, IsActive, Runs, Envelopes
    <3>2. CaptionsOk(v)'
      BY <1>2, <1>5, <1>6, <1>7, BuiltFacts DEF CaptionsOk
    <3>. QED BY <2>1, <3>1, <3>2
  <2>2. CASE u # v
    <3>1. RunOk(u)'
      <4>1. CASE runs[u].status = "absent"
        BY <1>6, <2>2, <4>1, BuiltFacts DEF RunOk, IsActive
      <4>2. CASE runs[u].status # "absent"
        <5>1. ~IsActive(u) /\ runs[u].envelope # e /\ RunOk(u) /\ runs[u].envelope \in Envelopes
          BY <1>10, <4>2, BuiltFacts DEF RunOk, RunRecord, Envelopes
        <5>. QED BY <1>3, <1>4, <1>6, <2>2, <5>1 DEF RunOk, IsActive
      <4>. QED BY <4>1, <4>2
    <3>2. CaptionsOk(u)'
      BY <1>2, <1>6, <1>7, <2>2, BuiltFacts DEF CaptionsOk
    <3>. QED BY <3>1, <3>2
  <2>. QED BY <2>1, <2>2
<1>. QED BY <1>8, <1>9, <1>11 DEF VoiceInv

(* scrub_voice_outcome: the run is over, its envelope no longer current, and *)
(* no other run is touched.                                                  *)
LEMMA EndedOk ==
    ASSUME OutreachAssumption, VoiceInv, NEW v \in Runs, runs[v].status # "absent",
           NEW status \in {"FAILED", "COMPLETED", "ENDED", "INTERRUPTED"},
           NEW receipt \in {"none", status}, receipt # "FAILED", Ended(v, status, receipt)
    PROVE  /\ case' \in Pointers /\ runs' \in [Runs -> RunRecord]
           /\ envelopes' \in [Envelopes -> EnvelopeRecord]
           /\ case'.selection = case.selection /\ case'.research = case.research
           /\ UNCHANGED drafts => PreviewsOk'
           /\ \A u \in Runs : RunOk(u)'
           /\ \A u \in Runs : runs'[u].status = "absent" <=> runs[u].status = "absent"
           /\ \A u \in Runs \ {v} : runs'[u] = runs[u]
           /\ runs'[v].status = status /\ runs'[v].receipt = receipt
<1>1. PICK e \in Envelopes : e = runs[v].envelope
  BY BuiltFacts DEF RunOk, RunRecord, Envelopes
<1>. DEFINE r == [runs[v] EXCEPT !.status = status, !.played = FALSE, !.receipt = receipt]
            f == [envelopes[e] EXCEPT !.status = status, !.run = 0]
<1>2. /\ r \in RunRecord /\ r.status = status /\ r.receipt = receipt /\ r.envelope = e
  <2>1. runs[v] \in RunRecord
    BY BuiltFacts
  <2>. QED BY <1>1, <2>1 DEF RunRecord
<1>3. f \in EnvelopeRecord /\ f.status = status /\ f.selection = envelopes[e].selection
  <2>1. envelopes[e] \in EnvelopeRecord /\ 0 \in 0..MaxRuns
    BY BuiltFacts DEF OutreachAssumption
  <2>. QED BY <2>1 DEF EnvelopeRecord
<1>4. /\ runs' = [runs EXCEPT ![v] = r] /\ envelopes' = [envelopes EXCEPT ![e] = f]
      /\ case' = [case EXCEPT !.envelope = IF case.envelope = e THEN 0 ELSE case.envelope]
  BY <1>1 DEF Ended
<1>. HIDE DEF r, f
<1>5. /\ runs' \in [Runs -> RunRecord] /\ runs'[v] = r
      /\ \A u \in Runs \ {v} : runs'[u] = runs[u]
  BY <1>2, <1>4, BuiltFacts
<1>6. /\ envelopes' \in [Envelopes -> EnvelopeRecord] /\ envelopes'[e] = f
      /\ \A g \in Envelopes \ {e} : envelopes'[g] = envelopes[g]
  BY <1>3, <1>4, BuiltFacts
<1>7. /\ case' \in Pointers /\ case'.selection = case.selection /\ case'.research = case.research
      /\ case'.draft = case.draft /\ case'.run = case.run
      /\ case'.envelope = IF case.envelope = e THEN 0 ELSE case.envelope
  <2>1. case \in Pointers /\ 0 \in 0..MaxEnvelopes
    BY BuiltFacts DEF OutreachAssumption
  <2>2. case' \in Pointers
    BY <1>4, <2>1 DEF Pointers
  <2>3. case'.envelope = IF case.envelope = e THEN 0 ELSE case.envelope
    BY <1>4, <2>1 DEF Pointers
  <2>4. /\ case'.selection = case.selection /\ case'.research = case.research
        /\ case'.draft = case.draft /\ case'.run = case.run
    BY <1>4, <2>1 DEF Pointers
  <2>. QED BY <2>2, <2>3, <2>4
<1>8. UNCHANGED drafts => PreviewsOk'
  <2>1. case'.envelope # 0 => case'.envelope = case.envelope /\ envelopes'[case.envelope] = envelopes[case.envelope]
    BY <1>6, <1>7, BuiltFacts
  <2>. QED BY <1>7, <2>1, BuiltFacts DEF PreviewsOk, PreviewOk
<1>9. e # 0 /\ e # case'.envelope
  BY <1>7 DEF Envelopes
<1>10. RunOk(v)'
  BY <1>2, <1>3, <1>5, <1>6, <1>9 DEF RunOk, IsActive
<1>11. ASSUME NEW u \in Runs \ {v} PROVE RunOk(u)'
  <2>. DEFINE g == runs[u].envelope
  <2>1. RunOk(u) /\ RunOk(v) /\ runs'[u] = runs[u]
    BY <1>5, BuiltFacts
  <2>2. CASE runs[u].status = "absent"
    BY <2>1, <2>2 DEF RunOk, IsActive
  <2>3. CASE runs[u].status # "absent"
    <3>1. g \in Envelopes /\ g # 0 /\ envelopes[g].status # "absent"
      BY <2>1, <2>3, BuiltFacts DEF RunOk, RunRecord, Envelopes
    <3>2. envelopes'[g].status # "absent"
      BY <1>3, <1>6, <3>1
    <3>3. g = case'.envelope => IsActive(u)
      BY <1>7, <2>1, <2>3, <3>1 DEF RunOk
    <3>4. IsActive(u) => u = case'.run /\ g = case'.envelope /\ g # e
      BY <1>1, <1>7, <2>1 DEF RunOk
    <3>5. IsActive(u) => envelopes'[g].run = u /\ envelopes'[g].status = runs[u].status
      BY <1>6, <2>1, <3>1, <3>4 DEF RunOk
    <3>6. IsActive(u)' <=> IsActive(u)
      BY <2>1 DEF IsActive
    <3>. QED BY <2>1, <3>1, <3>2, <3>3, <3>4, <3>5, <3>6 DEF RunOk
  <2>. QED BY <2>2, <2>3
<1>12. \A u \in Runs : RunOk(u)'
  BY <1>10, <1>11
<1>13. \A u \in Runs : runs'[u].status = "absent" <=> runs[u].status = "absent"
  BY <1>2, <1>5
<1>. QED BY <1>2, <1>5, <1>6, <1>7, <1>8, <1>12, <1>13

(* What is left when a run has ended, or none has.                           *)
LEMMA EndStep ==
    ASSUME OutreachAssumption, VoiceInv,
           \/ UNCHANGED <<case, runs, envelopes>>
           \/ \E v \in Runs, status \in {"FAILED", "COMPLETED", "ENDED", "INTERRUPTED"} :
                 /\ runs[v].status # "absent"
                 /\ \E receipt \in {"none", status} \ {"FAILED"} : Ended(v, status, receipt),
           UNCHANGED <<previews, geocodes, search, selections, drafts, sessions>>,
           researches' \in [Researches -> ResearchRecord], cached' \subseteq cached,
           \A r \in Researches : researches'[r].status \in {"READY", "EXPIRED"} <=>
                                     researches[r].status \in {"READY", "EXPIRED"},
           worker' \in [Runs -> {"none", "invoked", "generating", "scheduling", "storing",
                                 "committing", "failing", "over"}],
           cleanup' \in [Runs -> {"none", "scheduled", "purging", "over", "failed"}],
           closing' \subseteq Runs,
           \A v \in Runs : (runs'[v].status = "absent" <=> runs[v].status = "absent") => CaptionsOk(v)'
    PROVE  VoiceInv'
<1>1. /\ case' \in Pointers /\ runs' \in [Runs -> RunRecord]
      /\ envelopes' \in [Envelopes -> EnvelopeRecord]
      /\ case'.selection = case.selection /\ case'.research = case.research
      /\ PreviewsOk' /\ (\A v \in Runs : RunOk(v)')
      /\ \A v \in Runs : runs'[v].status = "absent" <=> runs[v].status = "absent"
  <2>1. CASE UNCHANGED <<case, runs, envelopes>>
    BY <2>1, BuiltFacts DEF PreviewsOk, PreviewOk, RunOk, IsActive
  <2>2. ASSUME NEW v \in Runs, NEW status \in {"FAILED", "COMPLETED", "ENDED", "INTERRUPTED"},
               runs[v].status # "absent",
               NEW receipt \in {"none", status} \ {"FAILED"}, Ended(v, status, receipt)
        PROVE  <1>1!:
    BY <2>2, EndedOk
  <2>. QED BY <2>1, <2>2
<1>2. TypeOK'
  BY <1>1 DEF VoiceInv, TypeOK, Researches, Envelopes, Runs
<1>3. SearchesOk'
  BY ResearchFacts DEF SearchesOk
<1>4. SelectionOk'
  BY <1>1, ResearchFacts DEF SelectionOk
<1>. QED BY <1>1, <1>2, <1>3, <1>4 DEF VoiceInv

(* The moves of a worker have the types they should.                         *)
LEMMA GotoOk ==
    ASSUME VoiceInv, NEW v \in Runs,
           NEW pc \in {"none", "invoked", "generating", "scheduling", "storing",
                       "committing", "failing", "over"}, Goto(v, pc)
    PROVE  /\ worker' \in [Runs -> {"none", "invoked", "generating", "scheduling", "storing",
                                    "committing", "failing", "over"}]
           /\ worker'[v] = pc /\ \A u \in Runs \ {v} : worker'[u] = worker[u]
  BY DEF VoiceInv, TypeOK, Goto, Runs

(* fail_voice_generation                                                     *)
LEMMA FailRunInv ==
    ASSUME OutreachAssumption, VoiceInv, NEW v \in Runs, FailRun(v)
    PROVE  VoiceInv'
<1>1. /\ Goto(v, "over") /\ worker[v] # "none"
      /\ UNCHANGED <<previews, geocodes, search, selections, drafts, sessions>>
      /\ UNCHANGED <<researches, cached, cleanup>>
      /\ closing' \in {closing, closing \cup {v}}
  BY DEF FailRun, research
<1>2. \/ UNCHANGED <<case, runs, envelopes>>
      \/ runs[v].status # "absent" /\ Ended(v, "FAILED", "none")
  BY DEF FailRun
<1>3. ASSUME NEW u \in Runs, runs'[u].status = "absent" <=> runs[u].status = "absent"
      PROVE  CaptionsOk(u)'
  <2>1. CaptionsOk(u) /\ CaptionsOk(v)
    BY BuiltFacts
  <2>. QED BY <1>1, <1>3, <2>1, GotoOk DEF CaptionsOk
<1>4. closing' \subseteq Runs /\ cleanup' \in [Runs -> {"none", "scheduled", "purging", "over", "failed"}]
  BY <1>1 DEF VoiceInv, TypeOK, Runs
<1>. QED BY <1>1, <1>2, <1>3, <1>4, GotoOk, ResearchFacts, EndStep

(* end_voice_simulation                                                      *)
LEMMA EndRunInv ==
    ASSUME OutreachAssumption, VoiceInv, NEW v \in Runs, EndRun(v)
    PROVE  VoiceInv'
<1>1. /\ runs[v].status # "absent" /\ closing' = closing \cup {v}
      /\ UNCHANGED <<previews, geocodes, search, selections, drafts, sessions>>
      /\ UNCHANGED <<researches, cached, cleanup, worker>>
  BY DEF EndRun, research
<1>2. PICK status \in {"COMPLETED", "ENDED", "INTERRUPTED"} : Ended(v, status, status)
  <2>1. runs[v].receipt \in {"none", "COMPLETED", "ENDED", "INTERRUPTED"}
    BY BuiltFacts DEF RunRecord
  <2>. QED BY <2>1 DEF EndRun, HasReceipt
<1>3. ASSUME NEW u \in Runs, runs'[u].status = "absent" <=> runs[u].status = "absent"
      PROVE  CaptionsOk(u)'
  BY <1>1, <1>3, BuiltFacts DEF CaptionsOk
<1>4. /\ closing' \subseteq Runs /\ cleanup' \in [Runs -> {"none", "scheduled", "purging", "over", "failed"}]
      /\ worker' \in [Runs -> {"none", "invoked", "generating", "scheduling", "storing",
                               "committing", "failing", "over"}]
  BY <1>1 DEF VoiceInv, TypeOK, Runs
<1>. QED BY <1>1, <1>2, <1>3, <1>4, ResearchFacts, EndStep

(* expire_voice_run                                                          *)
LEMMA ExpireRunInv ==
    ASSUME OutreachAssumption, VoiceInv, NEW v \in Runs, ExpireRun(v)
    PROVE  VoiceInv'
<1>1. /\ cleanup' = [cleanup EXCEPT ![v] = "purging"] /\ worker[v] = "over"
      /\ UNCHANGED <<previews, geocodes, search, selections, drafts, sessions>>
      /\ UNCHANGED <<researches, cached, worker, closing>>
  BY DEF ExpireRun, At, research
<1>2. \/ UNCHANGED <<case, runs, envelopes>>
      \/ runs[v].status # "absent" /\ Ended(v, "INTERRUPTED", "INTERRUPTED")
  BY DEF ExpireRun, IsActive
<1>3. /\ closing' \subseteq Runs
      /\ cleanup' \in [Runs -> {"none", "scheduled", "purging", "over", "failed"}]
      /\ cleanup'[v] = "purging" /\ \A u \in Runs \ {v} : cleanup'[u] = cleanup[u]
      /\ worker' \in [Runs -> {"none", "invoked", "generating", "scheduling", "storing",
                               "committing", "failing", "over"}]
  BY <1>1 DEF VoiceInv, TypeOK, Runs
<1>4. ASSUME NEW u \in Runs, runs'[u].status = "absent" <=> runs[u].status = "absent"
      PROVE  CaptionsOk(u)'
  BY <1>1, <1>3, <1>4, BuiltFacts DEF CaptionsOk
<1>. QED BY <1>1, <1>2, <1>3, <1>4, ResearchFacts, EndStep

(* outreach_snapshot                                                         *)
LEMMA SnapshotInv ==
    ASSUME OutreachAssumption, VoiceInv, Snapshot
    PROVE  VoiceInv'
<1>1. /\ UNCHANGED <<previews, geocodes, search, selections, drafts, sessions, worker, cleanup>>
      /\ cached' \subseteq cached
  BY DEF Snapshot
<1>2. /\ researches' \in [Researches -> ResearchRecord]
      /\ \A r \in Researches : researches'[r].status \in {"READY", "EXPIRED"} <=>
                                   researches[r].status \in {"READY", "EXPIRED"}
  <2>1. case.research # 0 => case.research \in Researches
    BY ResearchFacts
  <2>2. \/ UNCHANGED researches
        \/ \E r \in Researches : /\ researches[r].status = "PENDING"
                                 /\ researches' = Scrubbed(r, "FAILED")
        \/ \E r \in Researches : /\ researches[r].status = "READY"
                                 /\ researches' = Scrubbed(r, "EXPIRED")
    BY <2>1 DEF Snapshot
  <2>. QED BY <1>1, <2>2, ScrubStep
<1>3. \/ UNCHANGED <<case, runs, envelopes>>
      \/ \E v \in Runs : runs[v].status # "absent" /\ Ended(v, "FAILED", "none")
  BY BuiltFacts DEF Snapshot
<1>4. /\ closing' \subseteq Runs
      /\ cleanup' \in [Runs -> {"none", "scheduled", "purging", "over", "failed"}]
      /\ worker' \in [Runs -> {"none", "invoked", "generating", "scheduling", "storing",
                               "committing", "failing", "over"}]
  <2>1. closing \subseteq Runs /\ (case.run # 0 => case.run \in Runs)
    BY BuiltFacts DEF VoiceInv, TypeOK, Runs
  <2>2. closing' \subseteq Runs
    BY <2>1 DEF Snapshot
  <2>. QED BY <1>1, <2>2 DEF VoiceInv, TypeOK, Runs
<1>5. ASSUME NEW u \in Runs, runs'[u].status = "absent" <=> runs[u].status = "absent"
      PROVE  CaptionsOk(u)'
  BY <1>1, <1>5, BuiltFacts DEF CaptionsOk
<1>. QED BY <1>1, <1>2, <1>3, <1>4, <1>5, EndStep

-------------------------------------------------------------------------------
(* The worker and the cleanup of a run *)

(* An active run moves on, as r, and its envelope with it, as f.             *)
Moves(v, e, r, f) ==
    /\ IsActive(v) /\ e = runs[v].envelope
    /\ runs' = [runs EXCEPT ![v] = r] /\ envelopes' = [envelopes EXCEPT ![e] = f]
    /\ r.status \in {"GENERATING", "RUNNING"} /\ r.envelope = e /\ r.receipt = runs[v].receipt
    /\ f.status = r.status /\ f.run = envelopes[e].run /\ f.selection = envelopes[e].selection

(* The envelope of an active run is the current one, and nothing else moves. *)
LEMMA RunStep ==
    ASSUME VoiceInv, NEW v \in Runs, NEW e \in Envelopes,
           NEW r \in RunRecord, NEW f \in EnvelopeRecord, Moves(v, e, r, f),
           UNCHANGED research, UNCHANGED <<case, selections, drafts, sessions, cleanup, closing>>,
           worker' \in [Runs -> {"none", "invoked", "generating", "scheduling", "storing",
                                 "committing", "failing", "over"}],
           worker'[v] \in {worker[v], "over"},
           \A u \in Runs \ {v} : worker'[u] = worker[u]
    PROVE  VoiceInv'
<1>1. RunOk(v) /\ e = case.envelope /\ v = case.run /\ runs[v].status # "absent"
  BY BuiltFacts DEF RunOk, IsActive, Moves
<1>2. /\ runs' \in [Runs -> RunRecord] /\ runs'[v] = r
      /\ \A u \in Runs \ {v} : runs'[u] = runs[u]
  BY BuiltFacts DEF Moves
<1>3. /\ envelopes' \in [Envelopes -> EnvelopeRecord] /\ envelopes'[e] = f
      /\ \A g \in Envelopes \ {e} : envelopes'[g] = envelopes[g]
  BY BuiltFacts DEF Moves
<1>4. TypeOK'
  BY <1>2, <1>3 DEF VoiceInv, TypeOK, research, Envelopes, Runs
<1>5. SearchesOk' /\ SelectionOk'
  BY ResearchFacts DEF SearchesOk, SelectionOk, research
<1>6. PreviewsOk'
  BY <1>1, <1>3, BuiltFacts DEF PreviewsOk, PreviewOk, Moves
<1>7. runs[v].receipt = "none"
  <2>1. runs[v] \in RunRecord
    BY BuiltFacts
  <2>. QED BY <1>1, <2>1 DEF RunOk, IsActive, RunRecord, Moves
<1>8. RunOk(v)'
  BY <1>1, <1>2, <1>3, <1>7 DEF RunOk, IsActive, Envelopes, Moves
<1>9. ASSUME NEW u \in Runs \ {v} PROVE RunOk(u)'
  <2>1. RunOk(u) /\ runs'[u] = runs[u] /\ ~IsActive(u) /\ ~IsActive(u)'
    BY <1>1, <1>2, BuiltFacts DEF RunOk, IsActive, Moves
  <2>2. CASE runs[u].status = "absent"
    BY <2>1, <2>2 DEF RunOk
  <2>3. CASE runs[u].status # "absent"
    <3>1. runs[u].envelope \in Envelopes \ {e} /\ envelopes[runs[u].envelope].status # "absent"
      BY <1>1, <2>1, <2>3, BuiltFacts DEF RunOk, Moves, RunRecord, Envelopes
    <3>. QED BY <1>1, <1>3, <2>1, <3>1 DEF RunOk, Envelopes
  <2>. QED BY <2>2, <2>3
<1>10. ASSUME NEW u \in Runs PROVE CaptionsOk(u)'
  <2>1. CaptionsOk(u)
    BY BuiltFacts
  <2>2. CASE u = v
    BY <1>1, <1>2, <2>1, <2>2 DEF CaptionsOk, Moves
  <2>3. CASE u # v
    BY <1>2, <2>1, <2>3 DEF CaptionsOk
  <2>. QED BY <2>2, <2>3
<1>. QED BY <1>4, <1>5, <1>6, <1>8, <1>9, <1>10 DEF VoiceInv

(* The worker commits its captions: the run starts, or it deletes them, or   *)
(* it begins again.                                                          *)
LEMMA CommitRunInv ==
    ASSUME VoiceInv, NEW v \in Runs, CommitRun(v)
    PROVE  VoiceInv'
<1>1. /\ UNCHANGED research /\ UNCHANGED <<case, selections, drafts, cleanup, closing>>
      /\ worker[v] = "committing"
  BY DEF CommitRun, At
<1>2. CASE /\ StillGenerating(v)
           /\ runs' = [runs EXCEPT ![v].status = "RUNNING"]
           /\ envelopes' = [envelopes EXCEPT ![runs[v].envelope].status = "RUNNING"]
           /\ Goto(v, "over") /\ UNCHANGED sessions
  <2>1. IsActive(v)
    BY <1>2 DEF StillGenerating, IsActive, Runs
  <2>2. PICK e \in Envelopes : e = runs[v].envelope
    BY <2>1, BuiltFacts DEF RunOk, RunRecord, Envelopes, IsActive
  <2>. DEFINE r == [runs[v] EXCEPT !.status = "RUNNING"]
              f == [envelopes[e] EXCEPT !.status = "RUNNING"]
  <2>3. runs' = [runs EXCEPT ![v] = r] /\ envelopes' = [envelopes EXCEPT ![e] = f]
    BY <1>2, <2>2
  <2>4. r \in RunRecord /\ r.status = "RUNNING" /\ r.envelope = e /\ r.receipt = runs[v].receipt
    <3>1. runs[v] \in RunRecord
      BY BuiltFacts
    <3>. QED BY <2>2, <3>1 DEF RunRecord
  <2>5. /\ f \in EnvelopeRecord /\ f.status = "RUNNING" /\ f.run = envelopes[e].run
        /\ f.selection = envelopes[e].selection
    <3>1. envelopes[e] \in EnvelopeRecord
      BY BuiltFacts
    <3>. QED BY <3>1 DEF EnvelopeRecord
  <2>. HIDE DEF r, f
  <2>6. PICK q \in RunRecord, g \in EnvelopeRecord : q = r /\ g = f
    BY <2>4, <2>5
  <2>7. Moves(v, e, q, g)
    BY <2>1, <2>2, <2>3, <2>4, <2>5, <2>6 DEF Moves
  <2>8. UNCHANGED <<case, selections, drafts, sessions, cleanup, closing>>
    BY <1>1, <1>2
  <2>. QED BY <1>1, <1>2, <2>7, <2>8, GotoOk, RunStep
<1>3. CASE \E pc \in {"failing", "generating"} :
              /\ Goto(v, pc) /\ sessions' \in {sessions, sessions \ {v}}
              /\ UNCHANGED <<runs, envelopes>>
  <2>1. PICK pc \in {"failing", "generating"} :
              /\ Goto(v, pc) /\ sessions' \in {sessions, sessions \ {v}}
              /\ UNCHANGED <<runs, envelopes>>
    BY <1>3
  <2>2. UNCHANGED outreach
    BY <1>1, <2>1 DEF outreach, research
  <2>3. ASSUME NEW u \in Runs PROVE CaptionsOk(u)'
    <3>1. CaptionsOk(u)
      BY BuiltFacts
    <3>. QED BY <1>1, <2>1, <3>1, GotoOk DEF CaptionsOk
  <2>4. sessions' \subseteq Runs /\ closing' \subseteq Runs
        /\ cleanup' \in [Runs -> {"none", "scheduled", "purging", "over", "failed"}]
    BY <1>1, <2>1 DEF VoiceInv, TypeOK, Runs
  <2>. QED BY <2>1, <2>2, <2>3, <2>4, GotoOk, WorkerStep
<1>. QED BY <1>2, <1>3 DEF CommitRun

(* The last turn has been played.                                            *)
LEMMA PlayTurnsInv ==
    ASSUME VoiceInv, NEW v \in Runs, PlayTurns(v)
    PROVE  VoiceInv'
<1>1. /\ runs[v].status = "RUNNING" /\ runs' = [runs EXCEPT ![v].played = TRUE]
      /\ UNCHANGED research
      /\ UNCHANGED <<case, selections, drafts, envelopes, worker, sessions, cleanup, closing>>
  BY DEF PlayTurns
<1>2. IsActive(v)
  BY <1>1 DEF IsActive, Runs
<1>3. PICK e \in Envelopes : e = runs[v].envelope
  BY <1>1, BuiltFacts DEF RunOk, RunRecord, Envelopes
<1>. DEFINE r == [runs[v] EXCEPT !.played = TRUE]
<1>4. /\ r \in RunRecord /\ r.status = "RUNNING" /\ r.envelope = e /\ r.receipt = runs[v].receipt
  <2>1. runs[v] \in RunRecord
    BY BuiltFacts
  <2>. QED BY <1>1, <1>3, <2>1 DEF RunRecord
<1>5. runs' = [runs EXCEPT ![v] = r]
  BY <1>1
<1>. HIDE DEF r
<1>6. PICK q \in RunRecord, g \in EnvelopeRecord : q = r /\ g = envelopes[e]
  BY <1>3, <1>4, BuiltFacts
<1>7. g.status = "RUNNING" /\ envelopes' = [envelopes EXCEPT ![e] = g]
  BY <1>1, <1>2, <1>3, <1>6, BuiltFacts DEF RunOk
<1>8. Moves(v, e, q, g)
  BY <1>2, <1>3, <1>4, <1>5, <1>6, <1>7 DEF Moves
<1>9. worker' \in [Runs -> {"none", "invoked", "generating", "scheduling", "storing",
                            "committing", "failing", "over"}]
  BY <1>1 DEF VoiceInv, TypeOK, Runs
<1>. QED BY <1>1, <1>8, <1>9, RunStep

(* What the worker, a command after its commit and the cleanup do outside    *)
(* the database.                                                             *)
LEMMA WorkerMovesInv ==
    ASSUME VoiceInv, NEW v \in Runs,
           \/ ClaimRun(v) \/ CheckRun(v) \/ ScheduleCleanup(v) \/ StoreSession(v) \/ StopWorker(v)
           \/ CloseSession(v) \/ StopClosing(v) \/ Purge(v)
    PROVE  VoiceInv'
<1>. DEFINE W == {"none", "invoked", "generating", "scheduling", "storing",
                  "committing", "failing", "over"}
            C == {"none", "scheduled", "purging", "over", "failed"}
<1>1. /\ worker \in [Runs -> W] /\ cleanup \in [Runs -> C]
      /\ sessions \subseteq Runs /\ closing \subseteq Runs
      /\ \A u \in Runs : CaptionsOk(u)
  BY DEF VoiceInv, TypeOK, Runs
<1>2. UNCHANGED outreach
  BY DEF ClaimRun, CheckRun, ScheduleCleanup, StoreSession, StopWorker, CloseSession, StopClosing, Purge
<1>3. UNCHANGED runs
  BY <1>2 DEF outreach
<1>4. /\ sessions' \subseteq Runs /\ closing' \subseteq Runs
  BY <1>1 DEF ClaimRun, CheckRun, ScheduleCleanup, StoreSession, StopWorker, CloseSession,
              StopClosing, Purge
<1>5. CASE ClaimRun(v) \/ CheckRun(v) \/ StopWorker(v)
  <2>1. PICK pc \in {"generating", "scheduling", "over"} : Goto(v, pc)
    BY <1>5 DEF ClaimRun, CheckRun, StopWorker
  <2>2. worker[v] # "none" /\ UNCHANGED <<sessions, cleanup>>
        /\ (pc # "over" => worker[v] # "over")
    BY <1>1, <1>5, <2>1, GotoOk DEF ClaimRun, CheckRun, StopWorker, At
  <2>3. \A u \in Runs : CaptionsOk(u)'
    BY <1>1, <1>3, <2>1, <2>2, GotoOk DEF CaptionsOk
  <2>. QED BY <1>1, <1>2, <1>4, <2>1, <2>2, <2>3, GotoOk, WorkerStep
<1>6. CASE ScheduleCleanup(v)
  <2>1. Goto(v, "storing") /\ worker[v] = "scheduling" /\ UNCHANGED sessions
        /\ cleanup' = [cleanup EXCEPT ![v] = IF cleanup[v] = "none" THEN "scheduled" ELSE cleanup[v]]
    BY <1>6 DEF ScheduleCleanup, Scheduled, At
  <2>2. cleanup[v] \in {"none", "scheduled"}
    BY <1>1, <2>1 DEF CaptionsOk
  <2>3. /\ cleanup' \in [Runs -> C] /\ cleanup'[v] = "scheduled"
        /\ \A u \in Runs \ {v} : cleanup'[u] = cleanup[u]
    BY <1>1, <2>1, <2>2
  <2>4. \A u \in Runs : CaptionsOk(u)'
    BY <1>1, <1>3, <2>1, <2>3, GotoOk DEF CaptionsOk
  <2>. QED BY <1>2, <1>4, <2>1, <2>3, <2>4, GotoOk, WorkerStep
<1>7. CASE StoreSession(v)
  <2>1. Goto(v, "committing") /\ worker[v] = "storing" /\ UNCHANGED cleanup
        /\ sessions' = sessions \cup {v}
    BY <1>7 DEF StoreSession, At
  <2>2. \A u \in Runs : CaptionsOk(u)'
    BY <1>1, <1>3, <2>1, GotoOk DEF CaptionsOk
  <2>. QED BY <1>1, <1>2, <1>4, <2>1, <2>2, GotoOk, WorkerStep
<1>8. CASE CloseSession(v) \/ StopClosing(v)
  <2>1. UNCHANGED <<worker, cleanup>> /\ sessions' \subseteq sessions
    BY <1>8 DEF CloseSession, StopClosing
  <2>2. \A u \in Runs : CaptionsOk(u)'
    BY <1>1, <1>3, <2>1 DEF CaptionsOk
  <2>. QED BY <1>1, <1>2, <1>4, <2>1, <2>2, WorkerStep
<1>9. CASE Purge(v)
  <2>1. PICK s \in {"over", "failed"} :
           /\ cleanup' = [cleanup EXCEPT ![v] = s] /\ cleanup[v] = "purging" /\ UNCHANGED worker
           /\ sessions' \subseteq sessions /\ (s = "over" => v \notin sessions')
    BY <1>9 DEF Purge
  <2>2. cleanup' \in [Runs -> C] /\ cleanup'[v] = s /\ \A u \in Runs \ {v} : cleanup'[u] = cleanup[u]
    BY <1>1, <2>1
  <2>3. \A u \in Runs : CaptionsOk(u)'
    BY <1>1, <1>3, <2>1, <2>2 DEF CaptionsOk
  <2>. QED BY <1>1, <1>2, <1>4, <2>1, <2>2, <2>3, WorkerStep
<1>. QED BY <1>5, <1>6, <1>7, <1>8, <1>9

-------------------------------------------------------------------------------
(* The specification *)

(* Nothing exists at first.                                                  *)
LEMMA InitInv ==
    ASSUME OutreachAssumption, Init
    PROVE  VoiceInv
<1>. /\ 0 \in 0..MaxPreviews /\ 0 \in 0..MaxResearches /\ 0 \in 0..MaxDrafts
     /\ 0 \in 0..MaxEnvelopes /\ 0 \in 0..MaxRuns
  BY DEF OutreachAssumption
<1>1. case \in Pointers /\ case.selection = 0 /\ case.draft = 0 /\ case.envelope = 0
  BY DEF Init, InitOutreach, Pointers
<1>2. /\ previews \in [Previews -> [status : {"absent", "PENDING", "AWAITING_CONFIRMATION",
                                              "CONFIRMED", "STALE", "FAILED"}]]
      /\ geocodes \subseteq Previews /\ cached \subseteq Researches
      /\ search \in [Researches -> {"none", "invoked", "searching", "storing", "committing", "over"}]
  BY DEF Init, InitOutreach, Previews, Researches
<1>3. /\ researches \in [Researches -> ResearchRecord]
      /\ \A r \in Researches : researches[r].status = "absent"
  BY DEF Init, InitOutreach, Researches, ResearchRecord
<1>4. selections \in [Researches -> SelectionRecord]
  BY DEF Init, InitOutreach, Researches, SelectionRecord
<1>5. drafts \in [Drafts -> DraftRecord]
  BY DEF Init, InitOutreach, Drafts, DraftRecord
<1>6. envelopes \in [Envelopes -> EnvelopeRecord]
  BY DEF Init, InitOutreach, Envelopes, EnvelopeRecord
<1>7. /\ runs \in [Runs -> RunRecord]
      /\ \A v \in Runs : runs[v].status = "absent" /\ runs[v].receipt = "none"
  BY DEF Init, InitOutreach, Runs, RunRecord
<1>8. /\ worker = [v \in Runs |-> "none"] /\ cleanup = [v \in Runs |-> "none"]
      /\ sessions = {} /\ closing = {}
  BY DEF Init, Runs
<1>9. TypeOK
  BY <1>1, <1>2, <1>3, <1>4, <1>5, <1>6, <1>7, <1>8
     DEF TypeOK, Previews, Researches, Drafts, Envelopes, Runs
<1>10. SearchesOk /\ SelectionOk /\ PreviewsOk
  BY <1>1, <1>3 DEF SearchesOk, SelectionOk, PreviewsOk
<1>11. ASSUME NEW v \in Runs PROVE RunOk(v) /\ CaptionsOk(v)
  BY <1>7, <1>8 DEF RunOk, IsActive, CaptionsOk
<1>. QED BY <1>9, <1>10, <1>11 DEF VoiceInv

(* The records of each kind are numbered as far as its bound.                *)
LEMMA Domains ==
    ASSUME VoiceInv
    PROVE  /\ DOMAIN previews = Previews /\ DOMAIN researches = Researches
           /\ DOMAIN drafts = Drafts /\ DOMAIN envelopes = Envelopes /\ DOMAIN runs = Runs
  BY ResearchFacts, BuiltFacts

(* Each step of the resident, of a worker, of the clock or of the cleanup.   *)
LEMMA NextInv ==
    ASSUME OutreachAssumption, VoiceInv, [Next]_vars
    PROVE  VoiceInv'
<1>1. CASE NextOutreach /\ UNCHANGED <<worker, sessions, cleanup, closing>>
  <2>1. UNCHANGED voice
    BY <1>1 DEF voice
  <2>2. CASE \E p \in Previews : StartPreview(p) \/ FinishPreview(p)
    BY <2>1, <2>2, StartPreviewInv, FinishPreviewInv
  <2>3. CASE \E r \in Researches : ContactResearch(r)
    BY <2>1, <2>3, ContactResearchInv
  <2>4. CASE \E r \in Researches :
                \/ ClaimSearch(r) \/ CheckResult(r) \/ StoreCandidates(r) \/ CommitResult(r)
                \/ FailResearch(r) \/ StopSearch(r)
    BY <2>1, <2>4, SearchInv
  <2>5. CASE \E r \in Researches : FailOverdue(r) \/ LoseCandidates(r)
    BY <2>1, <2>5, LossInv
  <2>6. CASE Reconcile
    BY <2>1, <2>6, ReconcileInv
  <2>7. CASE \E c \in Contacts : SelectContact(c)
    BY <2>1, <2>7, SelectContactInv
  <2>8. CASE (\E d \in Drafts : CreateDraft(d)) \/ ApproveDraft \/ RunEmail
    BY <2>1, <2>8, CreateDraftInv, DraftMovesInv
  <2>. QED BY <1>1, <2>2, <2>3, <2>4, <2>5, <2>6, <2>7, <2>8, Domains DEF NextOutreach
<1>2. CASE (\E e \in Envelopes : CreateEnvelope(e)) \/ ApproveEnvelope
  BY <1>2, CreateEnvelopeInv, ApproveEnvelopeInv
<1>3. ASSUME NEW v \in Runs,
             \/ StartRun(v) \/ CommitRun(v) \/ FailRun(v) \/ PlayTurns(v) \/ EndRun(v) \/ ExpireRun(v)
      PROVE  VoiceInv'
  BY <1>3, StartRunInv, CommitRunInv, FailRunInv, PlayTurnsInv, EndRunInv, ExpireRunInv
<1>4. ASSUME NEW v \in Runs,
             \/ ClaimRun(v) \/ CheckRun(v) \/ ScheduleCleanup(v) \/ StoreSession(v) \/ StopWorker(v)
             \/ CloseSession(v) \/ StopClosing(v) \/ Purge(v)
      PROVE  VoiceInv'
  BY <1>4, WorkerMovesInv
<1>5. CASE Snapshot
  BY <1>5, SnapshotInv
<1>6. CASE UNCHANGED vars
  <2>1. UNCHANGED outreach /\ UNCHANGED <<worker, sessions, cleanup, closing>>
    BY <1>6 DEF vars
  <2>. QED BY <2>1 DEF outreach, VoiceInv, TypeOK, SearchesOk, SelectionOk, PreviewsOk, PreviewOk,
                       RunOk, IsActive, CaptionsOk
<1>. QED BY <1>1, <1>2, <1>3, <1>4, <1>5, <1>6, Domains DEF Next

(* The invariant holds of every behaviour.                                   *)
THEOREM VoiceInvariance == ASSUME OutreachAssumption PROVE Spec => []VoiceInv
<1>1. Init => VoiceInv
  BY InitInv
<1>2. VoiceInv /\ [Next]_vars => VoiceInv'
  BY NextInv
<1>. QED BY <1>1, <1>2, PTL DEF Spec

(* Every record, pointer, worker and cleanup stays of its type.              *)
THEOREM TypeCorrect == ASSUME OutreachAssumption PROVE Spec => []TypeOK
<1>1. VoiceInv => TypeOK
  BY DEF VoiceInv
<1>. QED BY <1>1, VoiceInvariance, PTL

(* Once a contact is selected, the temporary table does not hold the list it *)
(* was selected from (select_contact purges, and no worker of that research  *)
(* is left that could store one again).                                      *)
THEOREM SelectionHides == ASSUME OutreachAssumption PROVE Spec => []SelectionHidesCandidates
<1>1. VoiceInv => SelectionHidesCandidates
  BY DEF VoiceInv, SelectionOk, SelectionHidesCandidates
<1>. QED BY <1>1, VoiceInvariance, PTL

(* The draft and the envelope a case points at were made from the contact    *)
(* selected now, of the research it points at.                               *)
THEOREM PreviewsStayCurrent == ASSUME OutreachAssumption PROVE Spec => []PreviewsAreCurrent
<1>1. VoiceInv => PreviewsAreCurrent
  <2>1. SUFFICES ASSUME SelectionOk, PreviewsOk PROVE PreviewsAreCurrent
    BY DEF VoiceInv
  <2>2. ASSUME NEW record, PreviewOk(record)
        PROVE  /\ record.status # "STALE" /\ record.selection = case.selection
               /\ selections[case.selection].status = "SELECTED"
               /\ selections[case.selection].research = case.research
    BY <2>1, <2>2 DEF SelectionOk, PreviewOk
  <2>3. ASSUME NEW record \in {drafts[d] : d \in {case.draft} \ {0}}
                              \cup {envelopes[e] : e \in {case.envelope} \ {0}}
        PROVE  PreviewOk(record)
    BY <2>1, <2>3 DEF PreviewsOk
  <2>. QED BY <2>2, <2>3 DEF PreviewsAreCurrent
<1>. QED BY <1>1, VoiceInvariance, PTL

(* No two runs are active, and the one that is plays the envelope the        *)
(* resident approved (ensure_no_active_voice_run keeps everything else out). *)
THEOREM RunsAreCurrent == ASSUME OutreachAssumption PROVE Spec => []ActiveRunIsCurrent
<1>1. VoiceInv => ActiveRunIsCurrent
  <2>1. SUFFICES ASSUME VoiceInv, NEW v \in Runs, IsActive(v)
                 PROVE  /\ v = case.run /\ runs[v].envelope = case.envelope
                        /\ envelopes[case.envelope].run = v
                        /\ envelopes[case.envelope].status = runs[v].status
    BY Domains DEF ActiveRunIsCurrent
  <2>. QED BY <2>1, BuiltFacts DEF RunOk
<1>. QED BY <1>1, VoiceInvariance, PTL

(* Captions never outlive the cleanup that is to remove them, whichever      *)
(* worker or command stops where (start_voice_cleanup comes first).          *)
THEOREM CleanupComes == ASSUME OutreachAssumption PROVE Spec => []CaptionsHaveCleanup
<1>1. VoiceInv => CaptionsHaveCleanup
  <2>1. SUFFICES ASSUME VoiceInv, NEW v \in sessions
                 PROVE  cleanup[v] \in {"scheduled", "purging", "failed"}
    BY DEF CaptionsHaveCleanup
  <2>2. v \in Runs
    BY <2>1 DEF VoiceInv, TypeOK, Runs
  <2>. QED BY <2>1, <2>2, BuiltFacts DEF CaptionsOk
<1>. QED BY <1>1, VoiceInvariance, PTL

(* An end, or a step of a run that is not over, leaves the receipts of the   *)
(* others alone; a run that has one is only ended as its receipt says.       *)
LEMMA ReceiptKept ==
    ASSUME VoiceInv, NEW v \in Runs, runs[v].receipt # "none", NEW w \in Runs, NEW r,
           runs' = [runs EXCEPT ![w] = r],
           \/ runs[w].status \in {"absent", "GENERATING", "RUNNING"} \/ runs[w].receipt = "none"
           \/ r.status = runs[w].receipt /\ r.receipt = runs[w].receipt
    PROVE  runs'[v].receipt = runs[v].receipt /\ runs'[v].status = runs[v].receipt
<1>1. /\ runs \in [Runs -> RunRecord] /\ runs[v].status = runs[v].receipt
      /\ runs[v].receipt \in {"COMPLETED", "ENDED", "INTERRUPTED"}
  <2>1. runs \in [Runs -> RunRecord] /\ RunOk(v)
    BY BuiltFacts
  <2>. QED BY <2>1 DEF RunOk, RunRecord
<1>. HIDE DEF RunRecord
<1>2. CASE w = v
  BY <1>1, <1>2
<1>3. CASE w # v
  BY <1>1, <1>3
<1>. QED BY <1>2, <1>3

(* No step changes a receipt that is written, or the status it gives.        *)
LEMMA NextReceipts ==
    ASSUME VoiceInv, [Next]_vars, NEW v \in Runs, runs[v].receipt # "none"
    PROVE  runs'[v].receipt = runs[v].receipt /\ runs'[v].status = runs[v].receipt
<1>1. CASE UNCHANGED runs
  BY <1>1, BuiltFacts DEF RunOk
<1>. DEFINE Over(w, status, receipt) ==
                [runs[w] EXCEPT !.status = status, !.played = FALSE, !.receipt = receipt]
<1>2. ASSUME NEW w \in Runs, NEW status, NEW receipt
      PROVE  /\ Ended(w, status, receipt) => runs' = [runs EXCEPT ![w] = Over(w, status, receipt)]
             /\ Over(w, status, receipt).status = status /\ Over(w, status, receipt).receipt = receipt
  <2>1. runs[w] \in RunRecord
    BY BuiltFacts
  <2>. QED BY <2>1 DEF Ended, RunRecord
<1>. HIDE DEF Over
<1>3. ASSUME NEW w \in Runs, StartRun(w) \/ CommitRun(w) \/ PlayTurns(w), ~UNCHANGED runs
      PROVE  runs'[v].receipt = runs[v].receipt /\ runs'[v].status = runs[v].receipt
  <2>1. /\ runs[w].status \in {"absent", "GENERATING", "RUNNING"}
        /\ \E r : runs' = [runs EXCEPT ![w] = r]
    BY <1>3 DEF StartRun, CommitRun, PlayTurns, Fresh, StillGenerating
  <2>. QED BY <2>1, ReceiptKept
<1>4. ASSUME NEW w \in Runs, FailRun(w) \/ ExpireRun(w) \/ Snapshot, ~UNCHANGED runs
      PROVE  runs'[v].receipt = runs[v].receipt /\ runs'[v].status = runs[v].receipt
  <2>1. PICK u \in Runs : /\ runs[u].status = "GENERATING" \/ runs[u].receipt = "none"
                          /\ \E status, receipt : Ended(u, status, receipt)
    BY <1>4, BuiltFacts DEF FailRun, ExpireRun, HasReceipt, Snapshot
  <2>. QED BY <1>2, <2>1, ReceiptKept
<1>5. ASSUME NEW w \in Runs, EndRun(w)
      PROVE  runs'[v].receipt = runs[v].receipt /\ runs'[v].status = runs[v].receipt
  <2>1. CASE Ended(w, runs[w].receipt, runs[w].receipt)
    BY <1>2, <2>1, ReceiptKept
  <2>2. CASE runs[w].receipt = "none" /\ \E status : Ended(w, status, status)
    BY <1>2, <2>2, ReceiptKept
  <2>. QED BY <1>5, <2>1, <2>2 DEF EndRun, HasReceipt
<1>6. CASE NextOutreach
  BY <1>1, <1>6 DEF NextOutreach, StartPreview, FinishPreview, ContactResearch, ClaimSearch,
     CheckResult, StoreCandidates, CommitResult, FailResearch, FailOverdue, StopSearch,
     LoseCandidates, Reconcile, SelectContact, CreateDraft, ApproveDraft, RunEmail
<1>7. CASE (\E e \in Envelopes : CreateEnvelope(e)) \/ ApproveEnvelope \/ UNCHANGED vars
  BY <1>1, <1>7 DEF CreateEnvelope, ApproveEnvelope, vars, outreach
<1>8. ASSUME NEW w \in Runs,
             \/ ClaimRun(w) \/ CheckRun(w) \/ ScheduleCleanup(w) \/ StoreSession(w) \/ StopWorker(w)
             \/ CloseSession(w) \/ StopClosing(w) \/ Purge(w)
      PROVE  UNCHANGED runs
  BY <1>8 DEF ClaimRun, CheckRun, ScheduleCleanup, StoreSession, StopWorker, CloseSession,
     StopClosing, Purge, outreach
<1>. QED BY <1>1, <1>3, <1>4, <1>5, <1>6, <1>7, <1>8, Domains DEF Next

(* Whoever ends a run first decides how it ended: no late worker, second end *)
(* or cleanup changes its receipt or its status (end_voice_simulation        *)
(* answers from the receipt; expire_voice_run leaves such a run alone).      *)
THEOREM ReceiptsStay == ASSUME OutreachAssumption PROVE Spec => ReceiptsAreFinal
<1>1. VoiceInv /\ [Next]_vars =>
          [\A v \in DOMAIN runs :
              runs[v].receipt # "none" =>
                  runs'[v].receipt = runs[v].receipt /\ runs'[v].status = runs[v].receipt]_vars
  BY NextReceipts, Domains
<1>. QED BY <1>1, VoiceInvariance, PTL DEF Spec, ReceiptsAreFinal

-------------------------------------------------------------------------------
(* The simulation *)

Final == {"COMPLETED", "ENDED", "INTERRUPTED"}

(* What can be run waits for its approval, has it, or is being run.          *)
CurrentOk ==
    case.envelope # 0 =>
        \/ envelopes[case.envelope].status \in {"AWAITING_APPROVAL", "APPROVED"}
        \/ IsActive(case.run)

(* The approval that a run was made from is used up; only a run in progress  *)
(* is played; a run that has ended has its receipt.                          *)
CallOk(v) ==
    /\ runs[v].status # "absent" =>
          envelopes[runs[v].envelope].status \notin {"absent", "AWAITING_APPROVAL", "APPROVED"}
    /\ runs[v].played => runs[v].status = "RUNNING"
    /\ runs[v].status \in Final => runs[v].receipt = runs[v].status

CallsOk == CurrentOk /\ \A v \in Runs : CallOk(v)

CallFacts(v) ==
    /\ RunOk(v) /\ CallOk(v) /\ runs[v] \in RunRecord
    /\ runs[v].status # "absent" => runs[v].envelope \in Envelopes

(* What the proofs about the simulation read off the invariant.              *)
LEMMA SimulationFacts ==
    ASSUME VoiceInv, CallsOk
    PROVE  /\ runs \in [Runs -> RunRecord] /\ envelopes \in [Envelopes -> EnvelopeRecord]
           /\ DOMAIN runs = Runs /\ DOMAIN envelopes = Envelopes
           /\ case \in Pointers /\ case.envelope \in Envelopes \cup {0} /\ 0 \notin Envelopes
           /\ \A v \in Runs : CallFacts(v)
<1>1. /\ runs \in [Runs -> RunRecord] /\ envelopes \in [Envelopes -> EnvelopeRecord]
      /\ case \in Pointers /\ \A v \in Runs : RunOk(v)
  BY BuiltFacts
<1>2. case.envelope \in Envelopes \cup {0} /\ 0 \notin Envelopes
  BY <1>1 DEF Pointers, Envelopes
<1>3. ASSUME NEW v \in Runs PROVE CallFacts(v)
  <2>1. runs[v] \in RunRecord /\ RunOk(v) /\ CallOk(v)
    BY <1>1 DEF CallsOk
  <2>2. runs[v].envelope \in 0..MaxEnvelopes
    BY <2>1 DEF RunRecord
  <2>3. runs[v].status # "absent" => runs[v].envelope \in Envelopes
    BY <2>1, <2>2 DEF RunOk, Envelopes
  <2>. QED BY <2>1, <2>3 DEF CallFacts
<1>. QED BY <1>1, <1>2, <1>3

(* One envelope changes, or one run.                                         *)
LEMMA ApprovalsMove ==
    ASSUME VoiceInv, CallsOk, NEW e \in Envelopes, NEW f,
           envelopes' = [envelopes EXCEPT ![e] = f]
    PROVE  /\ Approvals' = [Approvals EXCEPT ![e] = Approval(e)']
           /\ Approvals[e] = Approval(e) /\ Approval(e)' = Approvals'[e]
           /\ envelopes'[e] = f /\ \A g \in Envelopes \ {e} : envelopes'[g] = envelopes[g]
<1>1. DOMAIN envelopes = Envelopes
  BY SimulationFacts
<1>2. envelopes'[e] = f /\ \A g \in Envelopes \ {e} : envelopes'[g] = envelopes[g]
  BY <1>1
<1>3. DOMAIN envelopes' = Envelopes
  BY <1>1
<1>4. \A g \in Envelopes \ {e} : Approval(g)' = Approval(g)
  BY <1>2 DEF Approval
<1>5. Approvals = [g \in Envelopes |-> Approval(g)]
  BY <1>1 DEF Approvals
<1>6. Approvals' = [g \in Envelopes |-> Approval(g)']
  BY <1>3 DEF Approvals
<1>. QED BY <1>2, <1>4, <1>5, <1>6

(* When one run is written, one call changes, and whether it was heard.      *)
LEMMA CallsMove ==
    ASSUME VoiceInv, CallsOk, NEW v \in Runs, NEW r, runs' = [runs EXCEPT ![v] = r]
    PROVE  /\ Calls' = [Calls EXCEPT ![v] = Call(v)']
           /\ Heard' = IF r.played THEN Heard \cup {v} ELSE Heard \ {v}
           /\ Calls[v] = Call(v)
           /\ runs'[v] = r /\ \A u \in Runs \ {v} : runs'[u] = runs[u]
<1>1. DOMAIN runs = Runs
  BY SimulationFacts
<1>2. runs'[v] = r /\ \A u \in Runs \ {v} : runs'[u] = runs[u]
  BY <1>1
<1>3. DOMAIN runs' = Runs
  BY <1>1
<1>4. \A u \in Runs \ {v} : Call(u)' = Call(u)
  BY <1>2 DEF Call
<1>5. Calls = [u \in Runs |-> Call(u)] /\ Heard = {u \in Runs : runs[u].played}
  BY <1>1 DEF Calls, Heard
<1>6. Calls' = [u \in Runs |-> Call(u)'] /\ Heard' = {u \in Runs : runs'[u].played}
  BY <1>3 DEF Calls, Heard
<1>. QED BY <1>2, <1>4, <1>5, <1>6

(* Steps that leave the envelopes and the runs alone.                        *)
LEMMA RestStep ==
    ASSUME CallsOk, UNCHANGED <<envelopes, runs>>,
           case'.envelope = case.envelope /\ case'.run = case.run
    PROVE  CallsOk' /\ UNCHANGED Simulated!vars
<1>1. CallsOk'
  BY DEF CallsOk, CurrentOk, CallOk, IsActive
<1>2. Approvals' = Approvals /\ Calls' = Calls /\ Heard' = Heard
  BY DEF Approvals, Approval, Calls, Call, Heard
<1>. QED BY <1>1, <1>2 DEF Simulated!vars

(* What is marked stale is withdrawn.                                        *)
LEMMA WithdrawStep ==
    ASSUME VoiceInv, CallsOk, NoActiveRun, UNCHANGED runs,
           envelopes' = Staled(envelopes, case.envelope), case'.envelope = 0
    PROVE  CallsOk' /\ [Simulated!Next]_Simulated!vars
<1>1. Calls' = Calls /\ Heard' = Heard
  BY DEF Calls, Call, Heard
<1>2. CASE UNCHANGED envelopes
  <2>1. CallsOk'
    BY <1>2 DEF CallsOk, CurrentOk, CallOk
  <2>2. Approvals' = Approvals
    BY <1>2 DEF Approvals, Approval
  <2>. QED BY <1>1, <2>1, <2>2 DEF Simulated!vars
<1>3. CASE ~UNCHANGED envelopes
  <2>1. PICK e \in Envelopes : e = case.envelope
    BY <1>3, SimulationFacts DEF Staled
  <2>. DEFINE f == Stale(envelopes[e])
  <2>2. envelopes' = [envelopes EXCEPT ![e] = f] /\ f.status = "STALE"
    BY <1>3, <2>1, SimulationFacts, StaleRecords DEF Staled, Stale
  <2>. HIDE DEF f
  <2>3. /\ Approvals' = [Approvals EXCEPT ![e] = Approval(e)'] /\ envelopes'[e] = f
        /\ \A g \in Envelopes \ {e} : envelopes'[g] = envelopes[g]
    BY <2>2, ApprovalsMove
  <2>4. Approval(e)' = "over"
    BY <2>2, <2>3 DEF Approval
  <2>5. ASSUME NEW v \in Runs PROVE CallOk(v)'
    BY <2>2, <2>3, SimulationFacts DEF CallOk, CallFacts
  <2>6. CallsOk'
    BY <2>5 DEF CallsOk, CurrentOk
  <2>7. Simulated!Withdraw(e)
    BY <1>1, <2>3, <2>4 DEF Simulated!Withdraw
  <2>. QED BY <2>6, <2>7 DEF Simulated!Next, Envelopes
<1>. QED BY <1>2, <1>3

(* A new envelope has no approval; the one before it loses its own.          *)
LEMMA CreateEnvelopeStep ==
    ASSUME VoiceInv, CallsOk, NEW e \in Envelopes, CreateEnvelope(e)
    PROVE  CallsOk' /\ [Simulated!Next]_Simulated!vars
<1>. DEFINE r == [status |-> "AWAITING_APPROVAL", selection |-> case.selection, run |-> 0]
<1>1. PICK c \in Envelopes \cup {0} : c = case.envelope
  BY SimulationFacts
<1>2. /\ envelopes[e].status = "absent" /\ NoActiveRun /\ UNCHANGED runs
      /\ envelopes' = [Staled(envelopes, c) EXCEPT ![e] = r]
      /\ case' = [case EXCEPT !.envelope = e]
  BY <1>1 DEF CreateEnvelope, Fresh
<1>3. /\ case'.envelope = e /\ r.status = "AWAITING_APPROVAL" /\ e # 0
      /\ DOMAIN envelopes = Envelopes
  BY <1>2, SimulationFacts DEF Pointers
<1>. HIDE DEF r
<1>4. c # e
  BY <1>1, <1>2, <1>3 DEF CallsOk, CurrentOk, NoActiveRun
<1>5. /\ envelopes'[e] = r /\ DOMAIN envelopes' = Envelopes
      /\ \A g \in Envelopes \ {e, c} : envelopes'[g] = envelopes[g]
      /\ c # 0 => envelopes'[c] = envelopes[c] \/ envelopes'[c].status = "STALE"
  <2>1. CASE Staled(envelopes, c) = envelopes
    BY <1>2, <1>3, <1>4, <2>1
  <2>2. CASE c # 0 /\ Staled(envelopes, c) = [envelopes EXCEPT ![c] = Stale(envelopes[c])]
    <3>1. c \in Envelopes /\ Stale(envelopes[c]).status = "STALE"
      BY <2>2, SimulationFacts, StaleRecords
    <3>. QED BY <1>2, <1>3, <1>4, <2>2, <3>1
  <2>. QED BY <2>1, <2>2 DEF Staled, Stale
<1>6. ASSUME NEW v \in Runs PROVE CallOk(v)'
  <2>1. CallFacts(v) /\ runs'[v] = runs[v]
    BY <1>2, SimulationFacts
  <2>2. CASE runs[v].status = "absent"
    BY <2>1, <2>2 DEF CallFacts, CallOk
  <2>3. CASE runs[v].status # "absent"
    <3>1. PICK g \in Envelopes : g = runs[v].envelope
      BY <2>1, <2>3 DEF CallFacts
    <3>2. g # e /\ envelopes[g].status \notin {"absent", "AWAITING_APPROVAL", "APPROVED"}
      BY <1>2, <2>1, <2>3, <3>1 DEF CallFacts, CallOk
    <3>3. envelopes'[g].status \notin {"absent", "AWAITING_APPROVAL", "APPROVED"}
      <4>1. CASE g = c
        BY <1>3, <1>5, <3>2, <4>1, SimulationFacts
      <4>2. CASE g # c
        BY <1>5, <3>2, <4>2
      <4>. QED BY <4>1, <4>2
    <3>. QED BY <2>1, <3>1, <3>3 DEF CallFacts, CallOk
  <2>. QED BY <2>2, <2>3
<1>7. CallsOk'
  BY <1>3, <1>5, <1>6 DEF CallsOk, CurrentOk
<1>8. Approval(e)' = "none" /\ Approval(e) = "none"
  BY <1>2, <1>3, <1>5 DEF Approval
<1>9. ASSUME NEW g \in Envelopes, g # c PROVE Approval(g)' = Approval(g)
  BY <1>5, <1>8, <1>9 DEF Approval
<1>10. c # 0 => Approval(c)' = Approval(c) \/ Approval(c)' = "over"
  <2>1. envelopes'[c] = envelopes[c] => Approval(c)' = Approval(c)
    BY DEF Approval
  <2>2. envelopes'[c].status = "STALE" => Approval(c)' = "over"
    BY DEF Approval
  <2>. QED BY <1>5, <2>1, <2>2
<1>11. /\ Approvals = [g \in Envelopes |-> Approval(g)]
       /\ Approvals' = [g \in Envelopes |-> Approval(g)']
  BY <1>3, <1>5 DEF Approvals
<1>12. Calls' = Calls /\ Heard' = Heard
  BY <1>2 DEF Calls, Call, Heard
<1>13. CASE c # 0 /\ Approval(c)' = "over"
  <2>1. Approvals' = [Approvals EXCEPT ![c] = "over"]
    <3>1. \A g \in Envelopes : Approval(g)' = IF g = c THEN "over" ELSE Approval(g)
      BY <1>9, <1>13
    <3>. QED BY <1>11, <3>1
  <2>2. Simulated!Withdraw(c)
    BY <1>12, <2>1 DEF Simulated!Withdraw
  <2>. QED BY <1>7, <1>13, <2>2 DEF Simulated!Next, Envelopes
<1>14. CASE c = 0 \/ Approval(c)' = Approval(c)
  <2>1. \A g \in Envelopes : Approval(g)' = Approval(g)
    BY <1>9, <1>14, SimulationFacts
  <2>2. Approvals' = Approvals
    BY <1>11, <2>1
  <2>. QED BY <1>7, <1>12, <2>2 DEF Simulated!vars
<1>. QED BY <1>10, <1>13, <1>14

(* The resident approves what waits for it.                                  *)
LEMMA ApproveEnvelopeStep ==
    ASSUME VoiceInv, CallsOk, ApproveEnvelope
    PROVE  CallsOk' /\ [Simulated!Next]_Simulated!vars
<1>1. PICK e \in Envelopes : e = case.envelope
  BY SimulationFacts DEF ApproveEnvelope
<1>. DEFINE f == [envelopes[e] EXCEPT !.status = "APPROVED"]
<1>2. /\ envelopes[e].status = "AWAITING_APPROVAL" /\ UNCHANGED <<case, runs>>
      /\ envelopes' = [envelopes EXCEPT ![e] = f] /\ f.status = "APPROVED"
  <2>1. envelopes[e] \in EnvelopeRecord
    BY SimulationFacts
  <2>2. f.status = "APPROVED"
    BY <2>1 DEF EnvelopeRecord
  <2>. QED BY <1>1, <2>2 DEF ApproveEnvelope
<1>. HIDE DEF f
<1>3. /\ Approvals' = [Approvals EXCEPT ![e] = Approval(e)']
      /\ Approvals[e] = Approval(e)
      /\ envelopes'[e] = f /\ \A g \in Envelopes \ {e} : envelopes'[g] = envelopes[g]
  BY <1>2, ApprovalsMove
<1>4. Approval(e) = "none" /\ Approval(e)' = "given"
  BY <1>2, <1>3 DEF Approval
<1>5. ASSUME NEW v \in Runs PROVE CallOk(v)'
  <2>1. CallFacts(v) /\ runs'[v] = runs[v]
    BY <1>2, SimulationFacts
  <2>2. runs[v].status # "absent" => runs[v].envelope \in Envelopes \ {e}
    BY <1>2, <2>1 DEF CallFacts, CallOk
  <2>. QED BY <1>3, <2>1, <2>2 DEF CallFacts, CallOk
<1>6. CallsOk'
  BY <1>1, <1>2, <1>3, <1>5 DEF CallsOk, CurrentOk
<1>7. Calls' = Calls /\ Heard' = Heard
  BY <1>2 DEF Calls, Call, Heard
<1>8. Simulated!Approve(e)
  BY <1>3, <1>4, <1>7 DEF Simulated!Approve
<1>. QED BY <1>6, <1>8 DEF Simulated!Next, Envelopes

(* A run begins: from an approval, and with no other in progress.            *)
LEMMA StartRunStep ==
    ASSUME VoiceInv, CallsOk, NEW v \in Runs, StartRun(v)
    PROVE  CallsOk' /\ [Simulated!Next]_Simulated!vars
<1>1. PICK e \in Envelopes : e = case.envelope
  BY SimulationFacts DEF StartRun
<1>. DEFINE r == [status |-> "GENERATING", envelope |-> e, played |-> FALSE, receipt |-> "none"]
            f == [envelopes[e] EXCEPT !.status = "GENERATING", !.run = v]
<1>2. /\ runs[v].status = "absent" /\ ~HasRun(e) /\ envelopes[e].status # "AWAITING_APPROVAL"
      /\ envelopes' = [envelopes EXCEPT ![e] = f]
      /\ runs' = [runs EXCEPT ![v] = r]
      /\ case' = [case EXCEPT !.run = v]
  BY <1>1, SimulationFacts DEF StartRun, Fresh
<1>3. f.status = "GENERATING" /\ case'.run = v /\ case'.envelope = e
  <2>1. envelopes[e] \in EnvelopeRecord /\ case \in Pointers
    BY SimulationFacts
  <2>2. f.status = "GENERATING"
    BY <2>1 DEF EnvelopeRecord
  <2>. QED BY <1>1, <1>2, <2>1, <2>2 DEF Pointers
<1>4. r.status = "GENERATING" /\ r.envelope = e /\ r.played = FALSE
  OBVIOUS
<1>. HIDE DEF r, f
<1>5. /\ Approvals' = [Approvals EXCEPT ![e] = Approval(e)'] /\ Approvals[e] = Approval(e)
      /\ envelopes'[e] = f /\ \A g \in Envelopes \ {e} : envelopes'[g] = envelopes[g]
  BY <1>2, ApprovalsMove
<1>6. /\ Calls' = [Calls EXCEPT ![v] = Call(v)'] /\ Calls[v] = Call(v) /\ Heard' = Heard \ {v}
      /\ runs'[v] = r /\ \A u \in Runs \ {v} : runs'[u] = runs[u]
  BY <1>2, <1>4, CallsMove
<1>7. ASSUME NEW u \in Runs PROVE ~IsActive(u)
  <2>1. RunOk(u)
    BY SimulationFacts DEF CallFacts
  <2>. QED BY <1>1, <1>2, <2>1 DEF RunOk, IsActive, HasRun
<1>8. e # 0 /\ v # 0
  BY DEF Envelopes, Runs
<1>9. ~IsActive(case.run)
  <2>1. case.run \in Runs \cup {0}
    BY BuiltFacts
  <2>2. CASE case.run = 0
    BY <2>2 DEF IsActive
  <2>3. CASE case.run \in Runs
    <3>1. PICK u \in Runs : u = case.run
      BY <2>3
    <3>. QED BY <1>7, <3>1
  <2>. QED BY <2>1, <2>2, <2>3
<1>10. envelopes[e].status = "APPROVED"
  BY <1>1, <1>2, <1>8, <1>9 DEF CallsOk, CurrentOk
<1>11. ASSUME NEW u \in Runs PROVE CallOk(u)'
  <2>1. CASE u = v
    BY <1>3, <1>4, <1>5, <1>6, <2>1 DEF CallOk, Final
  <2>2. CASE u # v
    <3>1. CallFacts(u) /\ runs'[u] = runs[u]
      BY <1>6, <2>2, SimulationFacts
    <3>2. runs[u].status # "absent" => runs[u].envelope \in Envelopes \ {e}
      BY <1>10, <3>1 DEF CallFacts, CallOk
    <3>. QED BY <1>5, <3>1, <3>2 DEF CallFacts, CallOk
  <2>. QED BY <2>1, <2>2
<1>12. IsActive(case.run)'
  BY <1>3, <1>4, <1>6, <1>8 DEF IsActive
<1>13. CallsOk'
  BY <1>11, <1>12 DEF CallsOk, CurrentOk
<1>14. Approval(e) = "given" /\ Approval(e)' = "over"
  BY <1>3, <1>5, <1>10 DEF Approval
<1>15. Call(v) = "none" /\ Call(v)' = "active"
  BY <1>2, <1>4, <1>6 DEF Call
<1>16. \A u \in Runs : Calls[u] # "active"
  <2>1. ASSUME NEW u \in Runs PROVE Calls[u] # "active"
    <3>1. Calls[u] = Call(u)
      BY SimulationFacts DEF Calls
    <3>2. runs[u].status \notin {"GENERATING", "RUNNING"} /\ runs[u] \in RunRecord
      BY <1>7, SimulationFacts DEF IsActive, Runs
    <3>. QED BY <3>1, <3>2 DEF Call, RunRecord
  <2>. QED BY <2>1
<1>17. Heard' = Heard
  BY <1>2, <1>6, SimulationFacts DEF Heard, CallFacts, CallOk
<1>18. Simulated!Begin(v, e)
  BY <1>5, <1>6, <1>14, <1>15, <1>16, <1>17 DEF Simulated!Begin, Runs
<1>. QED BY <1>13, <1>18 DEF Simulated!Next, Envelopes, Runs


(* scrub_voice_outcome ends a call that is not over, or says again how it    *)
(* ended.                                                                    *)
LEMMA OverStep ==
    ASSUME VoiceInv, CallsOk, NEW v \in Runs, NEW status \in Final \cup {"FAILED"}, NEW receipt,
           status \in Final => receipt = status, Ended(v, status, receipt),
           \/ IsActive(v)
           \/ status \in Final /\ runs[v].status \in {"FAILED", status},
           status = "COMPLETED" => runs[v].played \/ runs[v].status = "COMPLETED"
    PROVE  CallsOk' /\ [Simulated!Next]_Simulated!vars
<1>1. /\ runs[v].status # "absent" /\ CallFacts(v)
      /\ runs[v].status \in {"GENERATING", "RUNNING", "FAILED", "COMPLETED", "ENDED", "INTERRUPTED"}
  BY SimulationFacts DEF IsActive, Final
<1>2. PICK e \in Envelopes : e = runs[v].envelope
  BY <1>1 DEF CallFacts
<1>. DEFINE r == [runs[v] EXCEPT !.status = status, !.played = FALSE, !.receipt = receipt]
            f == [envelopes[e] EXCEPT !.status = status, !.run = 0]
<1>3. /\ runs' = [runs EXCEPT ![v] = r] /\ envelopes' = [envelopes EXCEPT ![e] = f]
      /\ case' = [case EXCEPT !.envelope = IF case.envelope = e THEN 0 ELSE case.envelope]
  BY <1>2 DEF Ended
<1>4. /\ r.status = status /\ r.played = FALSE /\ r.receipt = receipt /\ r.envelope = e
      /\ f.status = status
  <2>1. runs[v] \in RunRecord /\ envelopes[e] \in EnvelopeRecord
    BY SimulationFacts
  <2>. QED BY <1>2, <2>1 DEF RunRecord, EnvelopeRecord
<1>5. case'.envelope = (IF case.envelope = e THEN 0 ELSE case.envelope) /\ case'.run = case.run
  <2>1. case \in Pointers
    BY SimulationFacts
  <2>. QED BY <1>3, <2>1 DEF Pointers
<1>. HIDE DEF r, f
<1>6. /\ Approvals' = [Approvals EXCEPT ![e] = Approval(e)'] /\ Approvals[e] = Approval(e)
      /\ envelopes'[e] = f /\ \A g \in Envelopes \ {e} : envelopes'[g] = envelopes[g]
  BY <1>3, ApprovalsMove
<1>7. /\ Calls' = [Calls EXCEPT ![v] = Call(v)'] /\ Calls[v] = Call(v) /\ Heard' = Heard \ {v}
      /\ runs'[v] = r /\ \A u \in Runs \ {v} : runs'[u] = runs[u]
  BY <1>3, <1>4, CallsMove
<1>8. ASSUME NEW u \in Runs PROVE CallOk(u)'
  <2>1. CASE u = v
    BY <1>4, <1>6, <1>7, <2>1 DEF CallOk, Final
  <2>2. CASE u # v
    <3>1. CallFacts(u) /\ runs'[u] = runs[u]
      BY <1>7, <2>2, SimulationFacts
    <3>2. CASE runs[u].status = "absent"
      BY <3>1, <3>2 DEF CallFacts, CallOk
    <3>3. CASE runs[u].status # "absent"
      <4>1. PICK g \in Envelopes : g = runs[u].envelope
        BY <3>1, <3>3 DEF CallFacts
      <4>2. envelopes[g].status \notin {"absent", "AWAITING_APPROVAL", "APPROVED"}
        BY <3>1, <3>3, <4>1 DEF CallFacts, CallOk
      <4>3. envelopes'[g].status \notin {"absent", "AWAITING_APPROVAL", "APPROVED"}
        BY <1>4, <1>6, <4>2 DEF Final
      <4>. QED BY <3>1, <4>1, <4>3 DEF CallFacts, CallOk
    <3>. QED BY <3>2, <3>3
  <2>. QED BY <2>1, <2>2
<1>9. CurrentOk'
  <2>1. CASE case'.envelope = 0
    BY <2>1 DEF CurrentOk
  <2>2. CASE case'.envelope # 0
    <3>1. PICK g \in Envelopes : g = case.envelope /\ g = case'.envelope /\ g # e
      BY <1>5, <2>2, SimulationFacts
    <3>2. envelopes'[g] = envelopes[g]
      BY <1>6, <3>1
    <3>3. CASE envelopes[g].status \in {"AWAITING_APPROVAL", "APPROVED"}
      BY <3>1, <3>2, <3>3 DEF CurrentOk
    <3>4. CASE IsActive(case.run)
      <4>1. PICK u \in Runs : u = case.run
        BY <3>4, BuiltFacts DEF IsActive
      <4>2. runs[u].envelope = g
        BY <3>1, <3>4, <4>1, SimulationFacts DEF CallFacts, RunOk
      <4>3. runs'[u] = runs[u]
        BY <1>2, <1>7, <3>1, <4>2
      <4>. QED BY <1>5, <3>4, <4>1, <4>3 DEF CurrentOk, IsActive
    <3>. QED BY <3>1, <3>3, <3>4 DEF CallsOk, CurrentOk
  <2>. QED BY <2>1, <2>2
<1>10. CallsOk'
  BY <1>8, <1>9 DEF CallsOk
<1>11. Approval(e)' = "over" /\ Approval(e) = "over"
  <2>1. Approval(e)' = "over"
    BY <1>4, <1>6 DEF Approval, Final
  <2>2. Approval(e) = "over"
    BY <1>1, <1>2 DEF Approval, CallFacts, CallOk
  <2>. QED BY <2>1, <2>2
<1>12. Approvals' = Approvals
  BY <1>6, <1>11 DEF Approvals
<1>13. Call(v)' = status
  BY <1>4, <1>7 DEF Call, Final
<1>14. v \in Heard <=> runs[v].played
  BY SimulationFacts DEF Heard
<1>15. CASE IsActive(v)
  <2>1. Calls[v] = "active" /\ (status = "COMPLETED" => v \in Heard)
    BY <1>7, <1>14, <1>15 DEF Call, IsActive
  <2>2. CASE status = "FAILED"
    <3>1. Simulated!Fail(v)
      BY <1>7, <1>12, <1>13, <2>1, <2>2 DEF Simulated!Fail
    <3>. QED BY <1>10, <3>1 DEF Simulated!Next, Runs
  <2>3. CASE status \in Final
    <3>1. Simulated!End(v, status)
      BY <1>7, <1>12, <1>13, <2>1, <2>3 DEF Simulated!End
    <3>. QED BY <1>10, <2>3, <3>1 DEF Simulated!Next, Simulated!Outcomes, Final, Runs
  <2>. QED BY <2>2, <2>3
<1>16. CASE status \in Final /\ runs[v].status = "FAILED"
  <2>1. Calls[v] = "FAILED" /\ status # "COMPLETED"
    BY <1>1, <1>7, <1>16 DEF Call, CallFacts, CallOk
  <2>2. Simulated!End(v, status)
    BY <1>7, <1>12, <1>13, <2>1 DEF Simulated!End
  <2>. QED BY <1>10, <1>16, <2>2 DEF Simulated!Next, Simulated!Outcomes, Final, Runs
<1>17. CASE status \in Final /\ runs[v].status = status
  <2>1. Calls[v] = status /\ v \notin Heard
    BY <1>1, <1>7, <1>14, <1>17 DEF Call, CallFacts, CallOk, Final
  <2>2. Calls' = Calls /\ Heard' = Heard
    BY <1>7, <1>13, <2>1 DEF Calls
  <2>. QED BY <1>10, <1>12, <2>2 DEF Simulated!vars
<1>. QED BY <1>15, <1>16, <1>17

(* The worker's commit, and the last turn, of a call in progress.            *)
LEMMA CommitRunStep ==
    ASSUME VoiceInv, CallsOk, NEW v \in Runs, CommitRun(v)
    PROVE  CallsOk' /\ [Simulated!Next]_Simulated!vars
<1>1. CASE UNCHANGED <<case, runs, envelopes>>
  BY <1>1, RestStep
<1>2. CASE /\ StillGenerating(v) /\ UNCHANGED case
           /\ runs' = [runs EXCEPT ![v].status = "RUNNING"]
           /\ envelopes' = [envelopes EXCEPT ![runs[v].envelope].status = "RUNNING"]
  <2>1. runs[v].status = "GENERATING" /\ CallFacts(v) /\ IsActive(v)
    BY <1>2, SimulationFacts DEF StillGenerating, IsActive, Runs
  <2>2. PICK e \in Envelopes : e = runs[v].envelope
    BY <2>1 DEF CallFacts
  <2>. DEFINE r == [runs[v] EXCEPT !.status = "RUNNING"]
              f == [envelopes[e] EXCEPT !.status = "RUNNING"]
  <2>3. runs' = [runs EXCEPT ![v] = r] /\ envelopes' = [envelopes EXCEPT ![e] = f]
    BY <1>2, <2>2
  <2>4. r.status = "RUNNING" /\ r.played = FALSE /\ r.envelope = e /\ f.status = "RUNNING"
    <3>1. runs[v] \in RunRecord /\ envelopes[e] \in EnvelopeRecord
      BY SimulationFacts
    <3>2. runs[v].played \in BOOLEAN
      BY <3>1 DEF RunRecord
    <3>3. runs[v].played = FALSE
      BY <2>1, <3>2 DEF CallFacts, CallOk
    <3>. QED BY <2>2, <3>1, <3>3 DEF RunRecord, EnvelopeRecord
  <2>. HIDE DEF r, f
  <2>5. /\ Approvals' = [Approvals EXCEPT ![e] = Approval(e)'] /\ Approvals[e] = Approval(e)
        /\ envelopes'[e] = f /\ \A g \in Envelopes \ {e} : envelopes'[g] = envelopes[g]
    BY <2>3, ApprovalsMove
  <2>6. /\ Calls' = [Calls EXCEPT ![v] = Call(v)'] /\ Calls[v] = Call(v) /\ Heard' = Heard \ {v}
        /\ runs'[v] = r /\ \A u \in Runs \ {v} : runs'[u] = runs[u]
    BY <2>3, <2>4, CallsMove
  <2>7. ASSUME NEW u \in Runs PROVE CallOk(u)'
    <3>1. CASE u = v
      BY <2>4, <2>5, <2>6, <3>1 DEF CallOk, Final
    <3>2. CASE u # v
      <4>1. CallFacts(u) /\ runs'[u] = runs[u]
        BY <2>6, <3>2, SimulationFacts
      <4>. QED BY <2>4, <2>5, <4>1 DEF CallFacts, CallOk
    <3>. QED BY <3>1, <3>2
  <2>8. v = case.run
    BY <2>1 DEF CallFacts, RunOk
  <2>9. IsActive(case.run)'
    BY <1>2, <2>1, <2>4, <2>6, <2>8 DEF IsActive
  <2>10. CallsOk'
    BY <2>7, <2>9 DEF CallsOk, CurrentOk
  <2>11. Approval(e)' = "over" /\ Approval(e) = "over"
    <3>1. Approval(e)' = "over"
      BY <2>4, <2>5 DEF Approval
    <3>2. Approval(e) = "over"
      BY <2>1, <2>2 DEF Approval, CallFacts, CallOk
    <3>. QED BY <3>1, <3>2
  <2>12. Approvals' = Approvals
    BY <2>5, <2>11 DEF Approvals
  <2>13. Call(v)' = "active" /\ Call(v) = "active"
    BY <2>1, <2>4, <2>6 DEF Call
  <2>14. Calls' = Calls
    BY <2>6, <2>13 DEF Calls
  <2>15. Heard' = Heard
    BY <2>1, <2>6, SimulationFacts DEF Heard, CallFacts, CallOk
  <2>. QED BY <2>10, <2>12, <2>14, <2>15 DEF Simulated!vars
<1>. QED BY <1>1, <1>2 DEF CommitRun

(* Only a run in progress is heard to its end.                               *)
LEMMA PlayTurnsStep ==
    ASSUME VoiceInv, CallsOk, NEW v \in Runs, PlayTurns(v)
    PROVE  CallsOk' /\ [Simulated!Next]_Simulated!vars
<1>. DEFINE r == [runs[v] EXCEPT !.played = TRUE]
<1>1. runs[v].status = "RUNNING" /\ runs' = [runs EXCEPT ![v] = r] /\ UNCHANGED <<case, envelopes>>
  BY DEF PlayTurns
<1>2. r.status = "RUNNING" /\ r.played = TRUE /\ r.envelope = runs[v].envelope
  <2>1. runs[v] \in RunRecord
    BY SimulationFacts
  <2>. QED BY <1>1, <2>1 DEF RunRecord
<1>. HIDE DEF r
<1>3. /\ Calls' = [Calls EXCEPT ![v] = Call(v)'] /\ Calls[v] = Call(v) /\ Heard' = Heard \cup {v}
      /\ runs'[v] = r /\ \A u \in Runs \ {v} : runs'[u] = runs[u]
  BY <1>1, <1>2, CallsMove
<1>4. ASSUME NEW u \in Runs PROVE CallOk(u)' /\ (IsActive(u) <=> IsActive(u)')
  <2>1. CallFacts(u)
    BY SimulationFacts
  <2>2. CASE u = v
    BY <1>1, <1>2, <1>3, <2>1, <2>2 DEF CallFacts, CallOk, IsActive, Final
  <2>3. CASE u # v
    BY <1>1, <1>3, <2>1, <2>3 DEF CallFacts, CallOk, IsActive
  <2>. QED BY <2>2, <2>3
<1>5. IsActive(case.run) => IsActive(case.run)'
  <2>1. ASSUME IsActive(case.run) PROVE IsActive(case.run)'
    <3>1. PICK u \in Runs : u = case.run
      BY <2>1, BuiltFacts DEF IsActive
    <3>. QED BY <1>1, <1>4, <2>1, <3>1 DEF IsActive
  <2>. QED BY <2>1
<1>6. CallsOk'
  BY <1>1, <1>4, <1>5 DEF CallsOk, CurrentOk
<1>7. Call(v)' = "active" /\ Call(v) = "active"
  BY <1>1, <1>2, <1>3 DEF Call
<1>8. Calls' = Calls /\ Approvals' = Approvals
  BY <1>1, <1>3, <1>7 DEF Calls, Approvals, Approval
<1>9. Simulated!Hear(v)
  BY <1>3, <1>7, <1>8 DEF Simulated!Hear
<1>. QED BY <1>6, <1>9 DEF Simulated!Next, Runs


(* The steps that end a call, or leave the calls alone.                      *)
LEMMA EndsStep ==
    ASSUME VoiceInv, CallsOk, NEW v \in Runs, FailRun(v) \/ EndRun(v) \/ ExpireRun(v)
    PROVE  CallsOk' /\ [Simulated!Next]_Simulated!vars
<1>1. CallFacts(v)
  BY SimulationFacts
<1>2. CASE UNCHANGED <<case, runs, envelopes>>
  BY <1>2, RestStep
<1>3. CASE runs[v].status = "GENERATING" /\ Ended(v, "FAILED", "none")
  <2>1. IsActive(v)
    BY <1>3 DEF IsActive, Runs
  <2>. QED BY <1>3, <2>1, OverStep DEF Final
<1>4. CASE IsActive(v) /\ Ended(v, "INTERRUPTED", "INTERRUPTED")
  BY <1>4, OverStep DEF Final
<1>5. CASE HasReceipt(v) /\ Ended(v, runs[v].receipt, runs[v].receipt)
  <2>1. PICK status \in Final : status = runs[v].receipt
    BY <1>1, <1>5 DEF CallFacts, RunRecord, HasReceipt, Final
  <2>2. runs[v].status = status
    BY <1>1, <1>5, <2>1 DEF CallFacts, RunOk, HasReceipt
  <2>. QED BY <1>5, <2>1, <2>2, OverStep
<1>6. ASSUME NEW status \in Final, ~HasReceipt(v), runs[v].status # "absent",
             status = "COMPLETED" => runs[v].played, Ended(v, status, status)
      PROVE  CallsOk' /\ [Simulated!Next]_Simulated!vars
  <2>1. runs[v].status \in {"GENERATING", "RUNNING", "FAILED"}
    BY <1>1, <1>6 DEF CallFacts, CallOk, RunRecord, HasReceipt, Final
  <2>2. IsActive(v) \/ runs[v].status = "FAILED"
    BY <2>1 DEF IsActive, Runs
  <2>. QED BY <1>6, <2>2, OverStep
<1>7. CASE FailRun(v)
  BY <1>2, <1>3, <1>7 DEF FailRun
<1>8. CASE ExpireRun(v)
  BY <1>2, <1>4, <1>8 DEF ExpireRun
<1>9. CASE EndRun(v)
  <2>1. CASE ~HasReceipt(v)
    <3>1. PICK status \in Final : /\ Ended(v, status, status)
                                  /\ status = "COMPLETED" => runs[v].played
      BY <1>9, <2>1 DEF EndRun, Final
    <3>. QED BY <1>6, <1>9, <2>1, <3>1 DEF EndRun
  <2>2. CASE HasReceipt(v)
    BY <1>5, <1>9, <2>2 DEF EndRun
  <2>. QED BY <2>1, <2>2
<1>. QED BY <1>7, <1>8, <1>9

(* A read that finds the deadline passed fails a call being generated.       *)
LEMMA SnapshotStep ==
    ASSUME VoiceInv, CallsOk, Snapshot
    PROVE  CallsOk' /\ [Simulated!Next]_Simulated!vars
<1>1. CASE UNCHANGED <<case, runs, envelopes>>
  BY <1>1, RestStep
<1>2. CASE /\ case.run # 0 /\ runs[case.run].status = "GENERATING"
           /\ Ended(case.run, "FAILED", "none")
  <2>1. PICK v \in Runs : v = case.run
    BY <1>2, BuiltFacts
  <2>2. IsActive(v)
    BY <1>2, <2>1 DEF IsActive
  <2>. QED BY <1>2, <2>1, <2>2, OverStep DEF Final
<1>. QED BY <1>1, <1>2 DEF Snapshot

(* A new preview, research or selection withdraws what was approved.         *)
LEMMA OutreachStep ==
    ASSUME VoiceInv, CallsOk, NextOutreach
    PROVE  CallsOk' /\ [Simulated!Next]_Simulated!vars
<1>1. case \in Pointers
  BY SimulationFacts
<1>2. ASSUME NEW p, StartPreview(p)
      PROVE  CallsOk' /\ [Simulated!Next]_Simulated!vars
  <2>1. CASE case' = [Dropped EXCEPT !.preview = p] /\ Invalidate
    <3>1. case'.envelope = 0
      BY <1>1, <2>1 DEF Dropped, Pointers
    <3>. QED BY <1>2, <2>1, <3>1, WithdrawStep DEF Invalidate, StartPreview
  <2>2. CASE case' = [case EXCEPT !.preview = p] /\ UNCHANGED envelopes
    <3>1. case'.envelope = case.envelope /\ case'.run = case.run
      BY <1>1, <2>2 DEF Pointers
    <3>. QED BY <1>2, <2>2, <3>1, RestStep DEF StartPreview
  <2>. QED BY <1>2, <2>1, <2>2 DEF StartPreview
<1>3. ASSUME NEW r, ContactResearch(r)
      PROVE  CallsOk' /\ [Simulated!Next]_Simulated!vars
  <2>1. case'.envelope = 0
    BY <1>1, <1>3 DEF ContactResearch, Dropped, Pointers
  <2>. QED BY <1>3, <2>1, WithdrawStep DEF ContactResearch, Invalidate
<1>4. ASSUME Reconcile
      PROVE  CallsOk' /\ [Simulated!Next]_Simulated!vars
  <2>1. case'.envelope = 0
    BY <1>1, <1>4 DEF Reconcile, Dropped, Pointers
  <2>. QED BY <1>4, <2>1, WithdrawStep DEF Reconcile, Invalidate
<1>5. ASSUME NEW c, SelectContact(c)
      PROVE  CallsOk' /\ [Simulated!Next]_Simulated!vars
  <2>1. NoActiveRun /\ UNCHANGED runs
    BY <1>5 DEF SelectContact
  <2>2. \/ UNCHANGED <<case, envelopes>>
        \/ /\ envelopes' = Staled(envelopes, case.envelope)
           /\ \E s : case' = [case EXCEPT !.selection = s, !.draft = 0, !.envelope = 0]
    BY <1>5 DEF SelectContact
  <2>3. CASE UNCHANGED <<case, envelopes>>
    BY <2>1, <2>3, RestStep
  <2>4. CASE /\ envelopes' = Staled(envelopes, case.envelope)
             /\ \E s : case' = [case EXCEPT !.selection = s, !.draft = 0, !.envelope = 0]
    <3>1. case'.envelope = 0
      BY <1>1, <2>4 DEF Pointers
    <3>. QED BY <2>1, <2>4, <3>1, WithdrawStep
  <2>. QED BY <2>2, <2>3, <2>4
<1>6. ASSUME NEW d, CreateDraft(d)
      PROVE  CallsOk' /\ [Simulated!Next]_Simulated!vars
  <2>1. case'.envelope = case.envelope /\ case'.run = case.run
    BY <1>1, <1>6 DEF CreateDraft, Pointers
  <2>. QED BY <1>6, <2>1, RestStep DEF CreateDraft
<1>7. ASSUME NEW i,
             \/ FinishPreview(i) \/ ClaimSearch(i) \/ CheckResult(i) \/ StoreCandidates(i)
             \/ CommitResult(i) \/ FailResearch(i) \/ FailOverdue(i) \/ StopSearch(i)
             \/ LoseCandidates(i) \/ ApproveDraft \/ RunEmail
      PROVE  UNCHANGED <<case, envelopes, runs>>
  BY <1>7 DEF FinishPreview, ClaimSearch, CheckResult, StoreCandidates, CommitResult, FailResearch,
     FailOverdue, StopSearch, LoseCandidates, ApproveDraft, RunEmail
<1>. QED BY <1>2, <1>3, <1>4, <1>5, <1>6, <1>7, RestStep DEF NextOutreach

(* Each step is one of the simulation, or none.                              *)
LEMMA NextSimulates ==
    ASSUME VoiceInv, CallsOk, [Next]_vars
    PROVE  CallsOk' /\ [Simulated!Next]_Simulated!vars
<1>1. CASE NextOutreach
  BY <1>1, OutreachStep
<1>2. CASE (\E e \in Envelopes : CreateEnvelope(e)) \/ ApproveEnvelope
  BY <1>2, CreateEnvelopeStep, ApproveEnvelopeStep
<1>3. ASSUME NEW v \in Runs,
             StartRun(v) \/ CommitRun(v) \/ FailRun(v) \/ PlayTurns(v) \/ EndRun(v) \/ ExpireRun(v)
      PROVE  CallsOk' /\ [Simulated!Next]_Simulated!vars
  BY <1>3, StartRunStep, CommitRunStep, PlayTurnsStep, EndsStep
<1>4. ASSUME NEW v \in Runs,
             \/ ClaimRun(v) \/ CheckRun(v) \/ ScheduleCleanup(v) \/ StoreSession(v) \/ StopWorker(v)
             \/ CloseSession(v) \/ StopClosing(v) \/ Purge(v)
      PROVE  UNCHANGED <<case, envelopes, runs>>
  BY <1>4 DEF ClaimRun, CheckRun, ScheduleCleanup, StoreSession, StopWorker, CloseSession,
     StopClosing, Purge, outreach
<1>5. UNCHANGED vars => UNCHANGED <<case, envelopes, runs>>
  BY DEF vars, outreach
<1>6. ASSUME UNCHANGED <<case, envelopes, runs>>
      PROVE  CallsOk' /\ [Simulated!Next]_Simulated!vars
  BY <1>6, RestStep
<1>. QED BY <1>1, <1>2, <1>3, <1>4, <1>5, <1>6, SnapshotStep, Domains DEF Next

(* Nothing is approved and nobody is called at first.                        *)
LEMMA InitSimulates ==
    ASSUME OutreachAssumption, Init
    PROVE  CallsOk /\ Simulated!Init
<1>1. /\ case.envelope = 0
      /\ DOMAIN envelopes = Envelopes /\ \A e \in Envelopes : envelopes[e].status = "absent"
      /\ DOMAIN runs = Runs
      /\ \A v \in Runs : runs[v].status = "absent" /\ runs[v].played = FALSE
  BY DEF Init, InitOutreach, Envelopes, Runs
<1>2. CallsOk
  BY <1>1 DEF CallsOk, CurrentOk, CallOk, Final
<1>3. \A e \in Envelopes : Approval(e) = "none"
  BY <1>1 DEF Approval
<1>4. \A v \in Runs : Call(v) = "none"
  BY <1>1 DEF Call
<1>5. Approvals = [e \in Envelopes |-> "none"]
  BY <1>1, <1>3 DEF Approvals
<1>6. Calls = [v \in Runs |-> "none"] /\ Heard = {}
  BY <1>1, <1>4 DEF Calls, Heard
<1>. QED BY <1>2, <1>5, <1>6 DEF Simulated!Init, Envelopes, Runs

(* Whatever the worker, the clock, the cleanup and the resident do, in       *)
(* whatever order, an approval is good for one simulated call, one call goes *)
(* on at a time, only a call heard to its end is completed, and how a call   *)
(* ended is settled once (approve_voice_envelope, run_voice_simulation,      *)
(* end_voice_simulation, expire_voice_run, scrub_voice_outcome).             *)
THEOREM CallsAreSimulated ==
    ASSUME OutreachAssumption
    PROVE  Spec => ImplementsSimulation
<1>1. Init => CallsOk /\ Simulated!Init
  BY InitSimulates
<1>2. VoiceInv /\ CallsOk /\ [Next]_vars => CallsOk' /\ [Simulated!Next]_Simulated!vars
  BY NextSimulates
<1>. QED BY <1>1, <1>2, VoiceInvariance, PTL DEF Spec, ImplementsSimulation, Simulated!Spec
================================================================================

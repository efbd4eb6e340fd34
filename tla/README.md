# Neighborhood Fixer: specification and proofs

TLA+ specifications of the services under `src/services`, the TLC configurations
that check them on small instances, and theorems that TLAPS proves for every
instance.

    tlc -workers 2 -config SubmissionSafety.cfg MCSubmission   # likewise ...Overlap, ...Liveness
    tlc -workers 2 -config Portal.cfg MCPortal                 # Store, Tracking, Upload, CaseLinking,
                                                               # Outreach, Workflow likewise
    tlapm SubmissionProofs.tla        # also PortalProofs, StoreProofs, TrackingProofs, UploadProofs,
                                      # CaseLinkingProofs, VoiceProofs, WorkflowProofs

`PROJECT.json` lists the runs, the theorems, the lines of code each definition
translates, a mutant of the code for each property, the hazards of the code and the
findings.

## 1. The system

A resident reports a defect with photos. The observation is analysed, matched with
nearby cases and, once the resident confirms, becomes an *incident* with a report
draft. The resident approves one exact revision; a job runner then files it at the
agency's portal through a browser, exactly once, and follows the agency's ticket.
Around this core are evidence upload, official-contact research and simulated
email and voice outreach. Locally the services are processes on one SQLite file;
on AWS they are Lambdas on one DynamoDB table, started by Step Functions.

| component | state | operations | neighbours |
| --- | --- | --- | --- |
| submission workflow (`api/domain.py`) | incident, draft, approval, attempt, job, operation, ticket | make_draft, approve, cancel, reconcile, claim_job, run_job, execute_submission, mark_unknown, record_receipt | store, browser, portal |
| local worker (`worker/main.py`) | none but its stack | poll, run a job, stop | submission workflow |
| browser (`worker/browser.py`) | one page | submit_report, lookup_receipt, get_ticket_status | portal; calls back `before_write` |
| receiving portal (`portal/main.py`) | grants, tickets, attempt index, attachments | create_grant, report, submit, lookup, change_status | browser |
| store (`api/store.py`, `agents/aws_storage.py`) | records, workspace revision | atomic: get, put, delete, list, commit | everyone |
| tracking (`api/domain.py`) | ticket, agency and resolution status, events, notifications | check_status, record_status, verification, follow | portal, jobs |
| admission, identity, quotas (`api/policy.py`) | workspace control record, residents, daily counters | check_admission, clerk_principal, consume_quota | every command |
| evidence upload | reservations, evidence, stored objects | reserve, finish, fail, reclaim, check_evidence | quotas, object store |
| observations and case linking | observations, geographic index, memberships | create, analyze, decide, link, unlink | model runtime, submission |
| official-contact research (`api/outreach.py`) | research, candidates, selection | start, claim, complete, fail, deadline, select | provider Lambda |
| email and voice outreach | draft, envelope, approval, run, captions, playback | draft, approve, run, end, expire, clean up | audio service, clean-up executions |
| AWS workflow (`agents/aws_workflow.py`, `infra/cdk`) | callback tokens, executions | start_operation, register_approval, wake_approval, run | Step Functions |
| model runtime, audio, HTTP API, web client | none that the rules depend on | | |

Components talk through the store: a command is one atomic block
(`authorized` for a resident, `job_transaction` for a runner), and what a runner
holds between two blocks is a copy of what it read. The exceptions are the browser
(it calls `before_write` back, in the middle of its run), the portal (HTTP) and
Step Functions.

### What is hard about it

* *The write outside any transaction.* The click cannot be committed together with a
  record. The code marks `write_started` first and treats everything after it as
  possibly sent.
* *Crashes.* A worker may vanish between any two atomic blocks; its job is leased for
  a while, claimed again, and the second runner must find out how far the first came.
* *Interleaving.* The resident may cancel, revise and approve again while a runner is
  between two blocks; the exception handlers then write a copy that is out of date.
* *Unreliable delivery.* The POST or its answer may be lost, late or repeated; the
  commit of a DynamoDB transaction may succeed although the call raised.
* *Time.* Previews, approvals, grants, leases, research and voice sessions expire.
* *Maintenance.* Admission may close between any two blocks.

`PROJECT.json` lists these hazards one by one, with the properties that cover them or
a note that says why none does.

### What makes each component correct

* submission: one click per attempt, one attempt per incident, an honest status
  (what is called cancelled, failed or handed off was not sent; what was sent stays
  reserved), a click only under a standing approval, everything settles;
* portal: one ticket per attempt for any number of POSTs, a ticket only with its
  attachments, a lookup that finds every ticket;
* store: commands appear to happen one after the other, and a failed one leaves
  nothing or everything;
* tracking: the status comes from the agency, polling ends, closure is not repair;
* upload: usage and reservations stay under the quota, what is counted is stored;
* linking: an observation belongs to at most one case, counts and memberships agree;
* research: candidates do not outlive their research, one claim, one outcome;
* voice: captions are deleted, an approved text only, an end is an end;
* AWS workflow: no wake-up is lost, every operation ends.

## 2. Plan

| module | contents | composed with | checked | proved |
| --- | --- | --- | --- | --- |
| `Submission` | workflow, runners, browser, portal as seen | refines `AgencyReport` and `Agency` | custody, one click, liveness, refinement | all but liveness |
| `Portal` | grants, racing POSTs, attachments, index, lookup, status changes | refines `Agency`; the agency of `Submission` and `Tracking` | receipts, evidence, lookup, refinement | all |
| `Store` | the DynamoDB transaction | refines `AtomicStore`; every other module takes a command that writes as one step | serializability | all |
| `Tracking` | polls, retries, record_status, demo control, verification, the unsettled submission | continues where `Submission` ends | chains, pursuit, history, termination | all but termination |
| `Upload` | quota, reservation, lease, S3 write, reclaim, report charge | refines `Ledger` | counters, charges, answers, refinement | all |
| `CaseLinking` | analyse, decide, link, unlink, share | refines `CaseBook`; opens the case of `Submission` | links, lists, photos, refinement | all |
| `Outreach`, `Voice` | area, research, selection, email; the simulated call | `Voice` EXTENDS `Outreach`, is checked with it and refines `Simulation` | purges, currency, refinement | all |
| `Workflow` | Step Functions executions, callbacks, wake-ups | runs the jobs of `CaseLinking` and `Submission` | no lost wake-up, tokens | all |

What is left, in order of worth:

* the idempotency records and quotas of outreach, and the audio claims of a voice turn;
* an abstract specification of what a workflow waits for, which `Workflow` would implement;
* a report of an incident from its approval to the closed ticket in one abstract specification,
  which `AgencyReport` and `Tracking` would share.

## 3. Modules

### `Submission`

One incident from its first draft on.

| variable | code |
| --- | --- |
| `incident` | the incident record: `submission_status`, `draft_id` (the revision), `attempt_id`, `ticket_id`, and how many chains of `check_status` jobs were started for the ticket |
| `expired` | revisions whose `expires_at`, copied into the approval, has passed |
| `attempts` | `SubmissionAttempt`: `status`, `write_started`, the approved revision |
| `approvals` | the status of the approval reserved with each attempt |
| `jobs` | the job and operation records; `claims` counts the values `lease_owner` has had, so it stands for the random token; `leased` is `lease_until > now` |
| `workers` | the stack of each runner: where it is in `run_job`/`execute_submission`, its job with its own token, its copy of the attempt, and the result or error on its way to the settlement |
| `admission` | the workspace's control record admits commands |
| `posts`, `tickets` | the form POSTs on their way and the portal's tickets |
| `clicks` | history variable |

Every action is one atomic block of the code with everything it writes, or one step
of the world outside: `CreateDraft`, `Approve`, `Cancel`, `Reconcile` (the resident);
`ClaimJob`; `PrepareSubmission`, `BeforeWrite`, `HandleRefusal`, `MarkUnknown`,
`RecordReceipt`, `ReadAttempt`, `Settle`, `SettleFailure` (the runner's blocks);
`BrowserStops`, `Click`, `BrowserReturns`, `LookupReceipt` (what happens between
them); `TransactionFails` and `Abandon` (a refused block and a dead runner);
`ExpireDraft`, `ExpireLease`, `SetAdmission`, `PortalAccepts`, `PortalRejects`.

Choices worth knowing when reading it:

* *A commit whose answer is lost.* On DynamoDB `transact_write_items` may raise after it
  has committed. `Committed` lets every writing block of a runner return or raise;
  `BeforeWrite` likewise, where the browser's guard turns the error into a failure
  before submission.
* *One pass of `claim_job`* may close several interrupted jobs before it leases one, all
  in one transaction; which ones it meets first depends on random identifiers, so the
  model takes any subset.
* *Stale copies.* `HandleRefusal`, `MarkUnknown` and `RecordReceipt` write the runner's
  `view`, as the code writes its local `attempt`.
* *Leases.* With `LeaseCoversRun` a lease runs out only after its runner is gone. The
  deployed settings ensure it: a Lambda is stopped after 300 s and its lease lasts
  360 s; locally one process runs one job at a time, and a lease outlives the
  browser's 90 s. Without it (`NF_LEASE_SECONDS` may be set to as little as 1) two runners of
  one job overlap.
* *Left out:* texts, events, notifications, the `version` and `updated_at` fields, photos
  other than "an attachment changed", routing (the incident of the model is one the
  registry supports), `agency_status` (it belongs to Tracking). A lookup or a status
  poll reads the portal without changing it.

### `AgencyReport`

What the workflow promises, without jobs, leases or runners: an unsent attempt is
reserved (`Reserve`) when none is, and may be given up again (`Release`) until it is
sent (`Send`); the agency accepts only what was sent (`Accept`), and the ticket the
incident follows is that of the attempt it is reserved for (`Learn`). `OneReport`
follows: one attempt is sent, and one ticket exists, per incident. `Submission`
implements it under the mapping `Reservation`, `Sent`, `tickets` and
`incident.ticket` (`ImplementsReport`). A run that is interrupted before the write
begins after its report was cancelled maps to `Reserve`: that is finding 2.

### `Agency`

What the workflow and the portal agree on: a payload is handed over for an attempt (`Transfer`),
at most one payload of an attempt is accepted (`Accept`), and only that one is answered with a
receipt (`Answer`). `OneTicket` follows. `Portal` implements it with grants as transfers, tickets
as what is accepted and redirected POSTs as what is answered (`ImplementsAgency`); `Submission`
implements it with the revision of each clicked attempt as the payload, the tickets it believes in
and the one its incident follows (`UsesAgency`). Each side thus keeps the other's assumptions: the
portal's that a payload comes with an attempt, the workflow's that an attempt has one ticket.
A portal payload holds more than the revision; that one attempt and revision make one payload is read
off the code, which freezes the payload with the attempt when it is approved (`domain.py:3314`).

### `SubmissionInvariant`, `SubmissionProofs`, `MCSubmission`

The inductive invariants, the proofs, and the instances for TLC.

### `Portal`

`services/portal/main.py`. `grants`, `tickets`, `index` and `objects` are the portal's
stored records; `requests` is the stack of each POST of a report and `clerks` that of
each `change_status`.

A POST is cut wherever it reads or writes: `Submit` (grant and form checks), `FindTicket`,
`StorePhoto` once per photo, `AcceptTicket` or `PutRaises`, `RereadTicket`, `PutIndex`, and
`Fail` anywhere between. `AcceptTicket` may raise after it has stored the ticket, as a
conditional put may whose answer is lost. `ReceiptKey` need not be injective: the code
shortens a hash, and compares the attempt wherever it uses the key. `FormOf` tells that a
form shows only part of a payload, so that two approved payloads may look alike to it;
`same_submission` compares the rest. `Lookup` is a pure read. Left out: HTML,
image decoding, the expiry of tickets by the table.

### `Store` and `AtomicStore`

`services/agents/aws_storage.py`. A transaction notes the revision (`Guard`), reads
(`Get`, with the cache; `ListItem`, one item of a query, past the cache), buffers (`Put`,
`Delete`), and commits in one conditional write that moves the revision (`Commit`), or
`Abort`s, or has written nothing (`CommitNothing`). `Commit` ends as `landed` or as `lost`:
the write took effect and the call raised. `AtomicStore` has one action, `Take`: a command
reads what is there and writes in the same step. Only commands that write are mapped to it.
The code does not validate those that only read; their answers may mix two revisions, and
nothing is claimed of them. Left out: records that the table deletes when their time to live is
over. Such a deletion does not move the revision, so for a command that has read the record it is
as if the record had vanished in between, and `Take` would not explain it. Also left out: a `list` of
more records than one page.

### `Tracking`

`check_status` jobs of one ticket (`domain.py`), from the moment `record_receipt` has
enqueued the first. `jobs` holds one record for each poll, `runners` what a runner has
seen at the portal. `Claim`, `Poll`, `Record`, `Settle`, `SettleFailure` are the blocks of
`run_job`; `Record` updates incident, ticket and history and enqueues the next
poll. `RecordFails`, the faulty halves of `Record` and `Settle`, and `Crash` are the
failures. `DemoSets` and `DemoRecords` are the two halves of the demo control, between which
a poll may run. A reading is a status with a closure note, and `IsNews` compares both, as
`record_status` does. `AgencyMoves` lets the agency go from any reading to any other, closed or
not. `checks` counts a job's place in its chain.

The job that stored the receipt may not be settled yet. It ends by `SubmissionSettles`, or by
`SubmissionUnknown`: recovery in `claim_job`, or a runner that comes back late, calls `mark_unknown`,
which writes `UNKNOWN` over the incident's agency status and leaves the ticket alone. Only a later
`record_status` repairs that. So `HistoryIsNews` does not say that incident and ticket agree; it says when they may not.

Left out: delays between polls (a job may run at once), `IN_PROGRESS` (handled like `OPEN`), and
the notices that `record_status` hands out. It tells the followers it finds in one page of 200
subscription rows, and rows stay when somebody unfollows, so nothing is claimed of who is told.

### `Upload`

`persist_cloud_upload` and its transactions (`policy.py`), and the charge and replay of
`create_observation`. A photo is named by the call that brought it, since each call makes
evidence with a new identifier. `reports` notes the day each observation was charged to, 0 if it was
not. `flying` holds writes to S3 that the caller gave up and that
land later. A lease may run out under a busy call, and a call that was rejected may meet a
request that somebody else has reclaimed. Days pass at any time; a slot is settled on the
day it was charged to. Left out: image inspection and the local mode, in which an upload is
one file and one record.

### `Ledger`

What a resident may rely on when sending photos, without calls, leases, counters or a bucket: a key takes
a slot of the day (`Take`) where its resident and the workspace have room, gives it back (`Give`) or
keeps one photo in it, on the day it was taken (`Use`), and every answer names that photo
(`Answer`). The room is counted over the slots themselves, so a counter that went wrong in the code
would let in a call that `Take` does not. `Upload` implements it (`ImplementsLedger`): a reserved
request is a held slot, a completed one a used slot, `evidence` the photos kept, and the calls that have
returned are the answers. Leases, S3 writes and the whole dance of reclaiming map to stutters.

### `CaseLinking`

`obs` and `cases` are the observation and incident records, `members` and `followers` the records
beside them, `released` the photos whose evidence record is `public_approved`, `jobs` the operations
keyed by request as `reasoning_request` keys them. A case is its number. A content is represented by the
revision that wrote it, so that an analysis knows which text it is about. `Claim` may take a
job from a runner that is still in it (counted as a fault, as leases are longer than
calls); neither runner notices.

A photo is released in three ways: by a decision that links its observation, by `Approve`, which
publishes or withdraws whichever of the owner's own photos the draft names and may come again after a
new draft, and by `Verify`, which publishes any photo of the resident who verifies, linked or not. `agreed` is a
history variable: what the author last agreed to, by a decision about the present revision or by a
command. `Follow` and `Unfollow` are the subscription endpoint. `PageSize` is the page of
subscription rows that `subscribe` counts in; `CaseLinkingAssumption` asks that one page holds those of a
case, as the limit of followers is not kept beyond it. Left out: pages of candidates (the nearest 8,
cells of 100), and the case a photo record names, its purpose and its thumbnail.

### `CaseBook`

What residents may rely on when observations become cases, without jobs, leases or a model. An
observation has a revision and perhaps a case; its author asks for a case or for one of its own
(`Ask`), and it is linked (`Begin`, `Join`) only as was asked of the revision it still has. A patch
(`Revise`) and an unlink (`Leave`) make a new revision, so whatever was asked before has no power
over it any more; the observation a case began with never leaves it. `CaseLinking` implements it
(`ImplementsCaseBook`): `Asked` are the decisions in jobs and in the hands of runners, which may hold
one the store has already settled.

### `Outreach` and `Voice`

One case. `case` holds the incident's pointers; the records behind them keep the status,
and what they were made from. Outside the database are `cached` (candidates in the
temporary table) and `sessions` (captions there): effects on them happen when they are
made, whether or not the transaction around them is committed. The workers
(`search`, `worker`) are cut at each effect and each transaction. Deadlines may pass at any
moment, so an action that needs one to have passed has no guard for it. `cleanup` is the
execution that `start_voice_cleanup` starts; it fires when the worker that scheduled it is
over, which the settings ensure (600 s against a Lambda of 300 s). `closing` is the deletion
that a committed command is about to make and may not get to.

### `Simulation`

What a resident may rely on when approving a simulated call, without workers, captions, sessions
or timers: an approval is given once and good for one call (`Approve`, `Withdraw`, `Begin`), one
call goes on at a time, a completed one was heard to its end (`Hear`), and how a call ended is settled once
(`End`). A call that failed may still be put away as ended, as `end_voice_simulation` does not look at
the status, but it is never completed. `Voice` implements it (`ImplementsSimulation`) with `GENERATING`
and `RUNNING` as one state; everything about research, contacts and drafts maps to a stutter, or to
`Withdraw` where it drops an envelope.

### `Workflow`

`services/agents/aws_workflow.py` with the state machine in `infra/cdk/stack.ts` and the
routes of `api/main.py`. `execs` has the state of the execution named after an operation,
`callbacks` the record of each revision with its task token (a token is named after the
execution that owns it), `threads` the API requests and the registering Lambdas.
`Dispatch`, `ReadCallback`, `Send` and `Mark` are separate steps, since each is a call or a
transaction of its own. `Completed` abbreviates what a job does to the case; `Submission`
and `CaseLinking` say it in full. Any of these steps may be cut off (`CutOff`): admission is closed
(`check_admission`, which `wake_approval` calls twice), the commit conflicts, the call fails or the
Lambda dies. A request that is cut off after an approval wakes nobody, and the revision is noted in the history
variable `unwoken` until somebody approves it again; a registering Lambda that is cut off ends its
execution, as the state machine catches its error.

## 4. Runs

| run | instance | checks | states |
| --- | --- | --- | --- |
| `SubmissionSafety` | 2 attempts, 1 lookup, 2 runners, 2 revisions, 2 claims per job, lease covers run | custody, honesty, click under approval, refinement | 2.0 million |
| `SubmissionOverlap` | 1 attempt, 1 lookup, 2 runners, overlapping leases, maintenance | one click, issued ticket | 1.3 million |
| `SubmissionLiveness` | 1 attempt, 1 lookup, 1 runner, 3 claims per job | jobs settle, nothing stays in flight | 33 thousand |
| `SubmissionReconciled` | 2 attempts, 1 lookup, 1 runner | finding 1 | |
| `SubmissionCancelled` | the same | finding 2 | |
| `Portal` | 2 attempts with one receipt key, 2 payloads of one form, 2 grants, 2 POSTs, 2 status changes, 2 photos | receipts, evidence, lookup, fixed tickets, refinement | 200 thousand |
| `Store` | 2 commands, 3 records, 2 writes at most | serializability, cache | 670 thousand |
| `Tracking` | 2 runners, 1 demo POST, 1 answer, 1 closure note, chains of 2, 2 tries, history of 2, 4 jobs, 1 fault, 2 changes | chains, pursuit, history, residents' word, termination | 1.8 million |
| `Upload` | 2 residents with a key each, 3 calls, 2 days, 1 upload and 1 report per resident, 1 upload and 2 reports for the workspace | counters, charges, answers, refinement | 244 thousand |
| `CaseLinking` | 2 residents, 3 observations in reach, two of them of one resident, 2 runners, 2 revisions, 2 live jobs, 1 fault, 1 follower | links, lists, analyses, photos, refinement | 413 thousand |
| `Outreach` | 2 previews, researches, envelopes and runs, 1 draft, 1 contact, 8 records in all | purges, previews, runs, captions, refinement | 1.6 million |
| `Workflow` | 4 requests, 3 operations, 2 revisions, 1 fault | wake-ups, tokens | 1.4 million |

*Why the bounds are enough to be interesting.* Two attempts are what a second report of
one incident takes; two runners what an overlap takes, and a third one adds no new kind
of conflict since all of them meet in one record. Two claims per job allow one crash and
a recovery of each job, three two of them. Two revisions allow an approved revision to be
replaced by another. `MaxDrafts` and `MaxClaims` are the only bounds on counters; a job at
its last claim is assumed not to lose its runner again, since a job that crashes for
ever never settles. Attempts and runners are interchangeable, and the safety runs use that
symmetry; the liveness run does not.

In the other runs the bounds are the least that let the case of each hazard happen. Two
POSTs race for one ticket, and colliding keys make them race for the ticket of *another*
attempt. Two commands with different reads and writes on three records give every conflict of
a read with a write. A chain of two polls with one fault forks once, and `MaxJobs` = 4 holds all
its jobs. Limits of one are reached by the second call, and the third finds what the
first two left. Two observations are a case and a link to it, and a third by the author of the second is
what it takes for a membership to outlast an unlink; revision 2 is one patch or one
unlink after the first analysis. Two constraints of `MCCaseLinking` keep what would only multiply apart.
`FirstIsTried`: only the first case is fixed or left by a follower, and commands about photos do
not meet faults, fixed cases or followers who leave. `Latecomer`: the third observation comes when
the first two are where it needs them, the case is shared and undisputed and no fault has
happened, and only its own jobs are live from then on. The proofs need neither. Two researches, envelopes and runs let each late worker meet
its successor; `MaxRecords` only leaves out behaviours that use every kind twice. Three operations
are a decision, a second decision that registers for the same revision, and a submission.
`MaxFaults` counts crashes, lost answers, failed calls and, in `Workflow`, requests that find admission
closed, of all actors together.

`TypeOK` of each module documents its state. It is no property of a run; it is proved of every
module, as a part of its inductive invariant.

*Deadlock* is not checked: a workflow whose jobs are settled and whose drafts are expired may
stop, and in the other modules every POST, command or call of the instance may have been used.

*Fairness* (`Tracking`): the same polling loop, with weak fairness of each runner's step and of
`ExpireLease`; the agency, the demo control and residents owe nothing, and a poll may fail every
time. `PollingEnds` is claimed of that loop only. On AWS a job whose execution has died is not run
again, which ends the polling in another way.

*Fairness* (`SubmissionLiveness`): the worker's loop polls without end and runs what
it has claimed (weak fairness of `Claim` and `Run`), and time passes (weak fairness of
`ExpireLease`). Nothing is assumed of the resident, of expiry or of the portal: the browser's
time-out is what ends a run whose portal is silent. Admission stays open in this run: during
maintenance the code does not claim, so nothing settles.

## 5. Findings

1. **A confirmed receipt can be lost for good** (`SubmissionReconciled`). The job's runner
   records the receipt and dies before it settles the job. Recovery sees `write_started` and
   marks the attempt and the incident `OUTCOME_UNKNOWN` without looking at the attempt's status
   (`domain.py:3504`). The resident asks for a lookup; it finds the receipt; `record_receipt`
   returns at once because the incident has a ticket (`domain.py:4092`); the operation reports
   `RECEIPT_CONFIRMED` and the incident stays `OUTCOME_UNKNOWN`, however often this is repeated. The
   same `mark_unknown` writes `UNKNOWN` over an agency status that was known
   (`Tracking.SubmissionUnknown`); the next poll that is recorded repairs that one.
2. **A cancelled report can become an uncertain one** (`SubmissionCancelled`). The resident
   cancels while the browser is opening; the run is interrupted before `before_write`; the
   branch for unexpected interruptions (`domain.py:4073`) has no check for `CANCELLED`, unlike
   the one above it, and writes `OUTCOME_UNKNOWN`. Nothing was sent, but the incident is
   reserved and no new report can be approved.

Neither lets a second report out: `ClickOnce`, `SentStaysReserved` and `ImplementsReport` hold.

## 6. Proofs

`SubmissionProofs` proves, for any sets of attempts, lookups and runners and any bounds, from the
assumptions on the constants alone (`ConstantsAssumption`):

* `TypeCorrect`: `Spec => []TypeOK`;
* `AtMostOneClick`: `Spec => []ClickOnce`, with or without overlapping leases;
* `TicketsAreIssued`: `Spec => []TicketIsIssued`.

*The argument for one click.* Call an attempt *spent* when nobody can pass `before_write` for it
any more: it is no longer in flight, or its write has started and every runner of its job that has
not yet passed `before_write` holds an old token. Tokens are never handed out twice
(`TokensUnique`), so when the holder of the current token starts the write, everybody else's is old
(`AuthorizedOnce`), and recovery never hands a new one to a job whose write has started: it closes
the job instead. A spent attempt stays spent (`SpentStays`), though `write_started` itself may be
reset by a stale runner: by then the attempt is closed. A runner past `before_write` that has not
clicked is the only one, and its attempt has no click (`ClicksOk`). `TypeOK` and these parts hold
each other up, since most actions follow a job to its attempt: together they are the inductive
`ClickInv`.

The proofs first flatten what each action does to runners, jobs and attempts into effects
(`RunnerEffects`, `WriteEffects`, `ClaimEffects`, ...), so that the proofs about the invariant never
expand a record update.

Its second half proves, from the same assumptions and `LeaseCoversRun`:

* `SentIsReserved`, `ClosedIsUnsent`, `ReservationIsConsistent`, `ConfirmationIsOwn`: the
  invariants of `SubmissionSafety`;
* `ClicksAreApproved`: `Spec => ClickIsApproved`, an action property;
* `WorkflowImplementsReport`: `Spec => ImplementsReport`, and with it `OneReportPerIncident`;
* `WorkflowUsesAgency`: `Spec => UsesAgency`.

*The argument for custody.* None of these is inductive. What makes them so (`CustodyInv`) is
that `write_started` is the truth: a started attempt is the incident's, approved and reserved
(`StartedIsReserved`), and everything sent is started (`SentIsStarted`). The danger is in the
handlers that write a runner's copy of the attempt over the record. They are harmless for three
reasons. A busy runner is alone on its job, because its lease has not run out (`Exclusive`; this is
the only place where `LeaseCoversRun` is used, and the only statement a shorter lease would break
directly). Its copy agrees with the record in `write_started` and in the revision (`ViewsOk`), except that
of a runner about to clear the mark of a write it knows not to have happened, and that of a lookup
which has found nothing and writes nothing. And the one other kind of
job on the same attempt, a lookup, exists only after the incident has left `IN_FLIGHT`
(`LookupsOk`), so no write starts behind its back. The steps of a run are first reduced to seven
effects (`RunEffects`), and each effect, claim and command is shown to keep the invariant in a lemma
of its own.

*The refinement* (`StepRefines`) maps the click to `Send`, the first receipt to `Learn`, an approval
to `Reserve`, whatever closes an attempt as unsent to `Release`, and everything else to a stutter.
The refinement of `Agency` (`HandoverStep`) reads `Send`, `Accept` and `Learn` of that report as
`Transfer`, `Accept` and `Answer`, so that only the payloads are new: the revision of a sent attempt is the
incident's, which nobody can replace while the incident is reserved (`RevisionKept`).

`StoreProofs` proves, for any number of commands and records (`StoreAssumption`), `TypeCorrect`,
`WritersAreAlone`, `CachesAreCurrent`, and `StoreIsAtomic`: `Spec => ImplementsAtomicStore`.
`OneWriterPerRevision`, the subject of the first, is no property of the run: it is what the refinement rests on.

*The argument.* The revision never falls, so a command's guard is at most the revision
(`GuardsArePast`). While the two are equal nobody has committed since the guard was noted, so
everything the command has read is still so (`ReadsAreCurrent`). A commit makes its own guard and
every equal one old, for good: so no two commands take effect on one revision. A successful commit
therefore reads what is there and writes in one step, which is `Take` with K the records it has
read; all other actions leave records and outcomes alone and are stutters.

`PortalProofs` proves, for any receipt keys, payloads, forms, POSTs and status changes
(`PortalAssumption`), `TypeCorrect`, the six properties of the run, `PortalIsAgency` among them, and
with that one `OneTicketPerAttempt`.

*The argument.* Every step only adds: tickets keep attempt, payload, link and manifest, photos and
index entries stay, and grants never change what they were given for (`Grows`). What a POST or a
status change remembers is therefore as true at the end as when it was read. One statement
for each kind of record says what that is: a ticket is stored under the key of its attempt with its photos
and a history that ends with its status; a POST that has a link has it from the ticket it names;
a clerk's copy is an older state of the ticket; an index entry names the derived key.

*The refinement* (`StepRefines`) maps the creation of a grant to `Transfer`, a stored ticket to `Accept` and
the end of a POST to `Answer`. An attempt is accepted once because its ticket lies under the key
derived from it: a vacant key means that the attempt has none, although a taken one may
belong to another attempt. What is answered is the POST's own attempt and payload, which the
comparison with the ticket found has made sure of (`AcceptRefines`, `RequestRefines`).

`UploadProofs` proves, for any residents, calls, days and limits and finitely many keys
(`UploadAssumption`), `TypeCorrect`, `QuotasAreExact`, `LimitsAreKept`, `ReportsAreExact`, `OnePhotoPerKey`
and `UploadsKeepTheLedger`: `Spec => ImplementsLedger`.

*The argument.* A counter is the cardinality of a set of requests, and each transaction moves one
request from one status to another (`CountChanges`): a reservation adds it to the slots held of
its scopes and day, a completion moves it to the uploads, a rejection takes it away. The day is the
one noted in the request, so a slot settled after midnight is found where it was charged.
A reservation is the only step that can raise the sum of the two, and it looks at the sum first.
What a call remembers of its request stays true enough (`CallOk`): a completed request
keeps its photo. Reports are counted in the same way: each charge moves one key from "never" into
the set of one day (`ReportsAreExact`), and a replay finds the key already in one.

*The refinement* needs no more than that invariant. Since the counters are the cardinalities of the very sets
`Ledger` counts (`TakenIsUsed`), a reservation that finds both below their limits is a `Take`; a
completion finds the slot held with the request's photo and day and is a `Use`. What a finished call
answers is read off its copy of a completed request, whose photo is for good (`CallAnswers`), so a call that
ends on somebody else's photo is an `Answer`. Every other step leaves slots, photos and answers alone.

`TrackingProofs` proves, for any runners, notes, answers and bounds, `TypeCorrect` and the run's
four invariants: `ChainsNeedFaults`, `PursuitGoesOn`, `HistoryIsConsistent`, `ResidentsHaveTheWord`.
`TrackingAssumption` asks that the runners are finitely many, as they are counted, and that what a
resident may answer is none of the values the code itself sets before.

*The argument.* What is recorded needs only itself (`RecordedOk`). For the chains, "at most one live
job, and one for each fault" is not inductive: between `Record` and the settlement there are two live jobs
without any fault, and a runner whose settlement was committed and not answered may bring a completed job back.
`ChainsOk` counts both: live jobs and runners about to undo a completion are at most one,
the faults, and the runners that have recorded. Every action changes these counts by what the runner it
moves adds and takes (`Share`). Pursuit (`Pursues`) names the job that carries it on: one that is still
to record, has failed for good, or was the last of its chain; recording hands it to the job enqueued in
the same transaction.

`CaseLinkingProofs` proves, for any residents, observations, runners, revisions and limits
(`CaseLinkingAssumption`), `TypeCorrect`, the run's four invariants (`LinksAgreeAlways`,
`OwnListsAreRight`, `ReviewsAreCurrent`, `PhotosAreConsented`), `RevisionsAdvance`, an action property, and
`KeepsTheCaseBook`: `Spec => ImplementsCaseBook`.

*The argument.* The records of observations and cases are consistent by themselves (`RecordOk`): an
observation is in the list of the case it names, once, and in no other, and memberships are the authors in the
lists. What a late or doubled job may do to
them is settled by its revision. Revisions only go up and none gets another text
(`RevisionsAdvance`), so a job's revision tells for good whether it is about what is there
(`RequestOk`). When it is, the model has seen the present text and a decision has an
analysis to rest on; when it is not, the job leaves them alone.

*Photos* take a second invariant on top of that one (`AgreementInvariance`). Whatever is released was released by
a command its author has not taken back, or by a decision whose link stands (`ReleasesOk`); and a
decision that may still link an observation is about its present revision, so its author stands by
it (`DecisionsOk`). A patch or an unlink makes a new revision, and with it every decision under way powerless.

*The refinement* takes what a runner or a job asks for from the same `RequestOk`: a decision names the
observation, the revision it was made about and the case, and none of these changes on its way through
claims, retries and crashes, so `Asked` only grows by `Decide` and is only forgotten otherwise. A job that is
about to link has found the observation unlinked and at its revision, in the transaction that links
it; that is `Begin` or `Join`.

`VoiceProofs` proves, for any contacts and any number of previews, researches, drafts, envelopes
and runs (`OutreachAssumption`), `TypeCorrect`, the run's four invariants (`SelectionHides`,
`PreviewsStayCurrent`, `RunsAreCurrent`, `CleanupComes`), an action property, `ReceiptsStay`, and `CallsAreSimulated`:
`Spec => ImplementsSimulation`. It is about `Outreach` and `Voice` together.

*The argument.* A research that can be selected from has no worker left that could still
store candidates (`SearchesOk`), so what a selection purges stays away (`SelectionOk`). The current draft
and envelope are of the contact selected now (`PreviewsOk`), since whatever replaces selection or research drops
both. A run's envelope is the current one exactly while the run is active, and the run is the case's
(`RunOk`): no step replaces the envelope while a run is active, and none reactivates the run of an
old one. Captions are stored only by a worker that has scheduled the cleanup, and the cleanup begins
when that worker is over, so nobody stores behind its back (`CaptionsOk`). A run with a
receipt shows it as its status, and every end, expiry and late worker looks at one of the two first.

*The refinement* needs more than this (`CallsOk`): the case's current envelope awaits its approval, has it, or
is being played by the active run (`CurrentOk`), the approval a run was made from is used up, only a run in progress is
played, and a run that has ended shows what its receipt says (`CallOk`). Then each step that moves an
envelope or a run moves them as `Simulation` does, and those that drop the previews withdraw one approval at
most (`WithdrawStep`).

`WorkflowProofs` proves, for any requests, operations, revisions and faults
(`WorkflowAssumption`), `TypeCorrect`, `TokensStayOnRecord` and `WakeUpsArrive`.

*The argument.* A token is *handed out* when its execution has registered (`Waited`), which is for
good, and it is consumed only after it was sent, when its execution waits no more (`CallbackOk`,
`ThreadOk`). So erasing a consumed token never takes away one that is awaited, even if the
record was registered again between the sending and the erasing. A wake-up is *owed* (`Owed`) to an
execution that awaits an approved revision. Two steps bring a debt about, the approval and the registration, and
each leaves a thread that is going to wake that revision. The thread that holds the debt hands it to its
own next step: it finds the token on record, unconsumed, and takes it with it; sending it ends
the wait. A request that is cut off drops the debt (`CutOffInv`) and notes the revision in `unwoken`, so that
nothing is owed to it until the next approval, which owes it again; a registering Lambda that is cut off
ends the wait that it was about to wake. No other step disturbs the
debt, as those of executions that have not begun to wait approve nothing (`EarlyInv`).

*Only model-checked:* liveness (`JobsSettle`, `NothingStaysInFlight`, `PollingEnds`), which is out of the
prover's reach, as is `ENABLED`, and the two findings. Every other property of a run is proved.
`CustodyInv` was also checked by TLC on the instance of `SubmissionSafety` before it was proved.

## 7. Not modelled

* *Of the modelled components:* the deletion of records when their time to live is over; notices and
  subscription pages; the case and the purpose noted with a photo, and thumbnails, which are
  read from ids that may be stale (a hazard without a property);
  the idempotency records, quotas and deadlines-as-times of outreach;
  `claim_voice_audio`, playback tokens and the validation of a voice script; the status polling of a
  voice run; local mode where it differs (uploads, providers called inline); read-only routes,
  which on DynamoDB may see two revisions at once (a hazard without a property, see `PROJECT.json`).
* *Identity:* sessions, residents, the clerk of a command. Commands are modelled after they have been
  authorized; `SetAdmission` is the one gate that changes under a running command.
* *Model runtime and engine:* prompts, schemas and model answers, which the domain treats as untrusted
  data. That an answer may fail or come late is in `CaseLinking`.
* *Audio service, remote browser, traces:* they keep no state that another part reads.
* *Projections, pagination, localisation, layout, web client:* no rule depends on them.
* *Infrastructure and scripts:* declarative, except for the state machine, which is in `Workflow`. The
  scripts are run by an operator while admission is closed.

----------------------------- MODULE CaseLinking ------------------------------
(***************************************************************************)
(* From an observation to a case: create_observation, patch_observation,   *)
(* start_analysis, decide, unlink_observation and the analyze and decide   *)
(* jobs of services/api/domain.py, with what approve and verification do   *)
(* to the sharing of a case and of photos, and who follows.                *)
(*                                                                         *)
(* A job reads an observation, asks a model outside any transaction, and   *)
(* writes in a later transaction.  None of its transactions looks at the   *)
(* lease, so two runners may be inside one job; the resident may patch,    *)
(* decide again or unlink in between.                                      *)
(*                                                                         *)
(* A case is its position in the sequence of cases created.  What a photo  *)
(* is released for, the case it names and the thumbnail of a case are left *)
(* out, and so is what becomes of a report once it is approved.            *)
(***************************************************************************)
EXTENDS Naturals, SequencesExt

CONSTANTS
    Residents,
    Observations, \* every observation brings one photo, of its own name
    Author,       \* the resident who makes an observation
    Share,        \* what a text lets be shared: of <<observation, revision>>
    Vague,        \* texts that leave information missing: <<observation, revision>>
    Near,         \* pairs of observations in reach: category, distance, asset
    Supported,    \* observations with a supported routing
    None,         \* no runner
    Runners,
    MaxFollowers, \* 20
    PageSize,     \* 200, the subscriptions that tx.list answers with
    MaxRevision,  \* bound on patches and unlinks of an observation
    MaxLive,      \* bound on jobs that wait or run at once
    MaxFaults     \* bound on crashes, models that fail, and leases that run out

ASSUME CaseLinkingAssumption ==
    /\ Author \in [Observations -> Residents]
    /\ Share \in [Observations \X (1 .. MaxRevision) -> {"nothing", "report", "photos"}]
    /\ Vague \subseteq Observations \X (1 .. MaxRevision)
    /\ Near \subseteq SUBSET Observations
    /\ Supported \subseteq Observations
    /\ None \notin Observations
    /\ {MaxFollowers, MaxRevision, MaxLive} \subseteq Nat \ {0}
    /\ MaxFaults \in Nat
    /\ IsFiniteSet(Residents)
    /\ Cardinality(Residents) <= PageSize \* one page holds a case's subscriptions

VARIABLES
    obs,       \* the observations made
    cases,     \* the incidents
    members,   \* membership and user_incident records: <<case, resident>>
    followers, \* subscriptions that follow: <<case, resident>>
    released,  \* the photos whose evidence record is public_approved
    agreed,    \* history: <<photo, how>>, what its author last agreed to
    jobs,      \* the operation of each request, and who holds its lease
    runners,   \* where each runner is, and what it read
    faults     \* history: faults so far

vars == <<obs, cases, members, followers, released, agreed, jobs, runners, faults>>
record == <<obs, cases, members, followers, released>>

CaseIds == 1 .. Len(cases)

Linked(o) == o \in DOMAIN obs /\ obs[o].incident # 0

-------------------------------------------------------------------------------
(* Types *)

(* text is the revision that wrote the content; analysis is the text         *)
(* analysed, or 0.                                                           *)
Observation ==
    [version : 1 .. MaxRevision, text : 1 .. MaxRevision,
     analysis : 0 .. MaxRevision, incident : Nat]

Incident ==
    [observations : Seq(Observations), count : Nat, text : 1 .. MaxRevision,
     analysis : 0 .. MaxRevision, shared : BOOLEAN, fixed : BOOLEAN]

(* reasoning_request keys an operation by resident, kind and payload; case 0 *)
(* is the answer that this is a different issue.  A failed operation is left *)
(* out: it is neither run again nor an answer to the same request.           *)
Request ==
    [kind : {"analyze", "decide"}, obs : Observations, version : 1 .. MaxRevision, case : Nat]

IdleRunner == [pc |-> "idle", job |-> <<>>, seen |-> 0]

TypeOK ==
    /\ \A o \in DOMAIN obs : o \in Observations /\ obs[o] \in Observation
    /\ cases \in Seq(Incident)
    /\ members \subseteq CaseIds \X Residents
    /\ followers \subseteq CaseIds \X Residents
    /\ released \subseteq DOMAIN obs
    /\ agreed \subseteq (DOMAIN obs) \X {"decision", "command"}
    /\ \A q \in DOMAIN jobs :
          /\ q \in Request
          /\ jobs[q] \in [status : {"live", "completed"}, owner : Runners \cup {None}]
    /\ \A w \in Runners :
          /\ runners[w].pc \in {"idle", "claimed", "thinking", "done", "raised"}
          /\ runners[w].pc # "idle" => runners[w].job \in Request
    /\ faults \in 0 .. MaxFaults

Init ==
    /\ obs = <<>>
    /\ cases = <<>>
    /\ members = {}
    /\ followers = {}
    /\ released = {}
    /\ agreed = {}
    /\ jobs = <<>>
    /\ runners = [w \in Runners |-> IdleRunner]
    /\ faults = 0

-------------------------------------------------------------------------------
(* What residents see *)

Member(c, u) == Author[cases[c].observations[1]] = u \/ <<c, u>> \in members

Accessible(c, u) == cases[c].shared \/ Member(c, u)

(* candidates, but for the pages of 100 and the 8 nearest.                   *)
Candidates(o) ==
    {c \in CaseIds :
        /\ {o, cases[c].observations[1]} \in Near
        /\ Accessible(c, Author[o])
        /\ ~cases[c].fixed}

(* list_incidents with mine: the index user_incident, then the membership.   *)
Mine(u) == {c \in CaseIds : <<c, u>> \in members /\ Accessible(c, u) /\ Member(c, u)}

-------------------------------------------------------------------------------
(* The residents' commands *)

(* tx.put of a record that may be new.                                       *)
Put(f, x, value) == [y \in DOMAIN f \cup {x} |-> IF y = x THEN value ELSE f[y]]

CreateObservation(o) ==
    /\ o \notin DOMAIN obs
    /\ obs' = Put(obs, o, [version |-> 1, text |-> 1, analysis |-> 0, incident |-> 0])
    /\ UNCHANGED <<cases, members, followers, released, agreed, jobs, runners, faults>>

Patched(o) ==
    [obs[o] EXCEPT !.version = @ + 1, !.text = obs[o].version + 1, !.analysis = 0]

(* A request about an earlier revision cannot be made again: what is left of *)
(* it is the job, unless that is over.                                       *)
Repeatable(o) == Restrict(jobs, {q \in DOMAIN jobs : q.obs # o \/ jobs[q].status = "live"})

PatchObservation(o) ==
    /\ o \in DOMAIN obs /\ ~Linked(o)
    /\ obs[o].version < MaxRevision
    /\ obs' = [obs EXCEPT ![o] = Patched(o)]
    /\ agreed' = agreed \ {<<o, "decision">>}
    /\ jobs' = Repeatable(o)
    /\ UNCHANGED <<cases, members, followers, released, runners, faults>>

(* enqueue: a request that is pending, running or completed is answered with *)
(* its operation; one that failed gets a new one.                            *)
Enqueue(q) ==
    /\ q \notin DOMAIN jobs
    /\ Cardinality({p \in DOMAIN jobs : jobs[p].status = "live"}) < MaxLive
    /\ jobs' = Put(jobs, q, [status |-> "live", owner |-> None])
    /\ UNCHANGED <<record, runners, faults>>

StartAnalysis(o) ==
    /\ o \in DOMAIN obs
    /\ Enqueue([kind |-> "analyze", obs |-> o, version |-> obs[o].version, case |-> 0])
    /\ UNCHANGED agreed

(* The share_public and share_evidence of the present text.                  *)
Sharing(o) == Share[<<o, obs[o].text>>]

(* What the author has now decided on includes the sharing of the photo.     *)
AgreedBy(o) == agreed \cup {<<p, "decision">> : p \in {x \in {o} : Sharing(x) = "photos"}}

Decide(o, c) ==
    /\ o \in DOMAIN obs /\ ~Linked(o)
    /\ obs[o].analysis # 0 /\ <<o, obs[o].text>> \notin Vague
    /\ c # 0 => c \in Candidates(o)
    /\ Enqueue([kind |-> "decide", obs |-> o, version |-> obs[o].version, case |-> c])
    /\ agreed' = AgreedBy(o)

(* observation_ids.remove: the first that is o.                              *)
Without(list, o) ==
    RemoveAt(list, CHOOSE i \in DOMAIN list : list[i] = o /\ \A k \in 1 .. i - 1 : list[k] # o)

(* Mutants of StillContributes: the last one out, not the last of the        *)
(* resident; and a membership that goes with every observation.              *)
StillContributesAnyone(c, u, o) == Len(Without(cases[c].observations, o)) > 0 /\ u \in Residents
StillContributesAsFounder(c, u, o) == Author[cases[c].observations[1]] = u /\ o \in Observations

StillContributes(c, u, o) ==
    \E p \in ToSet(Without(cases[c].observations, o)) : Author[p] = u

Unlinked(o) == [obs[o] EXCEPT !.incident = 0, !.version = @ + 1]

Shrunk(case, o) == [case EXCEPT !.observations = Without(@, o), !.count = @ - 1]

(* unlink_observation: not the observation a case began with.                *)
Unlink(o) ==
    /\ Linked(o)
    /\ obs[o].version < MaxRevision
    /\ LET c == obs[o].incident
           u == Author[o]
       IN  /\ cases[c].observations[1] # o
           /\ cases' = [cases EXCEPT ![c] = Shrunk(@, o)]
           /\ members' = IF StillContributes(c, u, o) THEN members ELSE members \ {<<c, u>>}
    /\ obs' = [obs EXCEPT ![o] = Unlinked(o)]
    /\ released' = released \ {o}
    /\ agreed' = agreed \ ({o} \X {"decision", "command"})
    /\ jobs' = Repeatable(o)
    /\ UNCHANGED <<followers, runners, faults>>

(* What a command says of photos: a photo that is linked has no decision to  *)
(* come that would release it again.                                         *)
Agree(photos) == agreed \cup (photos \X {"command"})

Disagree(photos) ==
    agreed \ ((photos \X {"command"}) \cup ({o \in photos : Linked(o)} \X {"decision"}))

(* approve: the owner of the case says whether it is shared, and whether the *)
(* photos attached to the draft are, which may be any of the owner's own.  A *)
(* case is approved again when the report failed or was cancelled and a new  *)
(* draft was made.                                                           *)
Approve(c) ==
    /\ cases[c].observations[1] \in Supported
    /\ \E consent, sharing \in BOOLEAN,
          attached \in SUBSET {o \in DOMAIN obs : Author[o] = Author[cases[c].observations[1]]} :
          /\ cases' = [cases EXCEPT ![c].shared = consent]
          /\ \/ /\ consent /\ sharing
                /\ released' = released \cup attached
                /\ agreed' = Agree(attached)
             \/ /\ ~(consent /\ sharing)
                /\ released' = released \ attached
                /\ agreed' = Disagree(attached)
    /\ UNCHANGED <<obs, members, followers, jobs, runners, faults>>

(* verification, which may share a photo of the resident's own, linked or    *)
(* not and whatever case it belongs to.                                      *)
Verify(c, u) ==
    /\ Accessible(c, u)
    /\ \E fixed \in BOOLEAN : cases' = [cases EXCEPT ![c].fixed = fixed]
    /\ \/ UNCHANGED <<released, agreed>>
       \/ \E o \in DOMAIN obs :
             /\ Author[o] = u
             /\ released' = released \cup {o}
             /\ agreed' = Agree({o})
    /\ UNCHANGED <<obs, members, followers, jobs, runners, faults>>

FollowersOf(c) == {u \in Residents : <<c, u>> \in followers}

(* subscribe                                                                 *)
MayFollow(c, u) == u \in FollowersOf(c) \/ Cardinality(FollowersOf(c)) < MaxFollowers

(* The subscription endpoint.                                                *)
Follow(c, u) ==
    /\ Accessible(c, u) /\ MayFollow(c, u)
    /\ followers' = followers \cup {<<c, u>>}
    /\ UNCHANGED <<obs, cases, members, released, agreed, jobs, runners, faults>>

Unfollow(c, u) ==
    /\ Accessible(c, u) /\ <<c, u>> \in followers
    /\ followers' = followers \ {<<c, u>>}
    /\ UNCHANGED <<obs, cases, members, released, agreed, jobs, runners, faults>>

-------------------------------------------------------------------------------
(* The jobs *)

Goto(w, pc) == runners' = [runners EXCEPT ![w].pc = pc, ![w].seen = 0]

Fault == faults < MaxFaults /\ faults' = faults + 1

(* claim_job: a pending job, or a running one whose lease has run out.       *)
Claim(w, q) ==
    /\ runners[w].pc = "idle"
    /\ jobs[q].status = "live" /\ jobs[q].owner # w
    /\ jobs' = [jobs EXCEPT ![q].owner = w]
    /\ runners' = [runners EXCEPT ![w] = [pc |-> "claimed", job |-> q, seen |-> 0]]
    /\ IF jobs[q].owner = None THEN UNCHANGED faults ELSE Fault
    /\ UNCHANGED <<record, agreed>>

(* The first transaction of analyze; the model then reads what it saw.       *)
ReadForAnalysis(w) ==
    LET o == runners[w].job.obs
    IN  /\ runners[w].pc = "claimed" /\ runners[w].job.kind = "analyze"
        /\ runners' = [runners EXCEPT ![w].pc = "thinking", ![w].seen = obs[o].text]
        /\ UNCHANGED <<record, agreed, jobs, faults>>

(* Mutant of IsCurrent: the revision is not compared.                        *)
IsCurrentAlways(q) == q.obs \in DOMAIN obs

IsCurrent(q) == obs[q.obs].version = q.version

(* The second one.                                                           *)
RecordAnalysis(w) ==
    LET q == runners[w].job
    IN  /\ runners[w].pc = "thinking" /\ q.kind = "analyze"
        /\ \/ /\ IsCurrent(q)
              /\ obs' = [obs EXCEPT ![q.obs].analysis = runners[w].seen]
              /\ Goto(w, "done")
           \/ ~IsCurrent(q) /\ Goto(w, "raised") /\ UNCHANGED obs
        /\ UNCHANGED <<cases, members, followers, released, agreed, jobs, faults>>

(* Mutant of IsLinked: the second transaction trusts the first.              *)
IsLinkedAtFirst(w) == runners[w].pc = "claimed" /\ Linked(runners[w].job.obs)

IsLinked(w) == Linked(runners[w].job.obs)

(* The first transaction of decide; the models then route and prepare.       *)
CheckDecision(w) ==
    LET q == runners[w].job
    IN  /\ runners[w].pc = "claimed" /\ q.kind = "decide"
        /\ Goto(w, IF IsLinked(w) THEN "done" ELSE IF IsCurrent(q) THEN "thinking" ELSE "raised")
        /\ UNCHANGED <<record, agreed, jobs, faults>>

(* What a linked observation releases.                                       *)
ReleasedWith(o) == released \cup {p \in {o} : Sharing(p) = "photos"}

Joined(o, c) ==
    /\ obs' = [obs EXCEPT ![o].incident = c]
    /\ released' = ReleasedWith(o)
    /\ members' = members \cup {<<c, Author[o]>>}
    /\ followers' = followers \cup {<<c, Author[o]>>}

Grown(case, o) ==
    [case EXCEPT !.observations = Append(@, o), !.count = @ + 1]

(* The last transaction: the observation joins the chosen case.              *)
LinkToCase(w, o, c) ==
    /\ c \in Candidates(o) /\ MayFollow(c, Author[o])
    /\ cases' = [cases EXCEPT ![c] = Grown(@, o)]
    /\ Joined(o, c)
    /\ Goto(w, "done")

(* Or it begins a case.                                                      *)
CaseOf(o) ==
    [observations |-> <<o>>, count |-> 1, text |-> obs[o].text,
     analysis |-> obs[o].analysis, shared |-> Sharing(o) # "nothing", fixed |-> FALSE]

CreateCase(w, o) ==
    /\ cases' = Append(cases, CaseOf(o))
    /\ Joined(o, Len(cases) + 1)
    /\ Goto(w, "done")

(* A candidate that is gone, or the limit of followers, takes the whole      *)
(* transaction back.                                                         *)
Refuse(w, pc) == Goto(w, pc) /\ UNCHANGED record

RecordDecision(w) ==
    LET q == runners[w].job
    IN  /\ runners[w].pc = "thinking" /\ q.kind = "decide"
        /\ \/ IsLinked(w) /\ Refuse(w, "done")
           \/ ~IsLinked(w) /\ ~IsCurrent(q) /\ Refuse(w, "raised")
           \/ ~IsLinked(w) /\ IsCurrent(q) /\ q.case = 0 /\ CreateCase(w, q.obs)
           \/ ~IsLinked(w) /\ IsCurrent(q) /\ q.case # 0 /\ LinkToCase(w, q.obs, q.case)
           \/ /\ ~IsLinked(w) /\ IsCurrent(q) /\ q.case # 0
              /\ ~(q.case \in Candidates(q.obs) /\ MayFollow(q.case, Author[q.obs]))
              /\ Refuse(w, "raised")
        /\ UNCHANGED <<agreed, jobs, faults>>

HoldsLease(w) == runners[w].job \in DOMAIN jobs /\ jobs[runners[w].job].owner = w

(* run_job settles the job, if the lease is still the runner's; a model that *)
(* fails raises too.                                                         *)
Settle(w) ==
    LET q == runners[w].job
    IN  /\ runners[w].pc \in {"done", "raised", "thinking"}
        /\ jobs' = IF ~HoldsLease(w) THEN jobs
                   ELSE IF runners[w].pc = "done"
                   THEN [jobs EXCEPT ![q] = [status |-> "completed", owner |-> None]]
                   ELSE Restrict(jobs, DOMAIN jobs \ {q})
        /\ runners' = [runners EXCEPT ![w] = IdleRunner]
        /\ IF runners[w].pc = "thinking" THEN Fault ELSE UNCHANGED faults
        /\ UNCHANGED <<record, agreed>>

(* The process dies between two transactions; another one takes its place.   *)
Crash(w) ==
    /\ runners[w].pc # "idle"
    /\ jobs' = [q \in DOMAIN jobs |->
                  IF jobs[q].owner = w THEN [jobs[q] EXCEPT !.owner = None] ELSE jobs[q]]
    /\ runners' = [runners EXCEPT ![w] = IdleRunner]
    /\ Fault
    /\ UNCHANGED <<record, agreed>>

Next ==
    \/ \E o \in Observations :
          \/ CreateObservation(o) \/ PatchObservation(o) \/ StartAnalysis(o) \/ Unlink(o)
          \/ \E c \in {0} \cup CaseIds : Decide(o, c)
    \/ \E c \in CaseIds :
          \/ Approve(c)
          \/ \E u \in Residents : Verify(c, u) \/ Follow(c, u) \/ Unfollow(c, u)
    \/ \E w \in Runners :
          \/ \E q \in DOMAIN jobs : Claim(w, q)
          \/ ReadForAnalysis(w) \/ RecordAnalysis(w)
          \/ CheckDecision(w) \/ RecordDecision(w)
          \/ Settle(w) \/ Crash(w)

Spec == Init /\ [][Next]_vars

-------------------------------------------------------------------------------
(* Properties *)

(* However often a decision is confirmed, retried or run twice, and whatever *)
(* is unlinked in between, an observation names exactly the case that lists  *)
(* it, once, and the count is the length of the list.                        *)
LinksAgree ==
    /\ \A o \in DOMAIN obs, c \in CaseIds :
          obs[o].incident = c <=> o \in ToSet(cases[c].observations)
    /\ \A c \in CaseIds :
          /\ IsInjective(cases[c].observations)
          /\ cases[c].count = Len(cases[c].observations)
          /\ cases[c].count > 0

(* A resident's own list is the cases that hold an observation of theirs,    *)
(* and a case never has more followers than the limit, also when the         *)
(* observation that would be one too many is linked by a job.                *)
MineIsMine ==
    /\ \A u \in Residents :
          Mine(u) = {c \in CaseIds : \E o \in ToSet(cases[c].observations) : Author[o] = u}
    /\ \A c \in CaseIds : Cardinality(FollowersOf(c)) <= MaxFollowers

(* An analysis is of the observation's present content, and a case tells     *)
(* what its first observation says, as analysed: a slow model never leaves   *)
(* an answer about an earlier revision.                                      *)
ReviewedAsWritten ==
    /\ \A o \in DOMAIN obs : obs[o].analysis \in {0, obs[o].text}
    /\ \A c \in CaseIds :
          LET first == cases[c].observations[1]
          IN  /\ cases[c].text = obs[first].text /\ cases[c].analysis = obs[first].text
              /\ <<first, obs[first].text>> \notin Vague

(* Consent to share a report never publishes its photo: others can be shown  *)
(* a photo only while its author agrees, by a decision about the present     *)
(* revision or by a command.  A decision that waited, is retried or runs     *)
(* twice does not release what its author has patched or taken back since.   *)
PhotosAreAgreed == \A o \in released : \E how \in {"decision", "command"} : <<o, how>> \in agreed

(* The requests that may still be acted on: those kept, and those that a     *)
(* runner is inside of after its job was settled or taken over.              *)
Requests == DOMAIN jobs \cup {runners[w].job : w \in {v \in Runners : runners[v].pc # "idle"}}

Asked == {<<q.obs, q.version, q.case>> : q \in {p \in Requests : p.kind = "decide"}}

Notes == [o \in DOMAIN obs |-> [revision |-> obs[o].version, case |-> obs[o].incident]]

Founders == [c \in CaseIds |-> cases[c].observations[1]]

Book == INSTANCE CaseBook WITH notes <- Notes, asked <- Asked, founders <- Founders

(* An observation is linked only as its author asked of the revision it      *)
(* still has: a job that waited, was retried or runs twice never links one   *)
(* that was edited, linked or taken out of a case in the meantime.           *)
ImplementsCaseBook == Book!Spec
===============================================================================

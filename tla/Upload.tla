-------------------------------- MODULE Upload --------------------------------
(***************************************************************************)
(* Photo uploads under daily quotas, AWS mode: persist_cloud_upload and    *)
(* the transactions it is made of, in services/api/policy.py, and          *)
(* create_observation, the other command with an idempotency key.          *)
(*                                                                         *)
(* A call reserves a slot of the quota, writes the photo to S3 outside any *)
(* transaction, and finishes the reservation.  Calls of one key overlap:   *)
(* a client that got no answer sends the same request again.               *)
(***************************************************************************)
EXTENDS Naturals, FiniteSets

CONSTANTS
    Residents, Workspace, \* the scopes of a quota
    Keys,                 \* idempotency keys
    Owner,                \* the resident who sends a key
    Calls,                \* calls of persist_cloud_upload; each brings evidence of its name
    None,                 \* no call
    Limit,                \* uploads per day, by scope
    ReportLimit,          \* reports per day, by scope
    Days                  \* UTC days, 1 .. n

Scopes == Residents \cup {Workspace}

ASSUME UploadAssumption ==
    /\ Workspace \notin Residents
    /\ Owner \in [Keys -> Residents]
    /\ None \notin Calls
    /\ IsFiniteSet(Keys)
    /\ Limit \in [Scopes -> Nat]
    /\ ReportLimit \in [Scopes -> Nat]
    /\ Days \subseteq Nat \ {0}

VARIABLES
    today,    \* the UTC day
    quota,    \* the quota records: uploads done and reserved, and reports
    requests, \* the request records of kind "upload"
    evidence, \* the evidence records
    reports,  \* the day the observation of each key was charged to, or 0
    calls,    \* where each call is, and its copy of the request
    objects,  \* photos in the bucket
    flying    \* photos whose write was given up by its call and may still land

vars == <<today, quota, requests, evidence, reports, calls, objects, flying>>
bucket == <<objects, flying>>

-------------------------------------------------------------------------------
(* Types *)

(* evidence and owner name the call that brought the photo, and the call     *)
(* that holds the lease.                                                     *)
RequestRecord ==
    [status : {"absent", "reserved", "completed", "failed"},
     evidence : Calls \cup {None}, owner : Calls \cup {None}, leased : BOOLEAN, day : Days \cup {0}]

CallRecord ==
    [pc : {"new", "checking", "reclaiming", "writing", "finishing", "rejecting", "done", "refused"},
     key : Keys \cup {None}, evidence : Calls \cup {None}, owner : Calls \cup {None}]

TypeOK ==
    /\ today \in Days
    /\ quota \in [Scopes \X Days -> [uploads : Nat, reserved : Nat, reports : Nat]]
    /\ requests \in [Keys -> RequestRecord]
    /\ evidence \subseteq Calls
    /\ reports \in [Keys -> Days \cup {0}]
    /\ calls \in [Calls -> CallRecord]
    /\ objects \subseteq Calls
    /\ flying \subseteq Calls

Init ==
    /\ today \in {d \in Days : \A e \in Days : d <= e}
    /\ quota = [s \in Scopes \X Days |-> [uploads |-> 0, reserved |-> 0, reports |-> 0]]
    /\ requests = [k \in Keys |-> [status |-> "absent", evidence |-> None, owner |-> None,
                                   leased |-> FALSE, day |-> 0]]
    /\ evidence = {}
    /\ reports = [k \in Keys |-> 0]
    /\ calls = [c \in Calls |-> [pc |-> "new", key |-> None, evidence |-> None, owner |-> None]]
    /\ objects = {}
    /\ flying = {}

-------------------------------------------------------------------------------
(* Quotas *)

ScopesOf(k) == {Owner[k], Workspace}

(* Mutant of Used: a reserved slot is not counted.                           *)
UsedWithoutReserved(s, d) == quota[<<s, d>>].uploads

Used(s, d) == quota[<<s, d>>].uploads + quota[<<s, d>>].reserved

(* consume_quota: both scopes have room, or neither is touched.              *)
HasRoom(k) == \A s \in ScopesOf(k) : Used(s, today) < Limit[s]

Charged(k, d) == {s \in Scopes \X Days : s[1] \in ScopesOf(k) /\ s[2] = d}

Reserved(k) ==
    [s \in Scopes \X Days |->
        IF s \in Charged(k, today) THEN [quota[s] EXCEPT !.reserved = @ + 1] ELSE quota[s]]

(* settle_upload_quota: on the day the slot was charged to.                  *)
Settled(k, done) ==
    [s \in Scopes \X Days |->
        IF s \in Charged(k, requests[k].day)
        THEN [quota[s] EXCEPT !.reserved = IF @ = 0 THEN 0 ELSE @ - 1,
                              !.uploads = IF done THEN @ + 1 ELSE @]
        ELSE quota[s]]

-------------------------------------------------------------------------------
(* persist_cloud_upload *)

Goto(c, pc) == calls' = [calls EXCEPT ![c].pc = pc]

(* The call goes on with a copy of the request record.                       *)
GotoWith(c, pc, k, request) ==
    calls' = [calls EXCEPT ![c] = [pc |-> pc, key |-> k, evidence |-> request.evidence,
                                   owner |-> request.owner]]

(* reserve_upload: a completed request answers its evidence again, a         *)
(* reserved one is to be checked, and one that failed is reserved anew.      *)
Reserve(c, k) ==
    /\ calls[c].pc = "new"
    /\ LET fresh == [status |-> "reserved", evidence |-> c, owner |-> c,
                     leased |-> TRUE, day |-> today]
       IN  \/ /\ requests[k].status = "completed"
              /\ GotoWith(c, "done", k, requests[k])
              /\ UNCHANGED <<quota, requests>>
           \/ /\ requests[k].status = "reserved"
              /\ GotoWith(c, "checking", k, requests[k])
              /\ UNCHANGED <<quota, requests>>
           \/ /\ requests[k].status \in {"absent", "failed"}
              /\ HasRoom(k)
              /\ quota' = Reserved(k)
              /\ requests' = [requests EXCEPT ![k] = fresh]
              /\ GotoWith(c, "writing", k, fresh)
           \/ /\ requests[k].status \in {"absent", "failed"}
              /\ ~HasRoom(k)
              /\ Goto(c, "refused")
              /\ UNCHANGED <<quota, requests>>
    /\ UNCHANGED <<today, evidence, reports, bucket>>

(* already_stored: HEAD of the object.                                       *)
Check(c) ==
    /\ calls[c].pc = "checking"
    /\ Goto(c, IF calls[c].evidence \in objects THEN "finishing" ELSE "reclaiming")
    /\ UNCHANGED <<today, quota, requests, evidence, reports, bucket>>

(* reclaim_upload: only a lease that has run out is taken over.  The photo   *)
(* the call goes on to write is still the one it has reserved or found.      *)
Reclaim(c) ==
    /\ calls[c].pc = "reclaiming"
    /\ LET k == calls[c].key
           taken == [requests[k] EXCEPT !.owner = c, !.leased = TRUE]
       IN  \/ /\ requests[k].status = "completed"
              /\ GotoWith(c, "done", k, requests[k])
              /\ UNCHANGED requests
           \/ /\ requests[k].status # "completed" /\ requests[k].leased
              /\ Goto(c, "refused")
              /\ UNCHANGED requests
           \/ /\ requests[k].status # "completed" /\ ~requests[k].leased
              /\ requests' = [requests EXCEPT ![k] = taken]
              /\ calls' = [calls EXCEPT ![c].pc = "writing", ![c].owner = taken.owner]
    /\ UNCHANGED <<today, quota, evidence, reports, bucket>>

(* put_object with IfNoneMatch.  It stores the photo, or finds it stored and *)
(* goes on as if it had; it may be rejected; or it times out, and the photo  *)
(* may land later.                                                           *)
Write(c) ==
    /\ calls[c].pc = "writing"
    /\ \/ objects' = objects \cup {calls[c].evidence} /\ Goto(c, "finishing") /\ UNCHANGED flying
       \/ Goto(c, "rejecting") /\ UNCHANGED bucket
       \/ flying' = flying \cup {calls[c].evidence} /\ Goto(c, "refused") /\ UNCHANGED objects
    /\ UNCHANGED <<today, quota, requests, evidence, reports>>

Lands(e) ==
    /\ e \in flying
    /\ flying' = flying \ {e}
    /\ objects' = objects \cup {e}
    /\ UNCHANGED <<today, quota, requests, evidence, reports, calls>>

(* Mutant of MayRelease: whoever is rejected releases the slot.              *)
MayReleaseAnyway(c) == requests[calls[c].key].status # "failed"

MayRelease(c) ==
    LET request == requests[calls[c].key]
    IN  request.status = "reserved" /\ request.owner = calls[c].owner

(* fail_upload, then the error: only the holder of the lease gives the slot  *)
(* back.                                                                     *)
FailUpload(c) ==
    /\ calls[c].pc = "rejecting"
    /\ Goto(c, "refused")
    /\ LET k == calls[c].key
       IN  \/ /\ MayRelease(c)
              /\ quota' = Settled(k, FALSE)
              /\ requests' = [requests EXCEPT ![k].status = "failed"]
           \/ ~MayRelease(c) /\ UNCHANGED <<quota, requests>>
    /\ UNCHANGED <<today, evidence, reports, bucket>>

(* Mutant of Unfinished: a second finish charges again.                      *)
UnfinishedOrDone(k) == requests[k].status \in {"reserved", "completed"}

Unfinished(k) == requests[k].status = "reserved"

(* finish_upload: the evidence of the request as it is now.                  *)
Finish(c) ==
    /\ calls[c].pc = "finishing"
    /\ LET k == calls[c].key
       IN  \/ /\ Unfinished(k)
              /\ quota' = Settled(k, TRUE)
              /\ evidence' = evidence \cup {requests[k].evidence}
              /\ requests' = [requests EXCEPT ![k].status = "completed"]
              /\ GotoWith(c, "done", k, requests[k])
           \/ /\ ~Unfinished(k) /\ requests[k].status = "completed"
              /\ GotoWith(c, "done", k, requests[k])
              /\ UNCHANGED <<quota, evidence, requests>>
           \/ /\ ~Unfinished(k) /\ requests[k].status # "completed"
              /\ Goto(c, "refused")
              /\ UNCHANGED <<quota, evidence, requests>>
    /\ UNCHANGED <<today, reports, bucket>>

(* Closed admission, a store error or a Lambda that dies ends the call where *)
(* it is; a write under way may still land.                                  *)
GiveUp(c) ==
    /\ calls[c].pc \notin {"new", "done", "refused"}
    /\ Goto(c, "refused")
    /\ \/ UNCHANGED flying
       \/ calls[c].pc = "writing" /\ flying' = flying \cup {calls[c].evidence}
    /\ UNCHANGED <<today, quota, requests, evidence, reports, objects>>

(* 120 seconds pass: the lease may run out under a call that is still busy.  *)
ExpireLease(k) ==
    /\ requests[k].leased
    /\ requests' = [requests EXCEPT ![k].leased = FALSE]
    /\ UNCHANGED <<today, quota, evidence, reports, calls, bucket>>

NextDay ==
    /\ today + 1 \in Days
    /\ today' = today + 1
    /\ UNCHANGED <<quota, requests, evidence, reports, calls, bucket>>

(* Mutant of Replayed: a repeated key is a new report.                       *)
ReplayedNever(k) == k \notin Keys

Replayed(k) == reports[k] # 0

(* create_observation: a replayed key answers the first response, without a  *)
(* second charge; a new one is charged in both scopes and stored.            *)
CreateObservation(k) ==
    /\ ~Replayed(k)
    /\ \A s \in ScopesOf(k) : quota[<<s, today>>].reports < ReportLimit[s]
    /\ quota' = [s \in Scopes \X Days |->
                    IF s \in Charged(k, today) THEN [quota[s] EXCEPT !.reports = @ + 1] ELSE quota[s]]
    /\ reports' = [reports EXCEPT ![k] = today]
    /\ UNCHANGED <<today, requests, evidence, calls, bucket>>

Next ==
    \/ \E c \in Calls :
          \/ \E k \in Keys : Reserve(c, k)
          \/ Check(c) \/ Reclaim(c) \/ Write(c) \/ FailUpload(c) \/ Finish(c) \/ GiveUp(c)
    \/ \E e \in Calls : Lands(e)
    \/ \E k \in Keys : ExpireLease(k) \/ CreateObservation(k)
    \/ NextDay

Spec == Init /\ [][Next]_vars

-------------------------------------------------------------------------------
(* Properties *)

With(status, s, d) ==
    {k \in Keys : s \in ScopesOf(k) /\ requests[k].status = status /\ requests[k].day = d}

(* However calls overlap, are repeated, rejected, reclaimed or cut off, each *)
(* day's counters are exactly the slots held and the uploads completed that  *)
(* were charged to that day.                                                 *)
QuotaCountsRequests ==
    \A s \in Scopes, d \in Days :
        /\ quota[<<s, d>>].reserved = Cardinality(With("reserved", s, d))
        /\ quota[<<s, d>>].uploads = Cardinality(With("completed", s, d))

(* Neither a resident nor the workspace exceeds its limit on any day, with   *)
(* the slots counted whose outcome is not known yet.                         *)
LimitsHold ==
    \A s \in Scopes, d \in Days :
        Cardinality(With("reserved", s, d)) + Cardinality(With("completed", s, d)) <= Limit[s]

Reported(s, d) == {k \in Keys : s \in ScopesOf(k) /\ reports[k] = d}

(* A report is charged once, to the day it was made on, to its resident and  *)
(* to the workspace, however often it is sent; and no limit is exceeded.     *)
ReportsAreCharged ==
    \A s \in Scopes, d \in Days :
        /\ quota[<<s, d>>].reports = Cardinality(Reported(s, d))
        /\ quota[<<s, d>>].reports <= ReportLimit[s]

(* All calls of one key that succeed answer the same evidence, and that is   *)
(* recorded: a retry never yields a second photo.                            *)
AnswersAgree ==
    \A c \in Calls : calls[c].pc = "done" =>
        /\ requests[calls[c].key].status = "completed"
        /\ calls[c].evidence = requests[calls[c].key].evidence
        /\ calls[c].evidence \in evidence

(* A reserved request holds its slot, a completed one uses it, and one that  *)
(* failed has given it back.                                                 *)
Slot(k) ==
    LET request == requests[k]
    IN  CASE request.status = "reserved" ->
                [status |-> "held", photo |-> request.evidence, day |-> request.day]
          [] request.status = "completed" ->
                [status |-> "used", photo |-> request.evidence, day |-> request.day]
          [] OTHER -> [status |-> "free"]

Slots == [k \in Keys |-> Slot(k)]

Answered == {<<calls[c].key, calls[c].evidence>> : c \in {b \in Calls : calls[b].pc = "done"}}

Book == INSTANCE Ledger WITH
    Photos <- Calls, slots <- Slots, kept <- evidence, answered <- Answered

(* However the calls of a key overlap, are rejected, reclaimed or cut off: a *)
(* slot is taken only where both scopes have room on that day, is given back *)
(* or used once, a photo is recorded only in a slot, and all who answer a    *)
(* key name the photo recorded for it.                                       *)
ImplementsLedger == Book!Spec
===============================================================================

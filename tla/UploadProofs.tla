------------------------------ MODULE UploadProofs ----------------------------
(***************************************************************************)
(* Proofs about Upload for any residents, keys, calls, days and limits:    *)
(* its types, that the counters are what the requests and reports say,     *)
(* that no limit is exceeded, and that the answers of one key agree.       *)
(*                                                                         *)
(* The counters are compared with the cardinality of sets of requests,     *)
(* which every transaction changes by one key at most.                     *)
(***************************************************************************)
EXTENDS Upload, FiniteSetTheorems, TLAPS

(* A reserved or settled request knows its photo, its lease and its day.     *)
RequestOk(k) ==
    /\ requests[k].status # "absent" =>
          requests[k].evidence \in Calls /\ requests[k].owner \in Calls /\ requests[k].day \in Days
    /\ requests[k].status = "completed" => requests[k].evidence \in evidence

(* A call under way has a request, and one that is over answers what the     *)
(* request says.                                                             *)
CallOk(c) ==
    /\ calls[c].pc \notin {"new", "refused"} =>
          /\ calls[c].key \in Keys /\ calls[c].evidence \in Calls /\ calls[c].owner \in Calls
          /\ requests[calls[c].key].status # "absent"
    /\ calls[c].pc = "done" =>
          /\ requests[calls[c].key].status = "completed"
          /\ calls[c].evidence = requests[calls[c].key].evidence

WithinLimits == \A s \in Scopes, d \in Days : Used(s, d) <= Limit[s]

UploadInv ==
    /\ TypeOK
    /\ \A k \in Keys : RequestOk(k)
    /\ \A c \in Calls : CallOk(c)
    /\ QuotaCountsRequests
    /\ WithinLimits

-------------------------------------------------------------------------------
(* Counting                                                                  *)

(* k is one of the requests with this status, of this scope and day.         *)
Counts(k, status, s, d) ==
    s \in ScopesOf(k) /\ requests[k].status = status /\ requests[k].day = d

(* The requests of a scope are finitely many.                                *)
LEMMA WithFinite ==
    ASSUME UploadAssumption, NEW status, NEW s, NEW d
    PROVE  /\ IsFiniteSet(With(status, s, d)) /\ Cardinality(With(status, s, d)) \in Nat
           /\ IsFiniteSet(With(status, s, d)') /\ Cardinality(With(status, s, d)') \in Nat
<1>1. With(status, s, d) \in SUBSET Keys /\ With(status, s, d)' \in SUBSET Keys
  BY DEF With
<1>2. IsFiniteSet(With(status, s, d)) /\ IsFiniteSet(With(status, s, d)')
  BY <1>1, FS_Subset DEF UploadAssumption
<1>. QED BY <1>2, FS_CardinalityType

(* When only request k changes, a count changes by k.                        *)
LEMMA CountChanges ==
    ASSUME UploadAssumption, NEW k \in Keys, NEW status, NEW s, NEW d,
           \A j \in Keys \ {k} : /\ requests'[j].status = requests[j].status
                                 /\ requests'[j].day = requests[j].day
    PROVE  LET before == Cardinality(With(status, s, d))
               after == Cardinality(With(status, s, d)')
           IN  /\ (Counts(k, status, s, d) <=> Counts(k, status, s, d)') => after = before
               /\ ~Counts(k, status, s, d) /\ Counts(k, status, s, d)' => after = before + 1
               /\ Counts(k, status, s, d) /\ ~Counts(k, status, s, d)' => before = after + 1
<1>. DEFINE B == With(status, s, d)
            A == With(status, s, d)'
<1>1. IsFiniteSet(B) /\ IsFiniteSet(A) /\ Cardinality(B) \in Nat /\ Cardinality(A) \in Nat
  BY WithFinite
<1>2. /\ k \in B <=> Counts(k, status, s, d)
      /\ k \in A <=> Counts(k, status, s, d)'
      /\ \A j \in Keys \ {k} : j \in A <=> j \in B
      /\ A \subseteq Keys /\ B \subseteq Keys
  BY DEF With, Counts, ScopesOf
<1>3. CASE Counts(k, status, s, d) <=> Counts(k, status, s, d)'
  <2>1. k \in A <=> k \in B
    BY <1>2, <1>3, Zenon
  <2>2. \A j : j \in A <=> j \in B
    BY <2>1, <1>2
  <2>3. A = B
    BY <2>2
  <2>. QED BY <2>3, <1>3
<1>4. CASE ~Counts(k, status, s, d) /\ Counts(k, status, s, d)'
  <2>1. A = B \cup {k} /\ k \notin B
    BY <1>2, <1>4
  <2>. QED BY <2>1, <1>1, <1>4, FS_AddElement
<1>5. CASE Counts(k, status, s, d) /\ ~Counts(k, status, s, d)'
  <2>1. B = A \cup {k} /\ k \notin A
    BY <1>2, <1>5
  <2>. QED BY <2>1, <1>1, <1>5, FS_AddElement
<1>. QED BY <1>3, <1>4, <1>5

(* The counters and the day of a request, all that the counts depend on.     *)
SameCounts ==
    /\ \A s \in Scopes, d \in Days : /\ quota'[<<s, d>>].uploads = quota[<<s, d>>].uploads
                                     /\ quota'[<<s, d>>].reserved = quota[<<s, d>>].reserved
    /\ \A k \in Keys : /\ requests'[k].status = requests[k].status
                       /\ requests'[k].day = requests[k].day

(* What leaves them alone keeps the counters right and within the limits.    *)
LEMMA CountsStay ==
    ASSUME QuotaCountsRequests, WithinLimits, SameCounts
    PROVE  QuotaCountsRequests' /\ WithinLimits'
<1>1. \A s, d : \A status : With(status, s, d)' = With(status, s, d)
  BY DEF With, SameCounts, ScopesOf
<1>. QED BY <1>1 DEF QuotaCountsRequests, WithinLimits, SameCounts, Used

(* What a reservation does to a counter.                                     *)
LEMMA ReservedAt ==
    ASSUME UploadAssumption, TypeOK, NEW k \in Keys, quota' = Reserved(k),
           NEW s \in Scopes, NEW d \in Days
    PROVE  /\ quota[<<s, d>>].uploads \in Nat /\ quota[<<s, d>>].reserved \in Nat
           /\ quota'[<<s, d>>].uploads = quota[<<s, d>>].uploads
           /\ quota'[<<s, d>>].reserved = IF s \in ScopesOf(k) /\ d = today
                                      THEN quota[<<s, d>>].reserved + 1 ELSE quota[<<s, d>>].reserved
<1>1. <<s, d>> \in Scopes \X Days /\ quota[<<s, d>>] \in [uploads : Nat, reserved : Nat, reports : Nat]
  BY DEF TypeOK
<1>2. <<s, d>> \in Charged(k, today) <=> s \in ScopesOf(k) /\ d = today
  BY <1>1 DEF Charged
<1>3. quota'[<<s, d>>] = IF <<s, d>> \in Charged(k, today)
                     THEN [quota[<<s, d>>] EXCEPT !.reserved = @ + 1] ELSE quota[<<s, d>>]
  BY <1>1 DEF Reserved
<1>. QED BY <1>1, <1>2, <1>3

(* What a settlement does to a counter.                                      *)
LEMMA SettledAt ==
    ASSUME UploadAssumption, TypeOK, NEW k \in Keys, NEW finished \in BOOLEAN,
           quota' = Settled(k, finished), NEW s \in Scopes, NEW d \in Days
    PROVE  /\ quota[<<s, d>>].uploads \in Nat /\ quota[<<s, d>>].reserved \in Nat
           /\ IF s \in ScopesOf(k) /\ d = requests[k].day
              THEN /\ quota'[<<s, d>>].reserved = IF quota[<<s, d>>].reserved = 0 THEN 0
                                              ELSE quota[<<s, d>>].reserved - 1
                   /\ quota'[<<s, d>>].uploads = IF finished THEN quota[<<s, d>>].uploads + 1
                                             ELSE quota[<<s, d>>].uploads
              ELSE /\ quota'[<<s, d>>].reserved = quota[<<s, d>>].reserved
                   /\ quota'[<<s, d>>].uploads = quota[<<s, d>>].uploads
<1>1. <<s, d>> \in Scopes \X Days /\ quota[<<s, d>>] \in [uploads : Nat, reserved : Nat, reports : Nat]
  BY DEF TypeOK
<1>2. <<s, d>> \in Charged(k, requests[k].day) <=> s \in ScopesOf(k) /\ d = requests[k].day
  BY <1>1 DEF Charged
<1>3. quota'[<<s, d>>] = IF <<s, d>> \in Charged(k, requests[k].day)
                     THEN [quota[<<s, d>>] EXCEPT !.reserved = IF @ = 0 THEN 0 ELSE @ - 1,
                                              !.uploads = IF finished THEN @ + 1 ELSE @]
                     ELSE quota[<<s, d>>]
  BY <1>1 DEF Settled
<1>. QED BY <1>1, <1>2, <1>3

(* A slot reserved where there is room is counted and fits.                  *)
LEMMA CountsReserved ==
    ASSUME UploadAssumption, TypeOK, QuotaCountsRequests, WithinLimits, NEW k \in Keys,
           requests[k].status \in {"absent", "failed"}, HasRoom(k),
           quota' = Reserved(k),
           requests'[k].status = "reserved", requests'[k].day = today,
           \A j \in Keys \ {k} : requests'[j] = requests[j]
    PROVE  QuotaCountsRequests' /\ WithinLimits'
<1>1. SUFFICES ASSUME NEW s \in Scopes, NEW d \in Days
               PROVE  /\ quota'[<<s, d>>].reserved = Cardinality(With("reserved", s, d)')
                      /\ quota'[<<s, d>>].uploads = Cardinality(With("completed", s, d)')
                      /\ quota'[<<s, d>>].uploads + quota'[<<s, d>>].reserved <= Limit[s]
  BY DEF QuotaCountsRequests, WithinLimits, Used
<1>2. /\ quota[<<s, d>>].reserved = Cardinality(With("reserved", s, d))
      /\ quota[<<s, d>>].uploads = Cardinality(With("completed", s, d))
      /\ quota[<<s, d>>].uploads + quota[<<s, d>>].reserved <= Limit[s] /\ Limit[s] \in Nat
  BY DEF QuotaCountsRequests, WithinLimits, Used, UploadAssumption
<1>3. /\ ~Counts(k, "reserved", s, d) /\ ~Counts(k, "completed", s, d)
      /\ ~Counts(k, "completed", s, d)'
      /\ Counts(k, "reserved", s, d)' <=> s \in ScopesOf(k) /\ d = today
  BY DEF Counts, ScopesOf
<1>4. Cardinality(With("completed", s, d)') = Cardinality(With("completed", s, d))
  BY <1>3, CountChanges
<1>5. Cardinality(With("reserved", s, d)') =
          IF s \in ScopesOf(k) /\ d = today THEN Cardinality(With("reserved", s, d)) + 1
          ELSE Cardinality(With("reserved", s, d))
  BY <1>3, CountChanges
<1>6. s \in ScopesOf(k) /\ d = today => quota[<<s, d>>].uploads + quota[<<s, d>>].reserved < Limit[s]
  BY DEF HasRoom, Used
<1>. QED BY <1>2, <1>4, <1>5, <1>6, ReservedAt

(* A slot given back, or turned into an upload, is counted as such.          *)
LEMMA CountsSettled ==
    ASSUME UploadAssumption, TypeOK, QuotaCountsRequests, WithinLimits,
           NEW k \in Keys, NEW finished \in BOOLEAN,
           requests[k].status = "reserved", quota' = Settled(k, finished),
           requests'[k].status = IF finished THEN "completed" ELSE "failed",
           requests'[k].day = requests[k].day,
           \A j \in Keys \ {k} : requests'[j] = requests[j]
    PROVE  QuotaCountsRequests' /\ WithinLimits'
<1>1. SUFFICES ASSUME NEW s \in Scopes, NEW d \in Days
               PROVE  /\ quota'[<<s, d>>].reserved = Cardinality(With("reserved", s, d)')
                      /\ quota'[<<s, d>>].uploads = Cardinality(With("completed", s, d)')
                      /\ quota'[<<s, d>>].uploads + quota'[<<s, d>>].reserved <= Limit[s]
  BY DEF QuotaCountsRequests, WithinLimits, Used
<1>2. /\ quota[<<s, d>>].reserved = Cardinality(With("reserved", s, d))
      /\ quota[<<s, d>>].uploads = Cardinality(With("completed", s, d))
      /\ quota[<<s, d>>].uploads + quota[<<s, d>>].reserved <= Limit[s] /\ Limit[s] \in Nat
  BY DEF QuotaCountsRequests, WithinLimits, Used, UploadAssumption
<1>3. Cardinality(With("reserved", s, d)') \in Nat
  BY WithFinite
<1>4. CASE s \in ScopesOf(k) /\ d = requests[k].day
  <2>1. /\ Counts(k, "reserved", s, d) /\ ~Counts(k, "reserved", s, d)'
        /\ ~Counts(k, "completed", s, d)
        /\ Counts(k, "completed", s, d)' <=> finished
    BY <1>4 DEF Counts, ScopesOf
  <2>2. Cardinality(With("reserved", s, d)) = Cardinality(With("reserved", s, d)') + 1
    BY <2>1, CountChanges
  <2>3. Cardinality(With("completed", s, d)') =
            IF finished THEN Cardinality(With("completed", s, d)) + 1
            ELSE Cardinality(With("completed", s, d))
    BY <2>1, CountChanges
  <2>4. /\ quota[<<s, d>>].uploads \in Nat /\ quota[<<s, d>>].reserved \in Nat
        /\ quota'[<<s, d>>].reserved = IF quota[<<s, d>>].reserved = 0 THEN 0
                                       ELSE quota[<<s, d>>].reserved - 1
        /\ quota'[<<s, d>>].uploads = IF finished THEN quota[<<s, d>>].uploads + 1
                                      ELSE quota[<<s, d>>].uploads
    BY <1>4, SettledAt
  <2>5. quota'[<<s, d>>].reserved = Cardinality(With("reserved", s, d)')
    BY <1>2, <1>3, <2>2, <2>4
  <2>6. quota'[<<s, d>>].uploads = Cardinality(With("completed", s, d)')
    BY <1>2, <2>3, <2>4
  <2>7. quota'[<<s, d>>].reserved \in Nat /\ quota[<<s, d>>].reserved = quota'[<<s, d>>].reserved + 1
    BY <1>2, <1>3, <2>2, <2>5
  <2>8. quota'[<<s, d>>].uploads + quota'[<<s, d>>].reserved <= Limit[s]
    <3>1. \/ quota'[<<s, d>>].uploads = quota[<<s, d>>].uploads + 1
          \/ quota'[<<s, d>>].uploads = quota[<<s, d>>].uploads
      BY <2>4, Zenon
    <3>. QED BY <3>1, <1>2, <2>4, <2>7
  <2>. QED BY <2>5, <2>6, <2>8
<1>5. CASE ~(s \in ScopesOf(k) /\ d = requests[k].day)
  <2>1. /\ ~Counts(k, "reserved", s, d) /\ ~Counts(k, "reserved", s, d)'
        /\ ~Counts(k, "completed", s, d) /\ ~Counts(k, "completed", s, d)'
    BY <1>5 DEF Counts, ScopesOf
  <2>2. /\ Cardinality(With("reserved", s, d)) = Cardinality(With("reserved", s, d)')
        /\ Cardinality(With("completed", s, d)) = Cardinality(With("completed", s, d)')
    BY <2>1, CountChanges
  <2>. QED BY <1>2, <1>5, <2>2, SettledAt
<1>. QED BY <1>4, <1>5
-------------------------------------------------------------------------------
(* Requests and calls                                                        *)

(* A request, once made, stays made; completed, it keeps its photo; and what *)
(* evidence there is stays.                                                  *)
Keeps ==
    /\ \A k \in Keys :
          /\ requests[k].status # "absent" => requests'[k].status # "absent"
          /\ requests[k].status = "completed" =>
                requests'[k].status = "completed" /\ requests'[k].evidence = requests[k].evidence
    /\ evidence \subseteq evidence'

(* An unchanged call keeps its part of the invariant.                        *)
LEMMA CallStays ==
    ASSUME Keeps, NEW c \in Calls, CallOk(c), calls'[c] = calls[c]
    PROVE  CallOk(c)'
<1>1. CASE calls[c].pc \in {"new", "refused"}
  BY <1>1 DEF CallOk
<1>2. CASE calls[c].pc \notin {"new", "refused"}
  BY <1>2 DEF CallOk, Keeps
<1>. QED BY <1>1, <1>2

(* So does one that goes on with the request it has.                         *)
LEMMA CallGoesOn ==
    ASSUME Keeps, NEW c \in Calls, CallOk(c), calls[c].pc \notin {"new", "refused"},
           calls'[c].pc # "done", calls'[c].key = calls[c].key,
           calls'[c].evidence = calls[c].evidence, calls'[c].owner \in Calls
    PROVE  CallOk(c)'
  BY DEF CallOk, Keeps

(* And one that is refused.                                                  *)
LEMMA CallRefused ==
    ASSUME NEW c \in Calls, calls'[c].pc = "refused"
    PROVE  CallOk(c)'
  BY DEF CallOk

(* A request that keeps status, photo and day is in order with an owner.     *)
LEMMA RequestStays ==
    ASSUME Keeps, NEW k \in Keys, RequestOk(k), requests'[k].status = requests[k].status,
           requests'[k].evidence = requests[k].evidence, requests'[k].day = requests[k].day,
           requests'[k].owner \in {requests[k].owner} \cup Calls
    PROVE  RequestOk(k)'
  BY DEF RequestOk, Keeps

(* The copy a call takes along has the type of a call.                       *)
LEMMA GotoType ==
    ASSUME TypeOK, NEW c \in Calls, NEW pc,
           pc \in {"new", "checking", "reclaiming", "writing", "finishing", "rejecting", "done",
                  "refused"},
           Goto(c, pc)
    PROVE  /\ calls' \in [Calls -> CallRecord]
           /\ calls'[c] = [calls[c] EXCEPT !.pc = pc]
           /\ \A b \in Calls \ {c} : calls'[b] = calls[b]
  BY DEF TypeOK, Goto, CallRecord

(* Likewise for a call that takes a copy of its request.                     *)
LEMMA GotoWithType ==
    ASSUME TypeOK, NEW c \in Calls, NEW k \in Keys, NEW request \in RequestRecord, NEW pc,
           pc \in {"new", "checking", "reclaiming", "writing", "finishing", "rejecting", "done",
                  "refused"},
           GotoWith(c, pc, k, request)
    PROVE  /\ calls' \in [Calls -> CallRecord]
           /\ calls'[c] = [pc |-> pc, key |-> k, evidence |-> request.evidence,
                           owner |-> request.owner]
           /\ \A b \in Calls \ {c} : calls'[b] = calls[b]
  BY DEF TypeOK, GotoWith, CallRecord, RequestRecord

-------------------------------------------------------------------------------
(* The actions                                                               *)

(* Initially nothing is counted.                                             *)
LEMMA InitInv == ASSUME UploadAssumption, Init PROVE UploadInv
<1>1. TypeOK
  BY DEF Init, TypeOK, RequestRecord, CallRecord
<1>2. QuotaCountsRequests
  <2>1. SUFFICES ASSUME NEW s \in Scopes, NEW d \in Days
                 PROVE  /\ quota[<<s, d>>].reserved = Cardinality(With("reserved", s, d))
                        /\ quota[<<s, d>>].uploads = Cardinality(With("completed", s, d))
    BY DEF QuotaCountsRequests
  <2>2. With("reserved", s, d) = {} /\ With("completed", s, d) = {}
    BY DEF Init, With
  <2>3. quota[<<s, d>>].reserved = 0 /\ quota[<<s, d>>].uploads = 0
    BY DEF Init
  <2>. QED BY <2>2, <2>3, FS_EmptySet
<1>3. WithinLimits
  BY DEF Init, WithinLimits, Used, UploadAssumption
<1>. QED BY <1>1, <1>2, <1>3 DEF UploadInv, Init, RequestOk, CallOk

(* reserve_upload                                                            *)
LEMMA ReserveInv ==
    ASSUME UploadAssumption, UploadInv, NEW c \in Calls, NEW k \in Keys, Reserve(c, k)
    PROVE  UploadInv'
<1>. DEFINE fresh == [status |-> "reserved", evidence |-> c, owner |-> c, leased |-> TRUE, day |-> today]
<1>1. TypeOK /\ requests[k] \in RequestRecord /\ fresh \in RequestRecord
      /\ UNCHANGED <<today, evidence, reports, objects, flying>>
  BY DEF UploadInv, TypeOK, RequestRecord, Reserve, bucket
<1>2. CASE requests[k].status \in {"completed", "reserved"}
  <2>1. /\ UNCHANGED <<quota, requests>>
        /\ \/ requests[k].status = "completed" /\ GotoWith(c, "done", k, requests[k])
           \/ requests[k].status = "reserved" /\ GotoWith(c, "checking", k, requests[k])
    BY <1>2 DEF Reserve
  <2>2. /\ calls' \in [Calls -> CallRecord]
        /\ calls'[c].pc = "done" => requests[k].status = "completed"
        /\ calls'[c].key = k /\ calls'[c].evidence = requests[k].evidence
        /\ calls'[c].owner = requests[k].owner
        /\ \A b \in Calls \ {c} : calls'[b] = calls[b]
    <3>1. /\ calls' \in [Calls -> CallRecord]
          /\ \/ /\ requests[k].status = "completed"
                /\ calls'[c] = [pc |-> "done", key |-> k, evidence |-> requests[k].evidence,
                                owner |-> requests[k].owner]
             \/ calls'[c] = [pc |-> "checking", key |-> k, evidence |-> requests[k].evidence,
                             owner |-> requests[k].owner]
          /\ \A b \in Calls \ {c} : calls'[b] = calls[b]
      BY <2>1, <1>1, GotoWithType
    <3>. QED BY <3>1
  <2>3. Keeps
    BY <2>1, <1>1 DEF Keeps
  <2>4. CallOk(c)'
    BY <2>1, <2>2, <1>2 DEF UploadInv, CallOk, RequestOk
  <2>5. \A b \in Calls : CallOk(b)'
    BY <2>2, <2>3, <2>4, CallStays DEF UploadInv
  <2>6. \A j \in Keys : RequestOk(j)'
    BY <2>1, <1>1 DEF UploadInv, RequestOk
  <2>7. QuotaCountsRequests' /\ WithinLimits'
    BY <2>1, CountsStay DEF UploadInv, SameCounts
  <2>8. TypeOK'
    BY <1>1, <2>1, <2>2 DEF TypeOK
  <2>. QED BY <2>5, <2>6, <2>7, <2>8 DEF UploadInv
<1>3. CASE requests[k].status \in {"absent", "failed"} /\ ~HasRoom(k)
  <2>1. UNCHANGED <<quota, requests>> /\ Goto(c, "refused")
    BY <1>3 DEF Reserve
  <2>2. Keeps
    BY <2>1, <1>1 DEF Keeps
  <2>3. /\ calls' \in [Calls -> CallRecord] /\ calls'[c].pc = "refused"
        /\ \A b \in Calls \ {c} : calls'[b] = calls[b]
    <3>1. calls[c] \in CallRecord
      BY <1>1 DEF TypeOK
    <3>2. /\ calls' \in [Calls -> CallRecord]
          /\ calls'[c] = [calls[c] EXCEPT !.pc = "refused"]
          /\ \A b \in Calls \ {c} : calls'[b] = calls[b]
      BY <2>1, <1>1, GotoType
    <3>. QED BY <3>1, <3>2 DEF CallRecord
  <2>4. \A b \in Calls : CallOk(b)'
    BY <2>2, <2>3, CallStays, CallRefused DEF UploadInv
  <2>5. \A j \in Keys : RequestOk(j)'
    BY <2>1, <1>1 DEF UploadInv, RequestOk
  <2>6. QuotaCountsRequests' /\ WithinLimits'
    BY <2>1, CountsStay DEF UploadInv, SameCounts
  <2>7. TypeOK'
    BY <1>1, <2>1, <2>3 DEF TypeOK
  <2>. QED BY <2>4, <2>5, <2>6, <2>7 DEF UploadInv
<1>4. CASE requests[k].status \in {"absent", "failed"} /\ HasRoom(k)
  <2>1. /\ quota' = Reserved(k)
        /\ requests' = [requests EXCEPT ![k] = fresh]
        /\ GotoWith(c, "writing", k, fresh)
    BY <1>4 DEF Reserve
  <2>2. /\ requests' \in [Keys -> RequestRecord] /\ requests'[k] = fresh
        /\ \A j \in Keys \ {k} : requests'[j] = requests[j]
    BY <2>1, <1>1 DEF TypeOK
  <2>3. Keeps
    BY <1>1, <1>4, <2>2 DEF Keeps
  <2>4. /\ calls' \in [Calls -> CallRecord]
        /\ calls'[c] = [pc |-> "writing", key |-> k, evidence |-> c, owner |-> c]
        /\ \A b \in Calls \ {c} : calls'[b] = calls[b]
    BY <2>1, <1>1, GotoWithType
  <2>5. \A b \in Calls : CallOk(b)'
    BY <2>2, <2>3, <2>4, CallStays DEF UploadInv, CallOk
  <2>6. \A j \in Keys : RequestOk(j)'
    BY <2>2, <1>1 DEF UploadInv, RequestOk, TypeOK
  <2>7. QuotaCountsRequests' /\ WithinLimits'
    BY <1>1, <1>4, <2>1, <2>2, CountsReserved DEF UploadInv
  <2>8. quota' \in [Scopes \X Days -> [uploads : Nat, reserved : Nat, reports : Nat]]
    BY <2>1, <1>1 DEF TypeOK, Reserved
  <2>9. TypeOK'
    BY <1>1, <2>2, <2>4, <2>8 DEF TypeOK
  <2>. QED BY <2>5, <2>6, <2>7, <2>9 DEF UploadInv
<1>5. requests[k].status \in {"absent", "reserved", "completed", "failed"}
  BY <1>1 DEF RequestRecord
<1>. QED BY <1>2, <1>3, <1>4, <1>5

(* What a step that moves call c and leaves requests, counters and evidence  *)
(* alone has to show.                                                        *)
LEMMA QuietCall ==
    ASSUME UploadAssumption, UploadInv, NEW c \in Calls, NEW pc,
           pc \in {"reclaiming", "writing", "finishing", "rejecting", "refused"},
           calls[c].pc \notin {"new", "done", "refused"}, Goto(c, pc),
           UNCHANGED <<today, quota, requests, evidence, reports>>,
           objects' \subseteq Calls, flying' \subseteq Calls
    PROVE  UploadInv'
<1>1. /\ TypeOK /\ CallOk(c)
      /\ Keeps
  BY DEF UploadInv, Keeps
<1>2. /\ calls' \in [Calls -> CallRecord] /\ calls'[c] = [calls[c] EXCEPT !.pc = pc]
      /\ \A b \in Calls \ {c} : calls'[b] = calls[b] /\ calls[c] \in CallRecord
  BY <1>1, GotoType DEF TypeOK
<1>3. CallOk(c)'
  <2>1. calls'[c].pc = pc /\ calls'[c].key = calls[c].key
        /\ calls'[c].evidence = calls[c].evidence /\ calls'[c].owner = calls[c].owner
    BY <1>1, <1>2 DEF CallRecord, TypeOK
  <2>2. calls[c].owner \in Calls
    BY <1>1 DEF CallOk
  <2>. QED BY <1>1, <2>1, <2>2, CallGoesOn
<1>4. \A b \in Calls : CallOk(b)'
  BY <1>1, <1>2, <1>3, CallStays DEF UploadInv
<1>5. \A j \in Keys : RequestOk(j)'
  BY DEF UploadInv, RequestOk
<1>6. QuotaCountsRequests' /\ WithinLimits'
  BY CountsStay DEF UploadInv, SameCounts
<1>7. TypeOK'
  BY <1>1, <1>2 DEF TypeOK
<1>. QED BY <1>4, <1>5, <1>6, <1>7 DEF UploadInv
(* already_stored                                                            *)
LEMMA CheckInv ==
    ASSUME UploadAssumption, UploadInv, NEW c \in Calls, Check(c)
    PROVE  UploadInv'
<1>1. /\ calls[c].pc = "checking"
      /\ UNCHANGED <<today, quota, requests, evidence, reports, objects, flying>>
      /\ Goto(c, "finishing") \/ Goto(c, "reclaiming")
  BY DEF Check, bucket
<1>2. objects' \subseteq Calls /\ flying' \subseteq Calls
  BY <1>1 DEF UploadInv, TypeOK
<1>. QED BY <1>1, <1>2, QuietCall

(* put_object                                                                *)
LEMMA WriteInv ==
    ASSUME UploadAssumption, UploadInv, NEW c \in Calls, Write(c)
    PROVE  UploadInv'
<1>1. /\ calls[c].pc = "writing"
      /\ UNCHANGED <<today, quota, requests, evidence, reports>>
      /\ Goto(c, "finishing") \/ Goto(c, "rejecting") \/ Goto(c, "refused")
      /\ objects' \subseteq objects \cup {calls[c].evidence}
      /\ flying' \subseteq flying \cup {calls[c].evidence}
  BY DEF Write, bucket
<1>2. calls[c].evidence \in Calls
  BY <1>1 DEF UploadInv, CallOk
<1>3. objects' \subseteq Calls /\ flying' \subseteq Calls
  BY <1>1, <1>2 DEF UploadInv, TypeOK
<1>. QED BY <1>1, <1>3, QuietCall

(* The call ends where it is.                                                *)
LEMMA GiveUpInv ==
    ASSUME UploadAssumption, UploadInv, NEW c \in Calls, GiveUp(c)
    PROVE  UploadInv'
<1>1. /\ calls[c].pc \notin {"new", "done", "refused"}
      /\ UNCHANGED <<today, quota, requests, evidence, reports, objects>>
      /\ Goto(c, "refused")
      /\ flying' \subseteq flying \cup {calls[c].evidence}
  BY DEF GiveUp
<1>2. calls[c].evidence \in Calls
  BY <1>1 DEF UploadInv, CallOk
<1>3. objects' \subseteq Calls /\ flying' \subseteq Calls
  BY <1>1, <1>2 DEF UploadInv, TypeOK
<1>. QED BY <1>1, <1>3, QuietCall

(* What a step that changes one request, and perhaps counters and evidence,  *)
(* has to show of the calls: here those that stand still.                    *)
LEMMA OthersStand ==
    ASSUME UploadInv, Keeps, NEW c \in Calls, CallOk(c)',
           \A b \in Calls \ {c} : calls'[b] = calls[b]
    PROVE  \A b \in Calls : CallOk(b)'
  BY CallStays DEF UploadInv

(* reclaim_upload                                                            *)
LEMMA ReclaimInv ==
    ASSUME UploadAssumption, UploadInv, NEW c \in Calls, Reclaim(c)
    PROVE  UploadInv'
<1>. DEFINE k == calls[c].key
            taken == [requests[k] EXCEPT !.owner = c, !.leased = TRUE]
<1>1. /\ TypeOK /\ CallOk(c) /\ calls[c].pc = "reclaiming" /\ k \in Keys
      /\ requests[k] \in RequestRecord /\ requests[k].status # "absent"
      /\ calls[c] \in CallRecord /\ calls[c].evidence \in Calls
      /\ UNCHANGED <<today, quota, evidence, reports, objects, flying>>
  BY DEF UploadInv, TypeOK, CallOk, Reclaim, bucket
<1>2. CASE requests[k].status = "completed"
  <2>1. GotoWith(c, "done", k, requests[k]) /\ UNCHANGED requests
    BY <1>2 DEF Reclaim
  <2>2. /\ calls' \in [Calls -> CallRecord]
        /\ calls'[c] = [pc |-> "done", key |-> k, evidence |-> requests[k].evidence,
                        owner |-> requests[k].owner]
        /\ \A b \in Calls \ {c} : calls'[b] = calls[b]
    BY <2>1, <1>1, GotoWithType
  <2>3. Keeps
    BY <2>1, <1>1 DEF Keeps
  <2>4. RequestOk(k)
    BY <1>1 DEF UploadInv
  <2>5. CallOk(c)'
    BY <2>1, <2>2, <2>4, <1>1, <1>2 DEF CallOk, RequestOk
  <2>6. \A b \in Calls : CallOk(b)'
    BY <2>2, <2>3, <2>5, OthersStand
  <2>7. \A j \in Keys : RequestOk(j)'
    BY <2>1, <1>1 DEF UploadInv, RequestOk
  <2>8. QuotaCountsRequests' /\ WithinLimits'
    BY <2>1, <1>1, CountsStay DEF UploadInv, SameCounts
  <2>9. TypeOK'
    BY <1>1, <2>1, <2>2 DEF TypeOK
  <2>. QED BY <2>6, <2>7, <2>8, <2>9 DEF UploadInv
<1>3. CASE requests[k].status # "completed" /\ requests[k].leased
  <2>1. Goto(c, "refused") /\ UNCHANGED requests
    BY <1>3 DEF Reclaim
  <2>2. objects' \subseteq Calls /\ flying' \subseteq Calls
    BY <1>1 DEF TypeOK
  <2>. QED BY <1>1, <2>1, <2>2, QuietCall
<1>4. CASE requests[k].status # "completed" /\ ~requests[k].leased
  <2>1. /\ requests' = [requests EXCEPT ![k] = taken]
        /\ calls' = [calls EXCEPT ![c].pc = "writing", ![c].owner = taken.owner]
    BY <1>4 DEF Reclaim
  <2>2. taken \in RequestRecord /\ taken.status = requests[k].status /\ taken.day = requests[k].day
        /\ taken.evidence = requests[k].evidence /\ taken.owner = c
    BY <1>1 DEF RequestRecord
  <2>3. /\ requests' \in [Keys -> RequestRecord] /\ requests'[k] = taken
        /\ \A j \in Keys \ {k} : requests'[j] = requests[j]
    BY <2>1, <2>2, <1>1 DEF TypeOK
  <2>4. /\ calls' \in [Calls -> CallRecord]
        /\ calls'[c].pc = "writing" /\ calls'[c].key = k /\ calls'[c].owner = c
        /\ calls'[c].evidence = calls[c].evidence
        /\ \A b \in Calls \ {c} : calls'[b] = calls[b]
    BY <2>1, <2>2, <1>1 DEF TypeOK, CallRecord
  <2>5. Keeps
    BY <2>2, <2>3, <1>1, <1>4 DEF Keeps
  <2>6. CallOk(c)'
    BY <2>4, <2>5, <1>1, CallGoesOn
  <2>7. \A b \in Calls : CallOk(b)'
    BY <2>4, <2>5, <2>6, OthersStand
  <2>8. \A j \in Keys : RequestOk(j)'
    BY <2>2, <2>3, <2>5, RequestStays DEF UploadInv
  <2>9. QuotaCountsRequests' /\ WithinLimits'
    BY <2>2, <2>3, <1>1, CountsStay DEF UploadInv, SameCounts
  <2>10. TypeOK'
    BY <1>1, <2>3, <2>4 DEF TypeOK
  <2>. QED BY <2>7, <2>8, <2>9, <2>10 DEF UploadInv
<1>. QED BY <1>2, <1>3, <1>4

(* What settles a slot keeps the type of the counters.                       *)
LEMMA SettledType ==
    ASSUME TypeOK, NEW k \in Keys, NEW finished \in BOOLEAN, quota' = Settled(k, finished)
    PROVE  quota' \in [Scopes \X Days -> [uploads : Nat, reserved : Nat, reports : Nat]]
<1>. SUFFICES ASSUME NEW s \in Scopes \X Days
              PROVE  quota'[s] \in [uploads : Nat, reserved : Nat, reports : Nat]
  BY DEF Settled
<1>1. quota[s] \in [uploads : Nat, reserved : Nat, reports : Nat]
  BY DEF TypeOK
<1>. DEFINE r == IF quota[s].reserved = 0 THEN 0 ELSE quota[s].reserved - 1
            u == IF finished THEN quota[s].uploads + 1 ELSE quota[s].uploads
<1>2. quota'[s] = quota[s] \/ quota'[s] = [quota[s] EXCEPT !.reserved = r, !.uploads = u]
  BY DEF Settled
<1>3. r \in Nat
  BY <1>1
<1>4. u \in {quota[s].uploads + 1, quota[s].uploads}
  BY Zenon
<1>5. u \in Nat
  BY <1>1, <1>4
<1>. HIDE DEF r, u
<1>. QED BY <1>1, <1>2, <1>3, <1>5

(* fail_upload                                                               *)
LEMMA FailUploadInv ==
    ASSUME UploadAssumption, UploadInv, NEW c \in Calls, FailUpload(c)
    PROVE  UploadInv'
<1>. DEFINE k == calls[c].key
<1>1. /\ TypeOK /\ calls[c].pc = "rejecting" /\ k \in Keys
      /\ requests[k] \in RequestRecord /\ Goto(c, "refused")
      /\ UNCHANGED <<today, evidence, reports, objects, flying>>
  BY DEF UploadInv, TypeOK, CallOk, FailUpload, bucket
<1>2. CASE ~MayRelease(c)
  <2>1. UNCHANGED <<quota, requests>>
    BY <1>2 DEF FailUpload
  <2>2. objects' \subseteq Calls /\ flying' \subseteq Calls
    BY <1>1 DEF TypeOK
  <2>. QED BY <1>1, <2>1, <2>2, QuietCall
<1>3. CASE MayRelease(c)
  <2>1. /\ requests[k].status = "reserved" /\ quota' = Settled(k, FALSE)
        /\ requests' = [requests EXCEPT ![k].status = "failed"]
    BY <1>3 DEF FailUpload, MayRelease
  <2>2. /\ requests' \in [Keys -> RequestRecord]
        /\ requests'[k] = [requests[k] EXCEPT !.status = "failed"]
        /\ requests'[k].status = "failed" /\ requests'[k].day = requests[k].day
        /\ requests'[k].evidence = requests[k].evidence /\ requests'[k].owner = requests[k].owner
        /\ \A j \in Keys \ {k} : requests'[j] = requests[j]
    BY <2>1, <1>1 DEF TypeOK, RequestRecord
  <2>3. Keeps
    BY <2>1, <2>2, <1>1 DEF Keeps
  <2>4. /\ calls' \in [Calls -> CallRecord] /\ calls'[c].pc = "refused"
        /\ \A b \in Calls \ {c} : calls'[b] = calls[b]
    <3>1. calls[c] \in CallRecord
      BY <1>1 DEF TypeOK
    <3>2. /\ calls' \in [Calls -> CallRecord]
          /\ calls'[c] = [calls[c] EXCEPT !.pc = "refused"]
          /\ \A b \in Calls \ {c} : calls'[b] = calls[b]
      BY <1>1, GotoType
    <3>. QED BY <3>1, <3>2 DEF CallRecord
  <2>5. \A b \in Calls : CallOk(b)'
    BY <2>3, <2>4, CallRefused, OthersStand
  <2>6. \A j \in Keys : RequestOk(j)'
    BY <2>1, <2>2, <1>1 DEF UploadInv, RequestOk
  <2>7. QuotaCountsRequests' /\ WithinLimits'
    BY <2>1, <2>2, <1>1, CountsSettled DEF UploadInv
  <2>8. TypeOK'
    BY <1>1, <2>1, <2>2, <2>4, SettledType DEF TypeOK
  <2>. QED BY <2>5, <2>6, <2>7, <2>8 DEF UploadInv
<1>. QED BY <1>2, <1>3

(* finish_upload                                                             *)
LEMMA FinishInv ==
    ASSUME UploadAssumption, UploadInv, NEW c \in Calls, Finish(c)
    PROVE  UploadInv'
<1>. DEFINE k == calls[c].key
<1>1. /\ TypeOK /\ calls[c].pc = "finishing" /\ k \in Keys
      /\ requests[k] \in RequestRecord /\ RequestOk(k) /\ requests[k].status # "absent"
      /\ UNCHANGED <<today, reports, objects, flying>>
  BY DEF UploadInv, TypeOK, CallOk, Finish, bucket
<1>2. requests[k].evidence \in Calls /\ requests[k].owner \in Calls
  BY <1>1 DEF RequestOk
<1>3. CASE requests[k].status \notin {"reserved", "completed"}
  <2>1. Goto(c, "refused") /\ UNCHANGED <<quota, evidence, requests>>
    BY <1>3 DEF Finish, Unfinished
  <2>2. objects' \subseteq Calls /\ flying' \subseteq Calls
    BY <1>1 DEF TypeOK
  <2>. QED BY <1>1, <2>1, <2>2, QuietCall
<1>4. CASE requests[k].status \in {"reserved", "completed"}
  <2>1. GotoWith(c, "done", k, requests[k])
    BY <1>4 DEF Finish, Unfinished
  <2>2. /\ calls' \in [Calls -> CallRecord]
        /\ calls'[c] = [pc |-> "done", key |-> k, evidence |-> requests[k].evidence,
                        owner |-> requests[k].owner]
        /\ \A b \in Calls \ {c} : calls'[b] = calls[b]
    BY <2>1, <1>1, GotoWithType
  <2>3. CASE requests[k].status = "completed"
    <3>1. UNCHANGED <<quota, evidence, requests>>
      BY <2>3 DEF Finish, Unfinished
    <3>2. Keeps
      BY <3>1 DEF Keeps
    <3>3. CallOk(c)'
      BY <3>1, <2>2, <2>3, <1>1, <1>2 DEF CallOk
    <3>4. \A b \in Calls : CallOk(b)'
      BY <3>2, <3>3, <2>2, OthersStand
    <3>5. \A j \in Keys : RequestOk(j)'
      BY <3>1 DEF UploadInv, RequestOk
    <3>6. QuotaCountsRequests' /\ WithinLimits'
      BY <3>1, CountsStay DEF UploadInv, SameCounts
    <3>7. TypeOK'
      BY <1>1, <3>1, <2>2 DEF TypeOK
    <3>. QED BY <3>4, <3>5, <3>6, <3>7 DEF UploadInv
  <2>4. CASE requests[k].status = "reserved"
    <3>1. /\ quota' = Settled(k, TRUE)
          /\ evidence' = evidence \cup {requests[k].evidence}
          /\ requests' = [requests EXCEPT ![k].status = "completed"]
      BY <2>4 DEF Finish, Unfinished
    <3>2. /\ requests' \in [Keys -> RequestRecord]
          /\ requests'[k].status = "completed" /\ requests'[k].day = requests[k].day
          /\ requests'[k].evidence = requests[k].evidence /\ requests'[k].owner = requests[k].owner
          /\ \A j \in Keys \ {k} : requests'[j] = requests[j]
      BY <3>1, <1>1 DEF TypeOK, RequestRecord
    <3>3. Keeps
      BY <2>4, <3>1, <3>2 DEF Keeps
    <3>4. CallOk(c)'
      BY <3>2, <2>2, <1>1, <1>2 DEF CallOk
    <3>5. \A b \in Calls : CallOk(b)'
      BY <3>3, <3>4, <2>2, OthersStand
    <3>6. \A j \in Keys : RequestOk(j)'
      BY <3>1, <3>2, <1>1, <2>4 DEF UploadInv, RequestOk
    <3>7. QuotaCountsRequests' /\ WithinLimits'
      BY <2>4, <3>1, <3>2, <1>1, CountsSettled DEF UploadInv
    <3>8. TypeOK'
      <4>1. quota' \in [Scopes \X Days -> [uploads : Nat, reserved : Nat, reports : Nat]]
        BY <3>1, <1>1, SettledType
      <4>. QED BY <4>1, <1>1, <1>2, <3>1, <3>2, <2>2 DEF TypeOK
    <3>. QED BY <3>5, <3>6, <3>7, <3>8 DEF UploadInv
  <2>. QED BY <1>4, <2>3, <2>4
<1>. QED BY <1>3, <1>4
(* Steps outside the calls: a write that lands, a lease that runs out, a new *)
(* day and a report.                                                         *)
LEMMA OutsideInv ==
    ASSUME UploadAssumption, UploadInv, UNCHANGED <<evidence, calls>>, SameCounts, TypeOK',
           \A k \in Keys : /\ requests'[k].evidence = requests[k].evidence
                          /\ requests'[k].owner = requests[k].owner
    PROVE  UploadInv'
<1>1. Keeps
  BY DEF Keeps, SameCounts
<1>2. \A b \in Calls : CallOk(b)'
  BY <1>1, CallStays DEF UploadInv
<1>3. \A k \in Keys : RequestOk(k)'
  BY <1>1, RequestStays DEF UploadInv, SameCounts
<1>. QED BY <1>2, <1>3, CountsStay DEF UploadInv

(* A write given up by its call lands.                                       *)
LEMMA LandsInv ==
    ASSUME UploadAssumption, UploadInv, NEW e \in Calls, Lands(e)
    PROVE  UploadInv'
<1>1. TypeOK'
  BY DEF UploadInv, TypeOK, Lands
<1>. QED BY <1>1, OutsideInv DEF Lands, SameCounts

(* A lease runs out.                                                         *)
LEMMA ExpireLeaseInv ==
    ASSUME UploadAssumption, UploadInv, NEW k \in Keys, ExpireLease(k)
    PROVE  UploadInv'
<1>1. /\ UNCHANGED <<today, quota, evidence, reports, calls, objects, flying>>
      /\ requests' = [requests EXCEPT ![k].leased = FALSE]
      /\ TypeOK /\ requests[k] \in RequestRecord
  BY DEF ExpireLease, bucket, UploadInv, TypeOK
<1>2. \A j \in Keys : /\ requests'[j] \in RequestRecord
                      /\ requests'[j].status = requests[j].status
                      /\ requests'[j].day = requests[j].day
                      /\ requests'[j].evidence = requests[j].evidence
                      /\ requests'[j].owner = requests[j].owner
  BY <1>1 DEF TypeOK, RequestRecord
<1>3. TypeOK'
  BY <1>1, <1>2 DEF TypeOK
<1>. QED BY <1>1, <1>2, <1>3, OutsideInv DEF SameCounts

(* Midnight.                                                                 *)
LEMMA NextDayInv ==
    ASSUME UploadAssumption, UploadInv, NextDay
    PROVE  UploadInv'
<1>1. UNCHANGED <<quota, requests, evidence, reports, calls, objects, flying>> /\ today' \in Days
  BY DEF NextDay, bucket
<1>2. TypeOK'
  BY <1>1 DEF UploadInv, TypeOK
<1>. QED BY <1>1, <1>2, OutsideInv DEF SameCounts

(* create_observation                                                        *)
LEMMA CreateObservationInv ==
    ASSUME UploadAssumption, UploadInv, NEW k \in Keys, CreateObservation(k)
    PROVE  UploadInv'
<1>1. /\ UNCHANGED <<today, requests, evidence, calls, objects, flying>>
      /\ reports' = [reports EXCEPT ![k] = today] /\ TypeOK
  BY DEF CreateObservation, bucket, UploadInv
<1>2. \A s \in Scopes \X Days :
          \/ quota'[s] = quota[s]
          \/ quota'[s] = [quota[s] EXCEPT !.reports = @ + 1]
  BY DEF CreateObservation
<1>3. \A s \in Scopes \X Days : quota[s] \in [uploads : Nat, reserved : Nat, reports : Nat]
  BY <1>1 DEF TypeOK
<1>4. \A s \in Scopes \X Days : /\ quota'[s] \in [uploads : Nat, reserved : Nat, reports : Nat]
                               /\ quota'[s].uploads = quota[s].uploads
                               /\ quota'[s].reserved = quota[s].reserved
  <2>1. SUFFICES ASSUME NEW s \in Scopes \X Days
                 PROVE  /\ quota'[s] \in [uploads : Nat, reserved : Nat, reports : Nat]
                        /\ quota'[s].uploads = quota[s].uploads
                        /\ quota'[s].reserved = quota[s].reserved
    OBVIOUS
  <2>2. quota[s] \in [uploads : Nat, reserved : Nat, reports : Nat]
    BY <1>3
  <2>3. CASE quota'[s] = quota[s]
    BY <2>2, <2>3
  <2>4. CASE quota'[s] = [quota[s] EXCEPT !.reports = @ + 1]
    BY <2>2, <2>4
  <2>. QED BY <1>2, <2>3, <2>4
<1>5. quota' \in [Scopes \X Days -> [uploads : Nat, reserved : Nat, reports : Nat]]
  BY <1>4 DEF CreateObservation
<1>6. TypeOK'
  BY <1>1, <1>5 DEF TypeOK
<1>7. SameCounts
  BY <1>1, <1>4 DEF SameCounts
<1>. QED BY <1>1, <1>6, <1>7, OutsideInv

(* Every step keeps the invariant.                                           *)
LEMMA NextInv ==
    ASSUME UploadAssumption, UploadInv, [Next]_vars
    PROVE  UploadInv'
<1>1. CASE UNCHANGED vars
  <2>1. TypeOK'
    BY <1>1 DEF vars, UploadInv, TypeOK
  <2>. QED BY <1>1, <2>1, OutsideInv DEF vars, SameCounts
<1>2. CASE Next
  BY <1>2, ReserveInv, CheckInv, ReclaimInv, WriteInv, FailUploadInv, FinishInv, GiveUpInv,
     LandsInv, ExpireLeaseInv, CreateObservationInv, NextDayInv DEF Next
<1>. QED BY <1>1, <1>2

-------------------------------------------------------------------------------
(* Reports                                                                   *)

(* What settles or reserves an upload leaves the counters of reports alone.  *)
LEMMA ReportsStay ==
    ASSUME TypeOK, ReportsAreCharged, UNCHANGED reports,
           \/ UNCHANGED quota
           \/ \E k : quota' = Reserved(k) \/ \E finished : quota' = Settled(k, finished)
    PROVE  ReportsAreCharged'
<1>1. ASSUME NEW s \in Scopes, NEW d \in Days
      PROVE  quota'[<<s, d>>].reports = quota[<<s, d>>].reports
  <2>1. <<s, d>> \in Scopes \X Days /\ quota[<<s, d>>] \in [uploads : Nat, reserved : Nat, reports : Nat]
    BY DEF TypeOK
  <2>2. CASE UNCHANGED quota
    BY <2>2
  <2>3. ASSUME NEW k, quota' = Reserved(k)
        PROVE  quota'[<<s, d>>].reports = quota[<<s, d>>].reports
    <3>1. \/ quota'[<<s, d>>] = quota[<<s, d>>]
          \/ quota'[<<s, d>>] = [quota[<<s, d>>] EXCEPT !.reserved = @ + 1]
      BY <2>1, <2>3 DEF Reserved
    <3>. QED BY <2>1, <3>1
  <2>4. ASSUME NEW k, NEW finished, quota' = Settled(k, finished)
        PROVE  quota'[<<s, d>>].reports = quota[<<s, d>>].reports
    <3>1. \/ quota'[<<s, d>>] = quota[<<s, d>>]
          \/ quota'[<<s, d>>] = [quota[<<s, d>>] EXCEPT !.reserved = IF @ = 0 THEN 0 ELSE @ - 1,
                                                       !.uploads = IF finished THEN @ + 1 ELSE @]
      BY <2>1, <2>4 DEF Settled
    <3>. QED BY <2>1, <3>1
  <2>. QED BY <2>2, <2>3, <2>4
<1>2. \A s, d : Reported(s, d)' = Reported(s, d)
  BY DEF Reported, ScopesOf
<1>. QED BY <1>1, <1>2 DEF ReportsAreCharged

(* A new report is one more in its scopes today, where there is room for it. *)
LEMMA ReportIsCharged ==
    ASSUME UploadAssumption, TypeOK, ReportsAreCharged, NEW k \in Keys, CreateObservation(k)
    PROVE  ReportsAreCharged'
<1>1. SUFFICES ASSUME NEW s \in Scopes, NEW d \in Days
               PROVE  /\ quota'[<<s, d>>].reports = Cardinality(Reported(s, d)')
                      /\ quota'[<<s, d>>].reports <= ReportLimit[s]
  BY DEF ReportsAreCharged
<1>2. /\ reports[k] = 0 /\ reports' = [reports EXCEPT ![k] = today] /\ k \in DOMAIN reports
      /\ d # 0 /\ <<s, d>> \in Scopes \X Days
      /\ quota[<<s, d>>] \in [uploads : Nat, reserved : Nat, reports : Nat]
  BY DEF CreateObservation, Replayed, TypeOK, UploadAssumption
<1>3. /\ quota[<<s, d>>].reports = Cardinality(Reported(s, d)) /\ quota[<<s, d>>].reports \in Nat
      /\ quota[<<s, d>>].reports <= ReportLimit[s] /\ ReportLimit[s] \in Nat
  BY <1>2 DEF ReportsAreCharged, UploadAssumption
<1>4. IsFiniteSet(Reported(s, d)) /\ k \notin Reported(s, d)
  <2>1. Reported(s, d) \in SUBSET Keys
    BY DEF Reported
  <2>. QED BY <1>2, <2>1, FS_Subset DEF UploadAssumption, Reported
<1>5. <<s, d>> \in Charged(k, today) <=> s \in ScopesOf(k) /\ d = today
  BY <1>2 DEF Charged
<1>6. CASE s \in ScopesOf(k) /\ d = today
  <2>1. quota'[<<s, d>>] = [quota[<<s, d>>] EXCEPT !.reports = @ + 1]
    BY <1>2, <1>5, <1>6 DEF CreateObservation
  <2>2. quota'[<<s, d>>].reports = quota[<<s, d>>].reports + 1
    BY <1>2, <2>1
  <2>3. Reported(s, d)' = Reported(s, d) \cup {k}
    BY <1>2, <1>6 DEF Reported, ScopesOf
  <2>4. Cardinality(Reported(s, d)') = Cardinality(Reported(s, d)) + 1
    BY <1>4, <2>3, FS_AddElement
  <2>5. quota[<<s, d>>].reports < ReportLimit[s]
    BY <1>6 DEF CreateObservation
  <2>. QED BY <1>3, <2>2, <2>4, <2>5
<1>7. CASE ~(s \in ScopesOf(k) /\ d = today)
  <2>1. quota'[<<s, d>>] = quota[<<s, d>>]
    BY <1>2, <1>5, <1>7 DEF CreateObservation
  <2>2. Reported(s, d)' = Reported(s, d)
    BY <1>2, <1>7 DEF Reported, ScopesOf
  <2>. QED BY <1>3, <2>1, <2>2
<1>. QED BY <1>6, <1>7

(* Every other step leaves the reports and their counters alone.             *)
LEMMA NextReports ==
    ASSUME UploadAssumption, TypeOK, ReportsAreCharged, [Next]_vars
    PROVE  ReportsAreCharged'
<1>1. ASSUME NEW k \in Keys, CreateObservation(k) PROVE ReportsAreCharged'
  BY <1>1, ReportIsCharged
<1>2. ASSUME NEW c \in Calls, NEW k \in Keys, Reserve(c, k) PROVE ReportsAreCharged'
  BY <1>2, ReportsStay DEF Reserve
<1>3. ASSUME NEW c \in Calls, FailUpload(c) PROVE ReportsAreCharged'
  BY <1>3, ReportsStay DEF FailUpload
<1>4. ASSUME NEW c \in Calls, Finish(c) PROVE ReportsAreCharged'
  BY <1>4, ReportsStay DEF Finish
<1>5. ASSUME \/ \E c \in Calls : Check(c) \/ Reclaim(c) \/ Write(c) \/ GiveUp(c)
             \/ \E e \in Calls : Lands(e)
             \/ \E k \in Keys : ExpireLease(k)
             \/ NextDay \/ UNCHANGED vars
      PROVE  ReportsAreCharged'
  <2>1. UNCHANGED <<quota, reports>>
    BY <1>5 DEF Check, Reclaim, Write, GiveUp, Lands, ExpireLease, NextDay, vars
  <2>. QED BY <2>1, ReportsStay
<1>. QED BY <1>1, <1>2, <1>3, <1>4, <1>5 DEF Next

-------------------------------------------------------------------------------
(* The theorems                                                              *)

(* The invariant holds in every state uploads can be in.                     *)
THEOREM UploadInvariance == ASSUME UploadAssumption PROVE Spec => []UploadInv
<1>1. Init => UploadInv
  BY InitInv
<1>2. UploadInv /\ [Next]_vars => UploadInv'
  BY NextInv
<1>. QED BY <1>1, <1>2, PTL DEF Spec

(* Counters, requests, evidence and calls keep their types.                  *)
THEOREM TypeCorrect == ASSUME UploadAssumption PROVE Spec => []TypeOK
<1>1. UploadInv => TypeOK
  BY DEF UploadInv
<1>. QED BY <1>1, UploadInvariance, PTL

(* The counters of a day are the slots held and the uploads done on it.      *)
THEOREM QuotasAreExact == ASSUME UploadAssumption PROVE Spec => []QuotaCountsRequests
<1>1. UploadInv => QuotaCountsRequests
  BY DEF UploadInv
<1>. QED BY <1>1, UploadInvariance, PTL

(* No scope holds and completes more uploads on a day than its limit.        *)
THEOREM LimitsAreKept == ASSUME UploadAssumption PROVE Spec => []LimitsHold
<1>1. ASSUME UploadInv PROVE LimitsHold
  <2>1. SUFFICES ASSUME NEW s \in Scopes, NEW d \in Days
                 PROVE  Cardinality(With("reserved", s, d)) + Cardinality(With("completed", s, d))
                            <= Limit[s]
    BY DEF LimitsHold
  <2>2. /\ quota[<<s, d>>].reserved = Cardinality(With("reserved", s, d))
        /\ quota[<<s, d>>].uploads = Cardinality(With("completed", s, d))
        /\ quota[<<s, d>>].uploads + quota[<<s, d>>].reserved <= Limit[s]
    BY <1>1 DEF UploadInv, QuotaCountsRequests, WithinLimits, Used
  <2>3. Cardinality(With("reserved", s, d)) \in Nat /\ Cardinality(With("completed", s, d)) \in Nat
    BY WithFinite
  <2>. QED BY <2>2, <2>3
<1>2. UploadInv => LimitsHold
  BY <1>1
<1>. QED BY <1>2, UploadInvariance, PTL

(* The counter of reports of a day is the reports made on it, each charged   *)
(* once however often it is sent, and stays within the limit.                *)
THEOREM ReportsAreExact == ASSUME UploadAssumption PROVE Spec => []ReportsAreCharged
<1>1. Init => ReportsAreCharged
  <2>1. SUFFICES ASSUME Init, NEW s \in Scopes, NEW d \in Days
                 PROVE  /\ quota[<<s, d>>].reports = Cardinality(Reported(s, d))
                        /\ quota[<<s, d>>].reports <= ReportLimit[s]
    BY DEF ReportsAreCharged
  <2>2. quota[<<s, d>>].reports = 0 /\ ReportLimit[s] \in Nat
    BY <2>1 DEF Init, UploadAssumption
  <2>3. Reported(s, d) = {}
    BY <2>1 DEF Init, Reported, UploadAssumption
  <2>. QED BY <2>2, <2>3, FS_EmptySet
<1>2. UploadInv /\ ReportsAreCharged /\ [Next]_vars => ReportsAreCharged'
  BY NextReports DEF UploadInv
<1>. QED BY <1>1, <1>2, UploadInvariance, PTL DEF Spec

(* All calls of one key that succeed answer the one photo recorded for it.   *)
THEOREM OnePhotoPerKey == ASSUME UploadAssumption PROVE Spec => []AnswersAgree
<1>1. ASSUME UploadInv PROVE AnswersAgree
  <2>1. SUFFICES ASSUME NEW c \in Calls, calls[c].pc = "done"
                 PROVE  /\ requests[calls[c].key].status = "completed"
                        /\ calls[c].evidence = requests[calls[c].key].evidence
                        /\ calls[c].evidence \in evidence
    BY DEF AnswersAgree
  <2>2. CallOk(c)
    BY <1>1 DEF UploadInv
  <2>3. calls[c].key \in Keys
    BY <2>1, <2>2 DEF CallOk
  <2>4. RequestOk(calls[c].key)
    BY <1>1, <2>3 DEF UploadInv
  <2>. QED BY <2>1, <2>2, <2>4 DEF CallOk, RequestOk
<1>2. UploadInv => AnswersAgree
  BY <1>1
<1>. QED BY <1>2, UploadInvariance, PTL


-------------------------------------------------------------------------------
(* The ledger                                                                *)

(* The slot of a request, before a step and after it.                        *)
LEMMA SlotIs ==
    ASSUME NEW k
    PROVE  /\ requests[k].status = "reserved" =>
                  Slot(k) = Book!Slot("held", requests[k].evidence, requests[k].day)
           /\ requests[k].status = "completed" =>
                  Slot(k) = Book!Slot("used", requests[k].evidence, requests[k].day)
           /\ requests[k].status \notin {"reserved", "completed"} => Slot(k) = Book!Free
           /\ requests'[k].status = "reserved" =>
                  Slot(k)' = Book!Slot("held", requests'[k].evidence, requests'[k].day)
           /\ requests'[k].status = "completed" =>
                  Slot(k)' = Book!Slot("used", requests'[k].evidence, requests'[k].day)
           /\ requests'[k].status \notin {"reserved", "completed"} => Slot(k)' = Book!Free
<1>1. /\ requests[k].status = "reserved" =>
             Slot(k) = Book!Slot("held", requests[k].evidence, requests[k].day)
      /\ requests[k].status = "completed" =>
             Slot(k) = Book!Slot("used", requests[k].evidence, requests[k].day)
      /\ requests[k].status \notin {"reserved", "completed"} => Slot(k) = Book!Free
  BY DEF Slot, Book!Slot, Book!Free
<1>2. /\ requests'[k].status = "reserved" =>
             Slot(k)' = Book!Slot("held", requests'[k].evidence, requests'[k].day)
      /\ requests'[k].status = "completed" =>
             Slot(k)' = Book!Slot("used", requests'[k].evidence, requests'[k].day)
      /\ requests'[k].status \notin {"reserved", "completed"} => Slot(k)' = Book!Free
  BY DEF Slot, Book!Slot, Book!Free
<1>. QED BY <1>1, <1>2

(* A slot that is not free knows its day.                                    *)
LEMMA SlotRecords ==
    ASSUME NEW status \in {"held", "used"}, NEW photo, NEW d
    PROVE  /\ Book!Slot(status, photo, d) # Book!Free
           /\ Book!Slot(status, photo, d).status = status
           /\ Book!Slot(status, photo, d).day = d
  BY DEF Book!Slot, Book!Free

(* Counting is the same in both modules.                                     *)
LEMMA SameCardinality == ASSUME NEW S PROVE Book!Cardinality(S) = Cardinality(S)
  BY DEF Book!Cardinality, Cardinality

(* What a scope has taken on a day is what the counters count.               *)
LEMMA TakenIsUsed ==
    ASSUME UploadAssumption, UploadInv, NEW s \in Scopes, NEW d \in Days
    PROVE  Cardinality(Book!Taken(s, d)) = Used(s, d)
<1>. DEFINE H == With("reserved", s, d)
            U == With("completed", s, d)
<1>1. ASSUME NEW k \in Keys
      PROVE  k \in Book!Taken(s, d) <=> k \in H \/ k \in U
  <2>1. k \in Book!Taken(s, d) <=> s \in ScopesOf(k) /\ Slot(k) # Book!Free /\ Slot(k).day = d
    BY DEF Book!Taken, Book!ScopesOf, Slots, ScopesOf
  <2>2. k \in H <=> s \in ScopesOf(k) /\ requests[k].status = "reserved" /\ requests[k].day = d
    BY DEF With
  <2>3. k \in U <=> s \in ScopesOf(k) /\ requests[k].status = "completed" /\ requests[k].day = d
    BY DEF With
  <2>4. CASE requests[k].status = "reserved"
    BY <2>1, <2>2, <2>3, <2>4, SlotIs, SlotRecords
  <2>5. CASE requests[k].status = "completed"
    BY <2>1, <2>2, <2>3, <2>5, SlotIs, SlotRecords
  <2>6. CASE requests[k].status \notin {"reserved", "completed"}
    BY <2>1, <2>2, <2>3, <2>6, SlotIs
  <2>. QED BY <2>4, <2>5, <2>6
<1>2. Book!Taken(s, d) \subseteq Keys /\ H \subseteq Keys /\ U \subseteq Keys
  BY DEF Book!Taken, With
<1>3. Book!Taken(s, d) = H \cup U /\ H \cap U = {}
  <2>1. H \cap U = {}
    BY DEF With
  <2>. QED BY <1>1, <1>2, <2>1
<1>4. Cardinality(H \cup U) = Cardinality(H) + Cardinality(U)
  <2>1. /\ IsFiniteSet(H) /\ IsFiniteSet(U)
        /\ Cardinality(H) \in Nat /\ Cardinality(U) \in Nat
    BY WithFinite
  <2>2. Cardinality(H \cup U) = Cardinality(H) + Cardinality(U) - Cardinality(H \cap U)
    BY <2>1, FS_Union
  <2>3. Cardinality(H \cap U) = 0
    BY <1>3, FS_EmptySet
  <2>. HIDE DEF H, U
  <2>. QED BY <2>1, <2>2, <2>3
<1>5. quota[<<s, d>>].reserved = Cardinality(H) /\ quota[<<s, d>>].uploads = Cardinality(U)
  BY DEF UploadInv, QuotaCountsRequests
<1>6. Cardinality(H) \in Nat /\ Cardinality(U) \in Nat
  BY WithFinite
<1>. QED BY <1>3, <1>4, <1>5, <1>6 DEF Used

(* At most one request changes.                                              *)
LEMMA SlotsMove ==
    ASSUME NEW k \in Keys, \A j \in Keys \ {k} : requests'[j] = requests[j]
    PROVE  /\ Slots[k] = Slot(k)
           /\ Slots' = [Slots EXCEPT ![k] = Slot(k)']
           /\ Slot(k)' = Slot(k) => Slots' = Slots
<1>1. \A j \in Keys \ {k} : Slot(j)' = Slot(j)
  BY DEF Slot
<1>2. Slots = [j \in Keys |-> Slot(j)] /\ Slots' = [j \in Keys |-> Slot(j)']
  BY DEF Slots
<1>. QED BY <1>1, <1>2

(* Slots are read off the requests alone.                                    *)
LEMMA SlotsRest ==
    ASSUME UNCHANGED requests
    PROVE  Slots' = Slots
  BY DEF Slots, Slot

(* A call that is over has answered.                                         *)
LEMMA AnsweredMoves ==
    ASSUME NEW c \in Calls, calls[c].pc # "done", \A b \in Calls \ {c} : calls'[b] = calls[b]
    PROVE  /\ calls'[c].pc # "done" => Answered' = Answered
           /\ calls'[c].pc = "done" =>
                  Answered' = Answered \cup {<<calls'[c].key, calls'[c].evidence>>}
<1>1. \A x : x \in Answered <=>
                 \E b \in Calls : calls[b].pc = "done" /\ x = <<calls[b].key, calls[b].evidence>>
  BY DEF Answered
<1>2. \A x : x \in Answered' <=>
                 \E b \in Calls : calls'[b].pc = "done" /\ x = <<calls'[b].key, calls'[b].evidence>>
  BY DEF Answered
<1>3. ASSUME calls'[c].pc # "done" PROVE Answered' = Answered
  <2>1. \A x : x \in Answered' <=> x \in Answered
    BY <1>1, <1>2, <1>3
  <2>. QED BY <2>1
<1>4. ASSUME calls'[c].pc = "done"
      PROVE  Answered' = Answered \cup {<<calls'[c].key, calls'[c].evidence>>}
  <2>1. \A x : x \in Answered' <=> x \in Answered \/ x = <<calls'[c].key, calls'[c].evidence>>
    BY <1>1, <1>2, <1>4
  <2>. QED BY <2>1
<1>. QED BY <1>3, <1>4

(* A call that goes on, with a copy of the request or as it is, has not.     *)
LEMMA CallMoves ==
    ASSUME TypeOK, NEW c \in Calls, calls[c].pc # "done", NEW pc, pc # "done",
           Goto(c, pc) \/ \E k, request : GotoWith(c, pc, k, request)
    PROVE  Answered' = Answered
<1>1. DOMAIN calls = Calls /\ calls[c] \in CallRecord
  BY DEF TypeOK
<1>2. calls'[c].pc = pc /\ \A b \in Calls \ {c} : calls'[b] = calls[b]
  BY <1>1 DEF Goto, GotoWith, CallRecord
<1>. QED BY <1>2, AnsweredMoves

(* A call that ends with a photo answers its key with it.                    *)
LEMMA CallAnswers ==
    ASSUME TypeOK, NEW c \in Calls, calls[c].pc # "done", NEW k, NEW request,
           GotoWith(c, "done", k, request)
    PROVE  Answered' = Answered \cup {<<k, request.evidence>>}
<1>1. DOMAIN calls = Calls
  BY DEF TypeOK
<1>2. /\ calls'[c].pc = "done" /\ calls'[c].key = k /\ calls'[c].evidence = request.evidence
      /\ \A b \in Calls \ {c} : calls'[b] = calls[b]
  BY <1>1 DEF GotoWith
<1>. QED BY <1>2, AnsweredMoves

(* A completed request is answered once more.                                *)
LEMMA AnswersAgain ==
    ASSUME UploadAssumption, UploadInv, NEW c \in Calls, calls[c].pc # "done", NEW k \in Keys,
           requests[k].status = "completed", GotoWith(c, "done", k, requests[k]),
           UNCHANGED <<today, requests, evidence>>
    PROVE  Book!Next
<1>1. PICK e \in Calls, d \in Days : e = requests[k].evidence /\ d = requests[k].day
  BY DEF UploadInv, RequestOk
<1>2. Slots[k] = Book!Slot("used", e, d)
  BY <1>1, SlotIs, SlotsMove
<1>3. Answered' = Answered \cup {<<k, e>>}
  BY <1>1, CallAnswers DEF UploadInv
<1>4. Book!Answer(k, e)
  BY <1>2, <1>3, SlotsRest DEF Book!Answer
<1>. QED BY <1>4 DEF Book!Next

(* A step of a call, or around it, that the ledger does not see.             *)
LEMMA BookRests ==
    ASSUME Slots' = Slots, Answered' = Answered, UNCHANGED <<today, evidence>>
    PROVE  [Book!Next]_Book!vars
  BY DEF Book!vars

(* A reservation takes a slot; a replay answers; a full day does nothing.    *)
LEMMA ReserveBooks ==
    ASSUME UploadAssumption, UploadInv, NEW c \in Calls, NEW k \in Keys, Reserve(c, k)
    PROVE  [Book!Next]_Book!vars
<1>. DEFINE fresh == [status |-> "reserved", evidence |-> c, owner |-> c, leased |-> TRUE, day |-> today]
<1>1. /\ TypeOK /\ calls[c].pc = "new" /\ today \in Days /\ requests[k] \in RequestRecord
      /\ UNCHANGED <<today, evidence>>
  BY DEF UploadInv, TypeOK, Reserve
<1>2. CASE requests[k].status = "completed"
  <2>1. GotoWith(c, "done", k, requests[k]) /\ UNCHANGED requests
    BY <1>2 DEF Reserve
  <2>. QED BY <1>1, <1>2, <2>1, AnswersAgain
<1>3. CASE requests[k].status = "reserved"
  <2>1. GotoWith(c, "checking", k, requests[k]) /\ UNCHANGED requests
    BY <1>3 DEF Reserve
  <2>2. Answered' = Answered
    BY <1>1, <2>1, CallMoves
  <2>. QED BY <1>1, <2>1, <2>2, SlotsRest, BookRests
<1>4. CASE requests[k].status \in {"absent", "failed"} /\ ~HasRoom(k)
  <2>1. Goto(c, "refused") /\ UNCHANGED requests
    BY <1>4 DEF Reserve
  <2>2. Answered' = Answered
    BY <1>1, <2>1, CallMoves
  <2>. QED BY <1>1, <2>1, <2>2, SlotsRest, BookRests
<1>5. CASE requests[k].status \in {"absent", "failed"} /\ HasRoom(k)
  <2>1. requests' = [requests EXCEPT ![k] = fresh] /\ GotoWith(c, "writing", k, fresh)
    BY <1>5 DEF Reserve
  <2>2. Answered' = Answered
    BY <1>1, <2>1, CallMoves
  <2>3. requests'[k] = fresh /\ \A j \in Keys \ {k} : requests'[j] = requests[j]
    BY <1>1, <2>1 DEF TypeOK
  <2>4. Slot(k) = Book!Free /\ Slot(k)' = Book!Slot("held", c, today)
    BY <1>5, <2>3, SlotIs
  <2>5. Book!HasRoom(k)
    <3>1. ASSUME NEW s \in ScopesOf(k)
          PROVE  Cardinality(Book!Taken(s, today)) < Limit[s]
      <4>1. s \in Scopes
        BY DEF ScopesOf, Scopes, UploadAssumption
      <4>. QED BY <1>1, <1>5, <4>1, TakenIsUsed DEF HasRoom
    <3>2. Book!ScopesOf(k) = ScopesOf(k)
      BY DEF Book!ScopesOf, ScopesOf
    <3>. QED BY <3>1, <3>2, SameCardinality DEF Book!HasRoom
  <2>6. Slots[k] = Book!Free /\ Slots' = [Slots EXCEPT ![k] = Book!Slot("held", c, today)]
    BY <2>3, <2>4, SlotsMove
  <2>7. Book!Take(k, c)
    BY <1>1, <2>2, <2>5, <2>6 DEF Book!Take
  <2>. QED BY <2>7 DEF Book!Next
<1>. QED BY <1>1, <1>2, <1>3, <1>4, <1>5 DEF RequestRecord

(* A new lease moves no slot; a completed request is answered.               *)
LEMMA ReclaimBooks ==
    ASSUME UploadAssumption, UploadInv, NEW c \in Calls, Reclaim(c)
    PROVE  [Book!Next]_Book!vars
<1>1. PICK k \in Keys : k = calls[c].key
  BY DEF UploadInv, CallOk, Reclaim
<1>. DEFINE taken == [requests[k] EXCEPT !.owner = c, !.leased = TRUE]
<1>2. /\ TypeOK /\ calls[c].pc = "reclaiming" /\ requests[k] \in RequestRecord
      /\ DOMAIN calls = Calls /\ calls[c] \in CallRecord
      /\ UNCHANGED <<today, evidence>>
  BY DEF UploadInv, TypeOK, Reclaim
<1>3. CASE requests[k].status = "completed"
  <2>1. GotoWith(c, "done", k, requests[k]) /\ UNCHANGED requests
    BY <1>1, <1>3 DEF Reclaim
  <2>. QED BY <1>2, <1>3, <2>1, AnswersAgain
<1>4. CASE requests[k].status # "completed" /\ requests[k].leased
  <2>1. Goto(c, "refused") /\ UNCHANGED requests
    BY <1>1, <1>4 DEF Reclaim
  <2>2. Answered' = Answered
    BY <1>2, <2>1, CallMoves
  <2>. QED BY <1>2, <2>1, <2>2, SlotsRest, BookRests
<1>5. CASE requests[k].status # "completed" /\ ~requests[k].leased
  <2>1. /\ requests' = [requests EXCEPT ![k] = taken]
        /\ calls' = [calls EXCEPT ![c].pc = "writing", ![c].owner = taken.owner]
    BY <1>1, <1>5 DEF Reclaim
  <2>2. taken.status = requests[k].status /\ taken.evidence = requests[k].evidence
        /\ taken.day = requests[k].day
    BY <1>2 DEF RequestRecord
  <2>3. requests'[k] = taken /\ \A j \in Keys \ {k} : requests'[j] = requests[j]
    BY <1>2, <2>1 DEF TypeOK
  <2>4. Slot(k)' = Slot(k)
    BY <2>2, <2>3 DEF Slot
  <2>5. calls'[c].pc = "writing" /\ \A b \in Calls \ {c} : calls'[b] = calls[b]
    BY <1>2, <2>1 DEF CallRecord
  <2>6. Answered' = Answered
    BY <1>2, <2>5, AnsweredMoves
  <2>. QED BY <1>2, <2>3, <2>4, <2>6, SlotsMove, BookRests
<1>. QED BY <1>3, <1>4, <1>5

(* A rejection by the owner of the lease gives the slot back.                *)
LEMMA FailUploadBooks ==
    ASSUME UploadAssumption, UploadInv, NEW c \in Calls, FailUpload(c)
    PROVE  [Book!Next]_Book!vars
<1>1. PICK k \in Keys : k = calls[c].key
  BY DEF UploadInv, CallOk, FailUpload
<1>2. /\ TypeOK /\ calls[c].pc = "rejecting" /\ requests[k] \in RequestRecord
      /\ Goto(c, "refused") /\ UNCHANGED <<today, evidence>>
  BY DEF UploadInv, TypeOK, FailUpload
<1>3. Answered' = Answered
  BY <1>2, CallMoves
<1>4. CASE ~MayRelease(c)
  <2>1. UNCHANGED requests
    BY <1>4 DEF FailUpload
  <2>. QED BY <1>2, <1>3, <2>1, SlotsRest, BookRests
<1>5. CASE MayRelease(c)
  <2>1. requests[k].status = "reserved" /\ requests' = [requests EXCEPT ![k].status = "failed"]
    BY <1>1, <1>5 DEF FailUpload, MayRelease
  <2>2. requests'[k].status = "failed" /\ \A j \in Keys \ {k} : requests'[j] = requests[j]
    BY <1>2, <2>1 DEF TypeOK, RequestRecord
  <2>3. /\ Slot(k) = Book!Slot("held", requests[k].evidence, requests[k].day)
        /\ Slot(k)' = Book!Free
    BY <2>1, <2>2, SlotIs
  <2>4. Slot(k) # Book!Free /\ Slot(k).status = "held"
    BY <2>3, SlotRecords
  <2>5. Book!Give(k)
    BY <1>2, <1>3, <2>2, <2>3, <2>4, SlotsMove DEF Book!Give
  <2>. QED BY <2>5 DEF Book!Next
<1>. QED BY <1>4, <1>5

(* A completion uses the slot; a second one repeats the answer.              *)
LEMMA FinishBooks ==
    ASSUME UploadAssumption, UploadInv, NEW c \in Calls, Finish(c)
    PROVE  [Book!Next]_Book!vars
<1>1. PICK k \in Keys : k = calls[c].key
  BY DEF UploadInv, CallOk, Finish
<1>2. /\ TypeOK /\ calls[c].pc = "finishing" /\ requests[k] \in RequestRecord
      /\ UNCHANGED today
  BY DEF UploadInv, TypeOK, Finish
<1>3. CASE requests[k].status \notin {"reserved", "completed"}
  <2>1. Goto(c, "refused") /\ UNCHANGED <<evidence, requests>>
    BY <1>1, <1>3 DEF Finish, Unfinished
  <2>2. Answered' = Answered
    BY <1>2, <2>1, CallMoves
  <2>. QED BY <1>2, <2>1, <2>2, SlotsRest, BookRests
<1>4. CASE requests[k].status = "completed"
  <2>1. GotoWith(c, "done", k, requests[k]) /\ UNCHANGED <<evidence, requests>>
    BY <1>1, <1>4 DEF Finish, Unfinished
  <2>. QED BY <1>2, <1>4, <2>1, AnswersAgain
<1>5. CASE requests[k].status = "reserved"
  <2>1. PICK e \in Calls, d \in Days : e = requests[k].evidence /\ d = requests[k].day
    BY <1>5 DEF UploadInv, RequestOk
  <2>2. /\ requests' = [requests EXCEPT ![k].status = "completed"]
        /\ evidence' = evidence \cup {e}
        /\ GotoWith(c, "done", k, requests[k])
    BY <1>1, <1>5, <2>1 DEF Finish, Unfinished
  <2>3. /\ requests'[k].status = "completed"
        /\ requests'[k].evidence = e /\ requests'[k].day = d
        /\ \A j \in Keys \ {k} : requests'[j] = requests[j]
    BY <1>2, <2>1, <2>2 DEF TypeOK, RequestRecord
  <2>4. Slot(k) = Book!Slot("held", e, d) /\ Slot(k)' = Book!Slot("used", e, d)
    BY <1>5, <2>1, <2>3, SlotIs
  <2>5. Answered' = Answered \cup {<<k, e>>}
    BY <1>2, <2>1, <2>2, CallAnswers
  <2>6. Book!Use(k, e, d)
    BY <1>2, <2>2, <2>3, <2>4, <2>5, SlotsMove DEF Book!Use
  <2>. QED BY <2>6 DEF Book!Next
<1>. QED BY <1>3, <1>4, <1>5

(* Whatever touches no request, photo or day, and lets no call return.       *)
LEMMA RestBooks ==
    ASSUME UploadInv, UNCHANGED <<today, evidence>>, UNCHANGED requests,
           \/ UNCHANGED calls
           \/ \E c \in Calls : \E pc : calls[c].pc # "done" /\ pc # "done" /\ Goto(c, pc)
    PROVE  [Book!Next]_Book!vars
<1>1. CASE UNCHANGED calls
  <2>1. Answered' = Answered
    BY <1>1 DEF Answered
  <2>. QED BY <2>1, SlotsRest, BookRests
<1>2. ASSUME NEW c \in Calls, NEW pc, calls[c].pc # "done", pc # "done", Goto(c, pc)
      PROVE  [Book!Next]_Book!vars
  <2>1. Answered' = Answered
    BY <1>2, CallMoves DEF UploadInv
  <2>. QED BY <2>1, SlotsRest, BookRests
<1>. QED BY <1>1, <1>2

(* A lease that runs out leaves the slot as it is; a new day does too.       *)
LEMMA OutsideBooks ==
    ASSUME UploadInv,
           (\E k \in Keys : ExpireLease(k)) \/ NextDay
    PROVE  [Book!Next]_Book!vars
<1>1. UNCHANGED <<evidence, calls>>
  BY DEF ExpireLease, NextDay
<1>2. Answered' = Answered
  BY <1>1 DEF Answered
<1>3. ASSUME NEW k \in Keys, ExpireLease(k) PROVE [Book!Next]_Book!vars
  <2>1. requests[k] \in RequestRecord /\ DOMAIN requests = Keys
    BY DEF UploadInv, TypeOK
  <2>2. requests' = [requests EXCEPT ![k].leased = FALSE] /\ UNCHANGED <<today, evidence>>
    BY <1>3 DEF ExpireLease
  <2>3. /\ requests'[k].status = requests[k].status /\ requests'[k].evidence = requests[k].evidence
        /\ requests'[k].day = requests[k].day
        /\ \A j \in Keys \ {k} : requests'[j] = requests[j]
    BY <2>1, <2>2 DEF RequestRecord
  <2>4. Slot(k)' = Slot(k)
    BY <2>3 DEF Slot
  <2>. QED BY <1>2, <2>2, <2>3, <2>4, SlotsMove, BookRests
<1>4. ASSUME NextDay PROVE [Book!Next]_Book!vars
  <2>1. today' = today + 1 /\ today' \in Days /\ UNCHANGED <<requests, evidence>>
    BY <1>4 DEF NextDay
  <2>2. today' > today
    <3>1. today \in Nat
      BY UploadAssumption DEF UploadInv, TypeOK, UploadAssumption
    <3>. QED BY <2>1, <3>1
  <2>3. Book!NextDay
    BY <1>2, <2>1, <2>2, SlotsRest DEF Book!NextDay
  <2>. QED BY <2>3 DEF Book!Next
<1>. QED BY <1>3, <1>4

(* Every step of the calls keeps the ledger.                                 *)
LEMMA NextBooks ==
    ASSUME UploadAssumption, UploadInv, [Next]_vars
    PROVE  [Book!Next]_Book!vars
<1>1. ASSUME NEW c \in Calls, Check(c) \/ Write(c) \/ GiveUp(c)
      PROVE  [Book!Next]_Book!vars
  <2>1. UNCHANGED <<today, evidence>> /\ UNCHANGED requests
    BY <1>1 DEF Check, Write, GiveUp
  <2>2. calls[c].pc # "done" /\ \E pc : pc # "done" /\ Goto(c, pc)
    <3>1. CASE Check(c)
      <4>1. calls[c].pc = "checking" /\ (Goto(c, "finishing") \/ Goto(c, "reclaiming"))
        BY <3>1 DEF Check
      <4>. QED BY <4>1
    <3>2. CASE Write(c)
      <4>1. /\ calls[c].pc = "writing"
            /\ Goto(c, "finishing") \/ Goto(c, "rejecting") \/ Goto(c, "refused")
        BY <3>2 DEF Write
      <4>. QED BY <4>1
    <3>3. CASE GiveUp(c)
      <4>1. calls[c].pc # "done" /\ Goto(c, "refused")
        BY <3>3 DEF GiveUp
      <4>. QED BY <4>1
    <3>. QED BY <1>1, <3>1, <3>2, <3>3
  <2>. QED BY <2>1, <2>2, RestBooks
<1>2. ASSUME \/ \E e \in Calls : Lands(e)
             \/ \E k \in Keys : CreateObservation(k)
             \/ UNCHANGED vars
      PROVE  [Book!Next]_Book!vars
  <2>1. UNCHANGED <<today, evidence>> /\ UNCHANGED requests /\ UNCHANGED calls
    BY <1>2 DEF Lands, CreateObservation, vars
  <2>. QED BY <2>1, RestBooks
<1>. QED BY <1>1, <1>2, ReserveBooks, ReclaimBooks, FailUploadBooks, FinishBooks, OutsideBooks DEF Next

(* However the calls of a key overlap, are rejected, reclaimed or cut off, a *)
(* slot is taken only where its resident and the workspace have room on that *)
(* day, is given back or used once, a photo is recorded only in a slot, and  *)
(* every answer of a key names the photo recorded for it (reserve_upload,    *)
(* reclaim_upload, fail_upload, finish_upload).                              *)
THEOREM UploadsKeepTheLedger ==
    ASSUME UploadAssumption
    PROVE  Spec => ImplementsLedger
<1>1. ASSUME Init PROVE Book!Init
  <2>1. /\ today \in Days /\ evidence = {}
        /\ \A k \in Keys : requests[k].status = "absent"
        /\ \A c \in Calls : calls[c].pc = "new"
    BY <1>1 DEF Init
  <2>2. \A k \in Keys : Slot(k) = Book!Free
    BY <2>1, SlotIs
  <2>3. Slots = [k \in Keys |-> Book!Free]
    BY <2>2 DEF Slots
  <2>4. Answered = {}
    BY <2>1 DEF Answered
  <2>. QED BY <2>1, <2>3, <2>4 DEF Book!Init
<1>2. Init => Book!Init
  BY <1>1
<1>3. UploadInv /\ [Next]_vars => [Book!Next]_Book!vars
  BY NextBooks
<1>. QED BY <1>2, <1>3, UploadInvariance, PTL DEF Spec, ImplementsLedger, Book!Spec
===============================================================================

------------------------------ MODULE PortalProofs ----------------------------
(***************************************************************************)
(* Proofs about Portal for any attempts, payloads, photos, requests and    *)
(* clerks, and any receipt key, injective or not: an accepted ticket is    *)
(* fixed, its evidence is stored, it is found, and answers open it.        *)
(***************************************************************************)
EXTENDS Portal, Naturals, TLAPS

(* Two copies of a ticket that differ in its status at most.                 *)
SameTicket(t, u) ==
    /\ t.attempt = u.attempt
    /\ t.payload = u.payload
    /\ t.access = u.access
    /\ t.manifest = u.manifest

ShowsLastEntry(t) == Len(t.history) > 0 /\ t.status = t.history[Len(t.history)]

FormPhotos(g) == PhotosOf[FormOf[g.payload]]

(* A ticket lies under the key of its attempt, with its photos stored.       *)
TicketOk(k) ==
    tickets[k] # NoTicket =>
        /\ ReceiptKey[tickets[k].attempt] = k
        /\ tickets[k].manifest = PhotosOf[FormOf[tickets[k].payload]]
        /\ \A x \in tickets[k].manifest : <<k, x>> \in objects
        /\ ShowsLastEntry(tickets[k])

(* What a request has checked stays true of the records: its transfer, the   *)
(* photos it still has to store, and the ticket it answers with.             *)
RequestOk(r) ==
    /\ requests[r].pc # "new" =>
          requests[r].grant \in Grants /\ grants[requests[r].grant].state # "absent"
    /\ requests[r].pc \in {"checked", "storing"} =>
          \A x \in FormPhotos(Grant(r)) :
              x \in requests[r].left \/ (requests[r].pc = "storing" /\ <<Key(r), x>> \in objects)
    /\ requests[r].pc \in {"ticketed", "answered"} =>
          /\ tickets[Key(r)] # NoTicket
          /\ tickets[Key(r)].access = requests[r].link
          /\ SameSubmission(tickets[Key(r)], Grant(r))

(* The copy a clerk is about to write back is the ticket but for its status. *)
ClerkOk(c) ==
    clerks[c].pc = "read" =>
        /\ clerks[c].key \in Keys
        /\ clerks[c].copy \in TicketRecord
        /\ tickets[clerks[c].key] # NoTicket
        /\ SameTicket(clerks[c].copy, tickets[clerks[c].key])
        /\ ShowsLastEntry(clerks[c].copy)

IndexOk(a) == index[a] \in {None, ReceiptKey[a]}

PortalInv ==
    /\ TypeOK
    /\ \A k \in Keys : TicketOk(k)
    /\ \A r \in Requests : RequestOk(r)
    /\ \A c \in Clerks : ClerkOk(c)
    /\ \A a \in Attempts : IndexOk(a)

-------------------------------------------------------------------------------
(* What every step leaves in place                                           *)

(* Transfers, tickets and photos once there stay there.                      *)
Grows ==
    /\ \A g \in Grants : grants[g].state # "absent" =>
          /\ grants'[g].state # "absent"
          /\ grants'[g].attempt = grants[g].attempt
          /\ grants'[g].payload = grants[g].payload
    /\ \A k \in Keys : tickets[k] # NoTicket =>
          tickets'[k] # NoTicket /\ SameTicket(tickets'[k], tickets[k])
    /\ objects \subseteq objects'

(* A record of a ticket is not the absent one.                               *)
LEMMA TicketIsThere ==
    ASSUME PortalAssumption, NEW t \in TicketRecord
    PROVE  t # NoTicket
BY DEF PortalAssumption, TicketRecord, NoTicket

(* The transfer of a request past its first step is a transfer.              *)
LEMMA GrantType ==
    ASSUME PortalAssumption, PortalInv, NEW r \in Requests, requests[r].pc # "new"
    PROVE  /\ requests[r].grant \in Grants
           /\ Grant(r).state # "absent"
           /\ Grant(r).attempt \in Attempts
           /\ Grant(r).payload \in Payloads
           /\ Key(r) \in Keys
           /\ FormPhotos(Grant(r)) \in SUBSET Photos
<1>1. requests[r].grant \in Grants /\ Grant(r).state # "absent"
  BY DEF PortalInv, RequestOk, Grant
<1>2. Grant(r).attempt \in Attempts /\ Grant(r).payload \in Payloads
  BY <1>1 DEF PortalInv, TypeOK, Grant, NoGrant
<1>. QED BY <1>1, <1>2 DEF PortalAssumption, Key, FormPhotos

(* An unchanged request keeps its part of the invariant.                     *)
LEMMA RequestStays ==
    ASSUME PortalAssumption, PortalInv, Grows, NEW r \in Requests, requests'[r] = requests[r]
    PROVE  RequestOk(r)'
<1>1. CASE requests[r].pc = "new"
  BY <1>1 DEF RequestOk
<1>2. CASE requests[r].pc # "new"
  <2>1. /\ requests[r].grant \in Grants /\ Grant(r).state # "absent"
        /\ Grant(r).attempt \in Attempts /\ Grant(r).payload \in Payloads /\ Key(r) \in Keys
    BY <1>2, GrantType
  <2>2. /\ Grant(r)'.state # "absent"
        /\ Grant(r)'.attempt = Grant(r).attempt /\ Grant(r)'.payload = Grant(r).payload
    BY <2>1 DEF Grows, Grant
  <2>3. Key(r)' = Key(r) /\ FormPhotos(Grant(r))' = FormPhotos(Grant(r))
    BY <2>2 DEF Key, FormPhotos
  <2>4. RequestOk(r)
    BY DEF PortalInv
  <2>5. ASSUME requests[r].pc \in {"checked", "storing"}
        PROVE  (\A x \in FormPhotos(Grant(r)) :
                   x \in requests[r].left \/ (requests[r].pc = "storing" /\ <<Key(r), x>> \in objects))'
    BY <2>3, <2>4, <2>5 DEF RequestOk, Grows
  <2>6. ASSUME requests[r].pc \in {"ticketed", "answered"}
        PROVE  /\ tickets'[Key(r)] # NoTicket
               /\ tickets'[Key(r)].access = requests[r].link
               /\ SameSubmission(tickets[Key(r)], Grant(r))'
    <3>1. /\ tickets[Key(r)] # NoTicket /\ tickets[Key(r)].access = requests[r].link
          /\ SameSubmission(tickets[Key(r)], Grant(r))
      BY <2>4, <2>6 DEF RequestOk
    <3>2. tickets'[Key(r)] # NoTicket /\ SameTicket(tickets'[Key(r)], tickets[Key(r)])
      BY <3>1, <2>1 DEF Grows
    <3>. QED BY <3>1, <3>2, <2>2, <2>3 DEF SameTicket, SameSubmission
  <2>. QED BY <2>1, <2>2, <2>3, <2>5, <2>6 DEF RequestOk, Grant
<1>. QED BY <1>1, <1>2

(* So does an unchanged clerk.                                               *)
LEMMA ClerkStays ==
    ASSUME PortalInv, Grows, NEW c \in Clerks, clerks'[c] = clerks[c]
    PROVE  ClerkOk(c)'
BY DEF PortalInv, ClerkOk, Grows, SameTicket

(* And an unchanged ticket.                                                  *)
LEMMA TicketStays ==
    ASSUME PortalInv, Grows, NEW k \in Keys, tickets'[k] = tickets[k]
    PROVE  TicketOk(k)'
BY DEF PortalInv, TicketOk, Grows

(* Nothing but a POST's put and a clerk's put touches a ticket.              *)
LEMMA TicketsUntouched ==
    ASSUME PortalInv, UNCHANGED <<tickets>>, objects \subseteq objects',
           \A g \in Grants : grants[g].state # "absent" =>
              /\ grants'[g].state # "absent"
              /\ grants'[g].attempt = grants[g].attempt
              /\ grants'[g].payload = grants[g].payload
    PROVE  Grows
BY DEF Grows, SameTicket

-------------------------------------------------------------------------------
(* The steps                                                                 *)

(* The initial state: nothing granted, received or asked.                    *)
LEMMA InitInv ==
    ASSUME PortalAssumption, Init
    PROVE  PortalInv
<1>1. TypeOK
  BY DEF Init, TypeOK, NewRequest, RequestRecord, ClerkRecord
<1>2. \A k \in Keys : tickets[k] = NoTicket
  BY DEF Init
<1>3. \A r \in Requests : requests[r].pc = "new"
  BY DEF Init, NewRequest
<1>4. \A c \in Clerks : clerks[c].pc = "new"
  BY DEF Init
<1>5. \A a \in Attempts : index[a] = None
  BY DEF Init
<1>. QED BY <1>1, <1>2, <1>3, <1>4, <1>5 DEF PortalInv, TicketOk, RequestOk, ClerkOk, IndexOk

(* What a step has to show: the parts of the invariant it touches.           *)
LEMMA Preserved ==
    ASSUME PortalAssumption, PortalInv, Grows, TypeOK',
           \A k \in Keys : tickets'[k] = tickets[k] \/ TicketOk(k)',
           \A r \in Requests : requests'[r] = requests[r] \/ RequestOk(r)',
           \A c \in Clerks : clerks'[c] = clerks[c] \/ ClerkOk(c)',
           \A a \in Attempts : index'[a] = index[a] \/ IndexOk(a)'
    PROVE  PortalInv'
<1>1. \A k \in Keys : TicketOk(k)'
  BY TicketStays
<1>2. \A r \in Requests : RequestOk(r)'
  BY RequestStays
<1>3. \A c \in Clerks : ClerkOk(c)'
  BY ClerkStays
<1>4. \A a \in Attempts : IndexOk(a)'
  BY DEF PortalInv, IndexOk
<1>. QED BY <1>1, <1>2, <1>3, <1>4 DEF PortalInv

(* A step of a request changes its own record only, and not its transfer.    *)
LEMMA StepEffect ==
    ASSUME TypeOK, NEW r \in Requests, NEW pc, NEW left, NEW link, Step(r, pc, left, link),
           pc \in {"storing", "conflict", "ticketed", "answered", "refused", "failed"},
           left \in SUBSET Photos, link \in Requests \cup {None}
    PROVE  /\ requests' \in [Requests -> RequestRecord]
           /\ requests'[r].pc = pc /\ requests'[r].left = left /\ requests'[r].link = link
           /\ requests'[r].grant = requests[r].grant
           /\ \A q \in Requests \ {r} : requests'[q] = requests[q]
BY DEF TypeOK, Step, RequestRecord

(* A step that moves a request and no transfer or ticket keeps the           *)
(* invariant, if it keeps the request's own part of it.                      *)
LEMMA RequestMoves ==
    ASSUME PortalAssumption, PortalInv, NEW r \in Requests,
           requests' \in [Requests -> RequestRecord],
           \A q \in Requests \ {r} : requests'[q] = requests[q],
           RequestOk(r)',
           UNCHANGED <<grants, tickets, clerks>>,
           objects \subseteq objects', objects' \subseteq Keys \X Photos,
           index' \in [Attempts -> Keys \cup {None}],
           \A a \in Attempts : index'[a] = index[a] \/ IndexOk(a)'
    PROVE  PortalInv' /\ Grows
<1>1. Grows
  BY TicketsUntouched
<1>2. TypeOK'
  BY DEF PortalInv, TypeOK
<1>3. \A q \in Requests : requests'[q] = requests[q] \/ RequestOk(q)'
  OBVIOUS
<1>. QED BY <1>1, <1>2, <1>3, Preserved

(* The service grants a transfer, or one expires.                            *)
LEMMA GrantInv ==
    ASSUME PortalAssumption, PortalInv, NEW g \in Grants,
           ExpireGrant(g) \/ \E a \in Attempts, p \in Payloads : CreateGrant(g, a, p)
    PROVE  PortalInv' /\ Grows
<1>1. UNCHANGED <<tickets, index, objects, requests, clerks>>
  BY DEF ExpireGrant, CreateGrant
<1>2. /\ grants' \in [Grants -> [state : {"valid", "expired"}, attempt : Attempts, payload : Payloads]
                                \cup {NoGrant}]
      /\ \A h \in Grants : grants[h].state # "absent" =>
            /\ grants'[h].state # "absent"
            /\ grants'[h].attempt = grants[h].attempt
            /\ grants'[h].payload = grants[h].payload
  <2>1. CASE ExpireGrant(g)
    BY <2>1 DEF PortalInv, TypeOK, ExpireGrant, NoGrant
  <2>2. ASSUME NEW a \in Attempts, NEW p \in Payloads, CreateGrant(g, a, p)
        PROVE  <1>2!1 /\ <1>2!2
    BY <2>2 DEF PortalInv, TypeOK, CreateGrant, NoGrant
  <2>. QED BY <2>1, <2>2
<1>3. Grows
  BY <1>1, <1>2, TicketsUntouched
<1>4. TypeOK'
  BY <1>1, <1>2 DEF PortalInv, TypeOK
<1>. QED BY <1>1, <1>3, <1>4, Preserved

(* A POST arrives and is compared with its transfer.                         *)
LEMMA SubmitInv ==
    ASSUME PortalAssumption, PortalInv, NEW r \in Requests, NEW g \in Grants, NEW f \in Forms,
           Submit(r, g, f)
    PROVE  PortalInv' /\ Grows
<1>1. PICK pc : pc = IF grants[g].state = "valid" /\ f = FormOf[grants[g].payload]
                     THEN "checked" ELSE "refused"
  OBVIOUS
<1>2. requests' = [requests EXCEPT ![r] =
         [NewRequest EXCEPT !.grant = g, !.pc = pc, !.left = PhotosOf[f]]]
  BY <1>1 DEF Submit
<1>3. PhotosOf[f] \in SUBSET Photos /\ requests \in [Requests -> RequestRecord]
  BY DEF PortalAssumption, PortalInv, TypeOK
<1>4. /\ requests' \in [Requests -> RequestRecord]
      /\ requests'[r].pc = pc /\ requests'[r].grant = g /\ requests'[r].left = PhotosOf[f]
      /\ \A q \in Requests \ {r} : requests'[q] = requests[q]
  BY <1>1, <1>2, <1>3 DEF RequestRecord, NewRequest
<1>5. UNCHANGED <<grants, tickets, index, objects, clerks>> /\ grants[g].state # "absent"
  BY DEF Submit
<1>6. RequestOk(r)'
  <2>1. Grant(r)' = grants[g]
    BY <1>4, <1>5 DEF Grant
  <2>2. pc = "checked" => \A x \in FormPhotos(Grant(r))' : x \in PhotosOf[f]
    BY <2>1, <1>1 DEF FormPhotos
  <2>3. pc \in {"checked", "refused"}
    BY <1>1
  <2>. QED BY <2>2, <2>3, <1>4, <1>5 DEF RequestOk
<1>. QED BY <1>4, <1>5, <1>6, RequestMoves DEF PortalInv, TypeOK

(* A request moves on without writing: to `refused', `failed' or `conflict'. *)
LEMMA StopInv ==
    ASSUME PortalAssumption, PortalInv, NEW r \in Requests, requests[r].pc # "new",
           NEW pc \in {"refused", "failed", "conflict"}, NEW left \in SUBSET Photos,
           Step(r, pc, left, None), UNCHANGED <<grants, tickets, index, objects, clerks>>
    PROVE  PortalInv' /\ Grows
<1>1. TypeOK /\ RequestOk(r)
  BY DEF PortalInv
<1>2. /\ requests' \in [Requests -> RequestRecord]
      /\ requests'[r].pc = pc /\ requests'[r].grant = requests[r].grant
      /\ \A q \in Requests \ {r} : requests'[q] = requests[q]
  BY <1>1, StepEffect
<1>3. RequestOk(r)'
  BY <1>1, <1>2 DEF RequestOk
<1>. QED BY <1>2, <1>3, RequestMoves DEF PortalInv, TypeOK

(* A request finds its ticket there, and takes its link.                     *)
LEMMA TakeInv ==
    ASSUME PortalAssumption, PortalInv, NEW r \in Requests, requests[r].pc # "new",
           NEW pc \in {"ticketed", "answered"}, NEW left \in SUBSET Photos,
           tickets[Key(r)] # NoTicket, SameSubmission(tickets[Key(r)], Grant(r)),
           Step(r, pc, left, tickets[Key(r)].access),
           UNCHANGED <<grants, tickets, index, objects, clerks>>
    PROVE  PortalInv' /\ Grows
<1>1. TypeOK /\ RequestOk(r)
  BY DEF PortalInv
<1>2. Key(r) \in Keys
  BY GrantType
<1>3. tickets[Key(r)].access \in Requests
  BY <1>1, <1>2 DEF TypeOK, TicketRecord
<1>4. /\ requests' \in [Requests -> RequestRecord]
      /\ requests'[r].pc = pc /\ requests'[r].grant = requests[r].grant
      /\ requests'[r].link = tickets[Key(r)].access
      /\ \A q \in Requests \ {r} : requests'[q] = requests[q]
  BY <1>1, <1>3, StepEffect
<1>5. Key(r)' = Key(r) /\ Grant(r)' = Grant(r)
  BY <1>4 DEF Key, Grant
<1>6. RequestOk(r)'
  BY <1>1, <1>4, <1>5 DEF RequestOk
<1>. QED BY <1>4, <1>6, RequestMoves DEF PortalInv, TypeOK

(* The first look at the ticket, and the second after a failed put.          *)
LEMMA FindInv ==
    ASSUME PortalAssumption, PortalInv, NEW r \in Requests, FindTicket(r) \/ RereadTicket(r)
    PROVE  PortalInv' /\ Grows
<1>1. requests[r].pc \in {"checked", "conflict"} /\ requests[r].left \in SUBSET Photos
      /\ UNCHANGED <<grants, tickets, index, objects, clerks>>
  BY DEF FindTicket, RereadTicket, PortalInv, TypeOK, RequestRecord
<1>2. CASE Step(r, "refused", requests[r].left, None) \/ Step(r, "refused", {}, None)
           \/ Step(r, "failed", {}, None)
  BY <1>1, <1>2, StopInv
<1>3. CASE /\ tickets[Key(r)] # NoTicket /\ SameSubmission(tickets[Key(r)], Grant(r))
           /\ \/ Step(r, "answered", requests[r].left, tickets[Key(r)].access)
              \/ Step(r, "ticketed", {}, tickets[Key(r)].access)
  BY <1>1, <1>3, TakeInv
<1>4. CASE requests[r].pc = "checked" /\ Step(r, "storing", requests[r].left, None)
  <2>1. TypeOK /\ RequestOk(r)
    BY DEF PortalInv
  <2>2. /\ requests' \in [Requests -> RequestRecord]
        /\ requests'[r].pc = "storing" /\ requests'[r].left = requests[r].left
        /\ requests'[r].grant = requests[r].grant
        /\ \A q \in Requests \ {r} : requests'[q] = requests[q]
    BY <2>1, <1>1, <1>4, StepEffect
  <2>3. FormPhotos(Grant(r))' = FormPhotos(Grant(r)) /\ grants' = grants
    BY <2>2, <1>1 DEF FormPhotos, Grant
  <2>4. RequestOk(r)'
    <3>1. \A x \in FormPhotos(Grant(r)) : x \in requests[r].left
      BY <2>1, <1>4 DEF RequestOk
    <3>2. requests[r].grant \in Grants /\ grants[requests[r].grant].state # "absent"
      BY <2>1, <1>4 DEF RequestOk
    <3>. QED BY <3>1, <3>2, <2>2, <2>3 DEF RequestOk
  <2>. QED BY <2>2, <2>4, <1>1, RequestMoves DEF PortalInv, TypeOK
<1>. QED BY <1>2, <1>3, <1>4 DEF FindTicket, RereadTicket

(* A photo is stored.                                                        *)
LEMMA StorePhotoInv ==
    ASSUME PortalAssumption, PortalInv, NEW r \in Requests, NEW x \in Photos, StorePhoto(r, x)
    PROVE  PortalInv' /\ Grows
<1>1. TypeOK /\ RequestOk(r) /\ requests[r].pc = "storing" /\ UNCHANGED <<grants, tickets, index, clerks>>
      /\ objects' = objects \cup {<<Key(r), x>>}
  BY DEF PortalInv, StorePhoto
<1>2. Key(r) \in Keys
  BY <1>1, GrantType
<1>3. requests[r].left \ {x} \in SUBSET Photos
  BY <1>1 DEF TypeOK, RequestRecord
<1>4. /\ requests' \in [Requests -> RequestRecord]
      /\ requests'[r].pc = "storing" /\ requests'[r].left = requests[r].left \ {x}
      /\ requests'[r].grant = requests[r].grant
      /\ \A q \in Requests \ {r} : requests'[q] = requests[q]
  BY <1>1, <1>3, StepEffect DEF StorePhoto
<1>5. FormPhotos(Grant(r))' = FormPhotos(Grant(r)) /\ Key(r)' = Key(r)
  BY <1>1, <1>4 DEF FormPhotos, Grant, Key
<1>6. RequestOk(r)'
  <2>1. \A y \in FormPhotos(Grant(r)) : y \in requests[r].left \/ <<Key(r), y>> \in objects
    BY <1>1 DEF RequestOk
  <2>2. \A y \in FormPhotos(Grant(r)) : y \in requests[r].left \ {x} \/ <<Key(r), y>> \in objects'
    BY <2>1, <1>1
  <2>3. requests[r].grant \in Grants /\ grants[requests[r].grant].state # "absent"
    BY <1>1 DEF RequestOk
  <2>. QED BY <2>2, <2>3, <1>1, <1>4, <1>5 DEF RequestOk
<1>7. objects' \subseteq Keys \X Photos /\ objects \subseteq objects'
  BY <1>1, <1>2 DEF TypeOK
<1>. QED BY <1>1, <1>4, <1>6, <1>7, RequestMoves DEF PortalInv, TypeOK

(* The ticket is put where none was.                                         *)
LEMMA AcceptInv ==
    ASSUME PortalAssumption, PortalInv, NEW r \in Requests, AcceptTicket(r)
    PROVE  PortalInv' /\ Grows
<1>1. /\ TypeOK /\ RequestOk(r) /\ requests[r].pc = "storing" /\ requests[r].left = {}
      /\ tickets[Key(r)] = NoTicket
      /\ tickets' = [tickets EXCEPT ![Key(r)] = NewTicket(r)]
      /\ UNCHANGED <<grants, index, objects, clerks>>
  BY DEF PortalInv, AcceptTicket, ReadyToAccept, Vacant
<1>2. /\ Key(r) \in Keys /\ Grant(r).attempt \in Attempts /\ Grant(r).payload \in Payloads
      /\ FormPhotos(Grant(r)) \in SUBSET Photos
  BY <1>1, GrantType
<1>. DEFINE t == NewTicket(r)
<1>3. /\ t.attempt = Grant(r).attempt /\ t.payload = Grant(r).payload /\ t.access = r
      /\ t.manifest = FormPhotos(Grant(r)) /\ t.status = "RECEIVED" /\ t.history = <<"RECEIVED">>
  BY DEF NewTicket, FormPhotos
<1>4. t \in TicketRecord
  BY <1>2 DEF NewTicket, TicketRecord, FormPhotos
<1>. HIDE DEF t
<1>5. /\ tickets' \in [Keys -> TicketRecord \cup {NoTicket}]
      /\ tickets'[Key(r)] = t /\ \A k \in Keys \ {Key(r)} : tickets'[k] = tickets[k]
  BY <1>1, <1>2, <1>4 DEF t, TypeOK
<1>6. t # NoTicket
  BY <1>4, TicketIsThere
<1>7. Grows
  BY <1>1, <1>5 DEF Grows, SameTicket
<1>8. PICK pc \in {"ticketed", "conflict"}, link \in {r, None} :
         Step(r, pc, {}, link) /\ (pc = "ticketed" => link = r)
  BY DEF AcceptTicket
<1>9. /\ requests' \in [Requests -> RequestRecord]
      /\ requests'[r].pc = pc /\ requests'[r].link = link
      /\ requests'[r].grant = requests[r].grant
      /\ \A q \in Requests \ {r} : requests'[q] = requests[q]
  BY <1>1, <1>8, StepEffect
<1>10. Grant(r)' = Grant(r) /\ Key(r)' = Key(r)
  BY <1>1, <1>9 DEF Grant, Key
<1>11. TicketOk(Key(r))'
  <2>1. \A x \in t.manifest : <<Key(r), x>> \in objects'
    BY <1>1, <1>3 DEF RequestOk
  <2>2. ReceiptKey[t.attempt] = Key(r) /\ t.manifest = PhotosOf[FormOf[t.payload]]
    BY <1>3 DEF Key, FormPhotos
  <2>3. ShowsLastEntry(t)
    BY <1>3 DEF ShowsLastEntry
  <2>4. PICK k : k = Key(r)
    OBVIOUS
  <2>5. TicketOk(k)'
    BY <2>1, <2>2, <2>3, <2>4, <1>5 DEF TicketOk
  <2>. QED BY <2>4, <2>5, <1>10
<1>12. RequestOk(r)'
  <2>1. requests[r].grant \in Grants /\ grants[requests[r].grant].state # "absent"
    BY <1>1 DEF RequestOk
  <2>2. pc = "ticketed" => t.access = link /\ SameSubmission(t, Grant(r))
    BY <1>3, <1>8 DEF SameSubmission
  <2>3. tickets'[Key(r)'] = t
    BY <1>5, <1>10
  <2>. QED BY <2>1, <2>2, <2>3, <1>1, <1>6, <1>9, <1>10 DEF RequestOk
<1>13. TypeOK'
  BY <1>1, <1>5, <1>9 DEF TypeOK
<1>14. \A k \in Keys : tickets'[k] = tickets[k] \/ TicketOk(k)'
  <2>1. PICK k : k = Key(r)
    OBVIOUS
  <2>2. TicketOk(k)'
    BY <2>1, <1>10, <1>11
  <2>. QED BY <2>1, <2>2, <1>5
<1>15. \A q \in Requests : requests'[q] = requests[q] \/ RequestOk(q)'
  BY <1>9, <1>12
<1>. QED BY <1>1, <1>7, <1>13, <1>14, <1>15, Preserved

(* The index entry is written.                                               *)
LEMMA PutIndexInv ==
    ASSUME PortalAssumption, PortalInv, NEW r \in Requests, PutIndex(r)
    PROVE  PortalInv' /\ Grows
<1>1. /\ TypeOK /\ RequestOk(r) /\ requests[r].pc = "ticketed"
      /\ index' = [index EXCEPT ![Grant(r).attempt] = Key(r)]
      /\ UNCHANGED <<grants, tickets, objects, clerks>>
      /\ Step(r, "answered", {}, requests[r].link)
  BY DEF PortalInv, PutIndex
<1>2. Key(r) \in Keys /\ Grant(r).attempt \in Attempts
  BY <1>1, GrantType
<1>3. /\ requests' \in [Requests -> RequestRecord]
      /\ requests'[r].pc = "answered" /\ requests'[r].link = requests[r].link
      /\ requests'[r].grant = requests[r].grant
      /\ \A q \in Requests \ {r} : requests'[q] = requests[q]
  <2>1. requests[r].link \in Requests \cup {None}
    BY <1>1 DEF TypeOK, RequestRecord
  <2>. QED BY <1>1, <2>1, StepEffect
<1>4. Grant(r)' = Grant(r) /\ Key(r)' = Key(r)
  BY <1>1, <1>3 DEF Grant, Key
<1>5. RequestOk(r)'
  BY <1>1, <1>3, <1>4 DEF RequestOk
<1>6. index' \in [Attempts -> Keys \cup {None}]
  BY <1>1, <1>2 DEF TypeOK
<1>7. \A a \in Attempts : index'[a] = index[a] \/ IndexOk(a)'
  BY <1>1, <1>2 DEF IndexOk, Key, TypeOK
<1>. QED BY <1>1, <1>3, <1>5, <1>6, <1>7, RequestMoves DEF PortalInv, TypeOK

(* A clerk reads a ticket.                                                   *)
LEMMA ReadTicketInv ==
    ASSUME PortalAssumption, PortalInv, NEW c \in Clerks, NEW k \in Keys, ReadTicket(c, k)
    PROVE  PortalInv' /\ Grows
<1>1. /\ TypeOK /\ TicketOk(k) /\ tickets[k] # NoTicket
      /\ clerks' = [clerks EXCEPT ![c] = [pc |-> "read", key |-> k, copy |-> tickets[k]]]
      /\ UNCHANGED <<grants, tickets, index, objects, requests>>
  BY DEF PortalInv, ReadTicket
<1>2. tickets[k] \in TicketRecord
  BY <1>1 DEF TypeOK
<1>3. /\ clerks' \in [Clerks -> ClerkRecord]
      /\ clerks'[c].key = k /\ clerks'[c].copy = tickets[k]
      /\ \A d \in Clerks \ {c} : clerks'[d] = clerks[d]
  BY <1>1, <1>2 DEF TypeOK, ClerkRecord
<1>4. ClerkOk(c)'
  BY <1>1, <1>2, <1>3 DEF ClerkOk, TicketOk, SameTicket
<1>5. Grows
  BY <1>1, TicketsUntouched
<1>6. TypeOK'
  BY <1>1, <1>3 DEF TypeOK
<1>7. \A d \in Clerks : clerks'[d] = clerks[d] \/ ClerkOk(d)'
  BY <1>3, <1>4
<1>. QED BY <1>1, <1>5, <1>6, <1>7, Preserved

(* A changed copy is a ticket that differs in its status only, and shows the *)
(* last entry of its history.                                                *)
LEMMA ChangedType ==
    ASSUME NEW t \in TicketRecord, NEW s \in Statuses
    PROVE  /\ Changed(t, s) \in TicketRecord
           /\ SameTicket(Changed(t, s), t)
           /\ ShowsLastEntry(Changed(t, s))
<1>1. t.history \in Seq(Statuses \cup {"RECEIVED"})
  BY DEF TicketRecord
<1>2. PICK h : h = Append(t.history, s)
  OBVIOUS
<1>3. h \in Seq(Statuses \cup {"RECEIVED"}) /\ Len(h) = Len(t.history) + 1 /\ h[Len(h)] = s
      /\ Len(t.history) \in Nat
  BY <1>1, <1>2
<1>4. Changed(t, s) = [t EXCEPT !.status = s, !.history = h]
  BY <1>2 DEF Changed
<1>5. Changed(t, s).status = s /\ Changed(t, s).history = h
  BY <1>4 DEF TicketRecord
<1>6. Changed(t, s) \in TicketRecord /\ SameTicket(Changed(t, s), t)
  BY <1>3, <1>4 DEF TicketRecord, SameTicket
<1>7. ShowsLastEntry(Changed(t, s))
  BY <1>3, <1>5 DEF ShowsLastEntry
<1>. QED BY <1>6, <1>7

(* A clerk writes its changed copy back, over what others have written since. *)
LEMMA ChangeStatusInv ==
    ASSUME PortalAssumption, PortalInv, NEW c \in Clerks, NEW s \in Statuses, ChangeStatus(c, s)
    PROVE  PortalInv' /\ Grows
<1>1. /\ TypeOK /\ ClerkOk(c) /\ clerks[c].pc = "read"
      /\ tickets' = [tickets EXCEPT ![clerks[c].key] = Changed(clerks[c].copy, s)]
      /\ clerks' = [clerks EXCEPT ![c].pc = "done"]
      /\ UNCHANGED <<grants, index, objects, requests>>
  BY DEF PortalInv, ChangeStatus
<1>2. PICK k \in Keys : k = clerks[c].key
  BY <1>1 DEF ClerkOk
<1>3. PICK t \in TicketRecord : t = clerks[c].copy
  BY <1>1 DEF ClerkOk
<1>4. PICK u : u = Changed(t, s)
  OBVIOUS
<1>5. u \in TicketRecord /\ SameTicket(u, t) /\ ShowsLastEntry(u) /\ u # NoTicket
  BY <1>4, ChangedType, TicketIsThere
<1>6. tickets[k] # NoTicket /\ SameTicket(t, tickets[k])
  BY <1>1, <1>2, <1>3 DEF ClerkOk
<1>7. SameTicket(u, tickets[k])
  BY <1>5, <1>6 DEF SameTicket
<1>8. /\ tickets' \in [Keys -> TicketRecord \cup {NoTicket}]
      /\ tickets'[k] = u /\ \A j \in Keys \ {k} : tickets'[j] = tickets[j]
  BY <1>1, <1>2, <1>3, <1>4, <1>5 DEF TypeOK
<1>9. Grows
  BY <1>1, <1>5, <1>7, <1>8 DEF Grows, SameTicket
<1>10. TicketOk(k)'
  <2>1. /\ ReceiptKey[tickets[k].attempt] = k
        /\ tickets[k].manifest = PhotosOf[FormOf[tickets[k].payload]]
        /\ \A x \in tickets[k].manifest : <<k, x>> \in objects
    BY <1>6 DEF PortalInv, TicketOk
  <2>. QED BY <2>1, <1>1, <1>5, <1>7, <1>8 DEF TicketOk, SameTicket
<1>11. /\ clerks' \in [Clerks -> ClerkRecord] /\ clerks'[c].pc = "done"
       /\ \A d \in Clerks \ {c} : clerks'[d] = clerks[d]
  BY <1>1 DEF TypeOK, ClerkRecord
<1>12. TypeOK'
  BY <1>1, <1>8, <1>11 DEF TypeOK
<1>13. \A d \in Clerks : clerks'[d] = clerks[d] \/ ClerkOk(d)'
  BY <1>11 DEF ClerkOk
<1>. QED BY <1>1, <1>8, <1>9, <1>10, <1>12, <1>13, Preserved

(* The invariant is inductive, and every step keeps what is there.           *)
LEMMA NextInv ==
    ASSUME PortalAssumption, PortalInv, [Next]_vars
    PROVE  PortalInv' /\ Grows
<1>1. ASSUME NEW r \in Requests, PutRaises(r) \/ Fail(r)
      PROVE  PortalInv' /\ Grows
  <2>1. /\ requests[r].pc # "new" /\ requests[r].left \in SUBSET Photos
        /\ UNCHANGED <<grants, tickets, index, objects, clerks>>
    BY <1>1 DEF PutRaises, Fail, ReadyToAccept, PortalInv, TypeOK, RequestRecord
  <2>2. Step(r, "conflict", {}, None) \/ Step(r, "failed", requests[r].left, None)
    BY <1>1 DEF PutRaises, Fail
  <2>. QED BY <2>1, <2>2, StopInv
<1>2. CASE UNCHANGED vars
  <2>1. Grows
    BY <1>2, TicketsUntouched DEF vars
  <2>2. TypeOK'
    BY <1>2 DEF vars, PortalInv, TypeOK
  <2>. QED BY <1>2, <2>1, <2>2, Preserved DEF vars
<1>3. CASE Next
  BY <1>3, <1>1, GrantInv, SubmitInv, FindInv, StorePhotoInv, AcceptInv, PutIndexInv,
     ReadTicketInv, ChangeStatusInv DEF Next
<1>. QED BY <1>2, <1>3

-------------------------------------------------------------------------------
(* The theorems                                                              *)

(* The invariant holds in every state the portal can be in.                  *)
THEOREM PortalInvariance == ASSUME PortalAssumption PROVE Spec => []PortalInv
<1>1. Init => PortalInv
  BY InitInv
<1>2. PortalInv /\ [Next]_vars => PortalInv'
  BY NextInv
<1>. QED BY <1>1, <1>2, PTL DEF Spec

(* Transfers, tickets, photos, requests and copies keep their types.         *)
THEOREM TypeCorrect == ASSUME PortalAssumption PROVE Spec => []TypeOK
<1>1. PortalInv => TypeOK
  BY DEF PortalInv
<1>. QED BY <1>1, PortalInvariance, PTL

(* An accepted ticket keeps its attempt, payload, private link and manifest. *)
THEOREM TicketsStay == ASSUME PortalAssumption PROVE Spec => TicketsAreFixed
<1>1. PortalInv /\ [Next]_vars => [Grows]_vars
  BY NextInv
<1>2. [Grows]_vars =>
        [\A k \in Keys : tickets[k] # NoTicket =>
              /\ tickets'[k].attempt = tickets[k].attempt
              /\ tickets'[k].payload = tickets[k].payload
              /\ tickets'[k].access = tickets[k].access
              /\ tickets'[k].manifest = tickets[k].manifest]_vars
  BY DEF Grows, SameTicket
<1>. QED BY <1>1, <1>2, PortalInvariance, PTL DEF Spec, TicketsAreFixed

(* Every answered POST opens the receipt of its own attempt and payload.     *)
THEOREM AnswersOpenReceipts == ASSUME PortalAssumption PROVE Spec => []AnswersOpen
<1>1. PortalInv => AnswersOpen
  BY DEF PortalInv, RequestOk, AnswersOpen, SameSubmission
<1>. QED BY <1>1, PortalInvariance, PTL

(* A ticket's photos are stored from the moment it can be seen.              *)
THEOREM EvidenceIsStored == ASSUME PortalAssumption PROVE Spec => []EvidenceIsRetained
<1>1. PortalInv => EvidenceIsRetained
  BY DEF PortalInv, TicketOk, EvidenceIsRetained
<1>. QED BY <1>1, PortalInvariance, PTL

(* A ticket is found by the lookup of its attempt, indexed or not.           *)
THEOREM TicketsAreFound == ASSUME PortalAssumption PROVE Spec => []AcceptedIsFound
<1>1. ASSUME PortalInv, NEW k \in Keys, tickets[k] # NoTicket
      PROVE  Lookup(tickets[k].attempt) = tickets[k]
  <2>1. tickets[k] \in TicketRecord /\ ReceiptKey[tickets[k].attempt] = k
    BY <1>1 DEF PortalInv, TypeOK, TicketOk
  <2>2. tickets[k].attempt \in Attempts
    BY <2>1 DEF TicketRecord
  <2>3. CanonicalKey(tickets[k].attempt) = k
    BY <2>1, <2>2, <1>1 DEF PortalInv, IndexOk, CanonicalKey
  <2>. QED BY <2>3 DEF Lookup
<1>2. PortalInv => AcceptedIsFound
  BY <1>1 DEF AcceptedIsFound
<1>. QED BY <1>2, PortalInvariance, PTL

(* The status a ticket shows is the last entry of its history.               *)
THEOREM StatusShowsHistory == ASSUME PortalAssumption PROVE Spec => []StatusIsLastEntry
<1>1. PortalInv => StatusIsLastEntry
  BY DEF PortalInv, TicketOk, ShowsLastEntry, StatusIsLastEntry
<1>. QED BY <1>1, PortalInvariance, PTL

-------------------------------------------------------------------------------
(* The agency *)

(* A pair that was handed over, accepted or answered stays one.              *)
LEMMA PairsStay ==
    ASSUME PortalAssumption, PortalInv, Grows
    PROVE  /\ Transfers \subseteq Transfers' /\ Accepted \subseteq Accepted'
           /\ \A r \in Requests : requests[r].pc # "new" /\ requests'[r].grant = requests[r].grant =>
                 /\ Grant(r)'.attempt = Grant(r).attempt /\ Grant(r)'.payload = Grant(r).payload
<1>1. Transfers \subseteq Transfers'
  BY DEF Grows, Transfers
<1>2. Accepted \subseteq Accepted'
  BY DEF Grows, Accepted, SameTicket
<1>3. ASSUME NEW r \in Requests, requests[r].pc # "new", requests'[r].grant = requests[r].grant
      PROVE  Grant(r)'.attempt = Grant(r).attempt /\ Grant(r)'.payload = Grant(r).payload
  BY <1>3, GrantType DEF Grows, Grant
<1>. QED BY <1>1, <1>2, <1>3

(* A step that begins no transfer and no ticket leaves the pairs alone.      *)
LEMMA PairsKept ==
    ASSUME PortalAssumption, PortalInv, Grows
    PROVE  /\ (\A g \in Grants : grants[g].state = "absent" => grants'[g] = grants[g]) =>
                 Transfers' = Transfers
           /\ (\A k \in Keys : tickets[k] = NoTicket => tickets'[k] = NoTicket) =>
                 Accepted' = Accepted
<1>1. ASSUME \A g \in Grants : grants[g].state = "absent" => grants'[g] = grants[g]
      PROVE  Transfers' \subseteq Transfers
  BY <1>1 DEF Grows, Transfers
<1>2. ASSUME \A k \in Keys : tickets[k] = NoTicket => tickets'[k] = NoTicket
      PROVE  Accepted' \subseteq Accepted
  BY <1>2 DEF Grows, Accepted, SameTicket
<1>. QED BY <1>1, <1>2, PairsStay

(* The answers change when a request is answered, by what it was for.        *)
LEMMA AnswersKept ==
    ASSUME PortalAssumption, PortalInv, Grows, NEW r \in Requests,
           \A q \in Requests \ {r} : requests'[q] = requests[q],
           requests[r].pc # "answered",
           requests'[r].pc = "answered" => requests[r].pc # "new" /\ requests'[r].grant = requests[r].grant
    PROVE  Answered' = IF requests'[r].pc = "answered"
                       THEN Answered \cup {<<Grant(r).attempt, Grant(r).payload>>} ELSE Answered
<1>1. ASSUME NEW q \in Requests, requests'[q].pc = "answered"
      PROVE  /\ q # r => requests[q].pc = "answered"
             /\ Grant(q)'.attempt = Grant(q).attempt /\ Grant(q)'.payload = Grant(q).payload
  BY <1>1, PairsStay
<1>2. ASSUME NEW q \in Requests, requests[q].pc = "answered"
      PROVE  /\ q # r /\ requests'[q].pc = "answered"
             /\ Grant(q)'.attempt = Grant(q).attempt /\ Grant(q)'.payload = Grant(q).payload
  BY <1>2, PairsStay
<1>. QED BY <1>1, <1>2 DEF Answered

(* Without one they stay.                                                    *)
LEMMA AnswersStay ==
    ASSUME PortalAssumption, PortalInv, Grows, UNCHANGED requests
    PROVE  Answered' = Answered
<1>1. ASSUME NEW q \in Requests, requests[q].pc = "answered"
      PROVE  Grant(q)'.attempt = Grant(q).attempt /\ Grant(q)'.payload = Grant(q).payload
  BY <1>1, PairsStay
<1>. QED BY <1>1 DEF Answered

(* A transfer is granted.                                                    *)
LEMMA GrantRefines ==
    ASSUME PortalAssumption, PortalInv, Grows, NEW g \in Grants, NEW a \in Attempts, NEW p \in Payloads,
           CreateGrant(g, a, p)
    PROVE  [Receipts!Next]_Receipts!vars
<1>1. /\ grants[g].state = "absent" /\ UNCHANGED <<tickets, requests>>
      /\ grants'[g] = [state |-> "valid", attempt |-> a, payload |-> p]
      /\ \A h \in Grants \ {g} : grants'[h] = grants[h]
  BY DEF CreateGrant, PortalInv, TypeOK
<1>2. Transfers' = Transfers \cup {<<a, p>>}
  <2>1. ASSUME NEW h \in Grants, grants'[h].state # "absent"
        PROVE  <<grants'[h].attempt, grants'[h].payload>> \in Transfers \cup {<<a, p>>}
    BY <1>1, <2>1 DEF Transfers
  <2>2. <<a, p>> \in Transfers'
    BY <1>1 DEF Transfers
  <2>. QED BY <2>1, <2>2, PairsStay DEF Transfers
<1>3. Accepted' = Accepted /\ Answered' = Answered
  BY <1>1, PairsKept, AnswersStay
<1>4. Receipts!Transfer(a, p)
  BY <1>2, <1>3 DEF Receipts!Transfer
<1>. QED BY <1>4 DEF Receipts!Next

(* A request moves on, and is answered with a ticket there is, or not.       *)
LEMMA RequestRefines ==
    ASSUME PortalAssumption, PortalInv, Grows, NEW r \in Requests, UNCHANGED <<grants, tickets>>,
           \A q \in Requests \ {r} : requests'[q] = requests[q],
           requests[r].pc # "answered",
           requests'[r].pc = "answered" =>
               /\ requests[r].pc # "new" /\ requests'[r].grant = requests[r].grant
               /\ tickets[Key(r)] # NoTicket /\ SameSubmission(tickets[Key(r)], Grant(r))
    PROVE  [Receipts!Next]_Receipts!vars
<1>1. Transfers' = Transfers /\ Accepted' = Accepted
  BY PairsKept
<1>2. CASE requests'[r].pc = "answered"
  <2>1. PICK a \in Attempts, p \in Payloads : a = Grant(r).attempt /\ p = Grant(r).payload
    BY <1>2, GrantType
  <2>2. Key(r) \in Keys
    BY <1>2, GrantType
  <2>3. <<a, p>> \in Accepted
    BY <1>2, <2>1, <2>2 DEF Accepted, SameSubmission
  <2>4. Answered' = Answered \cup {<<a, p>>}
    BY <1>2, <2>1, AnswersKept
  <2>5. Receipts!Answer(a, p)
    BY <1>1, <2>3, <2>4 DEF Receipts!Answer
  <2>. QED BY <2>5 DEF Receipts!Next
<1>3. CASE requests'[r].pc # "answered"
  <2>1. Answered' = Answered
    BY <1>3, AnswersKept
  <2>. QED BY <1>1, <2>1 DEF Receipts!vars
<1>. QED BY <1>2, <1>3

(* A ticket is written, under a key where none was: its attempt has none     *)
(* under another key either.                                                 *)
LEMMA AcceptRefines ==
    ASSUME PortalAssumption, PortalInv, Grows, NEW r \in Requests, AcceptTicket(r)
    PROVE  [Receipts!Next]_Receipts!vars
<1>1. /\ requests[r].pc = "storing" /\ tickets[Key(r)] = NoTicket
      /\ tickets' = [tickets EXCEPT ![Key(r)] = NewTicket(r)]
      /\ UNCHANGED grants /\ TypeOK
  BY DEF AcceptTicket, ReadyToAccept, Vacant, PortalInv
<1>2. PICK a \in Attempts, p \in Payloads :
         a = Grant(r).attempt /\ p = Grant(r).payload /\ <<a, p>> \in Transfers
  BY <1>1, GrantType DEF Transfers, Grant
<1>3. PICK k \in Keys : k = Key(r)
  BY <1>1, GrantType
<1>4. /\ requests'[r].pc # "answered" /\ \A q \in Requests \ {r} : requests'[q] = requests[q]
  <2>1. Step(r, "ticketed", {}, r) \/ Step(r, "conflict", {}, None)
    BY DEF AcceptTicket
  <2>. QED BY <1>1, <2>1, StepEffect
<1>5. Answered' = Answered
  BY <1>1, <1>4, AnswersKept
<1>6. Transfers' = Transfers
  BY <1>1, PairsKept
<1>7. /\ tickets'[k].attempt = a /\ tickets'[k].payload = p
      /\ \A i \in Keys \ {k} : tickets'[i] = tickets[i]
  BY <1>1, <1>2, <1>3 DEF TypeOK, NewTicket
<1>8. tickets'[k] # NoTicket
  BY <1>2, <1>7 DEF NoTicket, PortalAssumption
<1>9. Accepted' = Accepted \cup {<<a, p>>}
  <2>1. <<a, p>> \in Accepted'
    BY <1>7, <1>8 DEF Accepted
  <2>2. ASSUME NEW i \in Keys, tickets'[i] # NoTicket
        PROVE  <<tickets'[i].attempt, tickets'[i].payload>> \in Accepted \cup {<<a, p>>}
    BY <1>7, <2>2 DEF Accepted
  <2>. QED BY <2>1, <2>2, PairsStay DEF Accepted
<1>10. \A q \in Payloads : <<a, q>> \notin Accepted
  <2>1. SUFFICES ASSUME NEW i \in Keys, tickets[i] # NoTicket, tickets[i].attempt = a PROVE FALSE
    BY DEF Accepted
  <2>2. i = k
    BY <1>2, <1>3, <2>1 DEF PortalInv, TicketOk, Key
  <2>. QED BY <1>1, <1>3, <2>1, <2>2
<1>11. Receipts!Accept(a, p)
  BY <1>2, <1>5, <1>6, <1>9, <1>10 DEF Receipts!Accept
<1>. QED BY <1>11 DEF Receipts!Next

(* The other steps of a request.                                             *)
LEMMA MoveRefines ==
    ASSUME PortalAssumption, PortalInv, Grows, NEW r \in Requests,
           \/ \E g \in Grants, f \in Forms : Submit(r, g, f)
           \/ FindTicket(r) \/ PutRaises(r) \/ RereadTicket(r) \/ PutIndex(r) \/ Fail(r)
           \/ \E x \in Photos : StorePhoto(r, x)
    PROVE  [Receipts!Next]_Receipts!vars
<1>1. /\ UNCHANGED <<grants, tickets>> /\ requests[r].pc # "answered"
      /\ requests \in [Requests -> RequestRecord]
  BY DEF Submit, FindTicket, PutRaises, RereadTicket, PutIndex, Fail, StorePhoto, ReadyToAccept,
         PortalInv, TypeOK
<1>2. CASE \E g \in Grants, f \in Forms : Submit(r, g, f)
  <2>1. PICK g \in Grants, f \in Forms : Submit(r, g, f)
    BY <1>2
  <2>2. PICK q : q.pc # "answered" /\ requests' = [requests EXCEPT ![r] = q]
    BY <2>1 DEF Submit, NewRequest
  <2>3. requests'[r].pc # "answered" /\ \A s \in Requests \ {r} : requests'[s] = requests[s]
    BY <1>1, <2>2
  <2>. QED BY <1>1, <2>3, RequestRefines
<1>3. CASE ~(\E g \in Grants, f \in Forms : Submit(r, g, f))
  <2>1. PICK pc, left, link : Step(r, pc, left, link)
                              /\ requests[r].pc # "new"
                              /\ (pc = "answered" => /\ tickets[Key(r)] # NoTicket
                                                     /\ SameSubmission(tickets[Key(r)], Grant(r)))
    <3>1. CASE FindTicket(r)
      BY <3>1 DEF FindTicket
    <3>2. CASE RereadTicket(r)
      BY <3>2 DEF RereadTicket
    <3>3. CASE PutIndex(r)
      BY <3>3 DEF PutIndex, PortalInv, RequestOk
    <3>4. CASE PutRaises(r) \/ Fail(r)
      BY <3>4 DEF PutRaises, Fail, ReadyToAccept
    <3>5. CASE \E x \in Photos : StorePhoto(r, x)
      BY <3>5 DEF StorePhoto
    <3>. QED BY <1>3, <3>1, <3>2, <3>3, <3>4, <3>5
  <2>2. /\ requests'[r].pc = pc /\ requests'[r].grant = requests[r].grant
        /\ \A s \in Requests \ {r} : requests'[s] = requests[s]
    BY <1>1, <2>1 DEF Step, RequestRecord
  <2>. QED BY <1>1, <2>1, <2>2, RequestRefines
<1>. QED BY <1>2, <1>3

(* Everything else leaves the agency as it is.                               *)
LEMMA QuietRefines ==
    ASSUME PortalAssumption, PortalInv, Grows,
           \/ UNCHANGED vars
           \/ \E g \in Grants : ExpireGrant(g)
           \/ \E c \in Clerks : \/ \E k \in Keys : ReadTicket(c, k)
                                \/ \E s \in Statuses : ChangeStatus(c, s)
    PROVE  [Receipts!Next]_Receipts!vars
<1>1. UNCHANGED requests
  BY DEF vars, ExpireGrant, ReadTicket, ChangeStatus
<1>2. \A g \in Grants : grants[g].state = "absent" => grants'[g] = grants[g]
  BY DEF vars, ExpireGrant, ReadTicket, ChangeStatus, PortalInv, TypeOK
<1>3. \A k \in Keys : tickets[k] = NoTicket => tickets'[k] = NoTicket
  <2>1. ASSUME NEW c \in Clerks, NEW s \in Statuses, ChangeStatus(c, s)
        PROVE  \A k \in Keys : tickets[k] = NoTicket => tickets'[k] = NoTicket
    <3>1. clerks[c].pc = "read" /\ ClerkOk(c)
      BY <2>1 DEF ChangeStatus, PortalInv
    <3>. QED BY <2>1, <3>1 DEF ChangeStatus, ClerkOk, PortalInv, TypeOK
  <2>. QED BY <2>1 DEF vars, ExpireGrant, ReadTicket
<1>. QED BY <1>1, <1>2, <1>3, PairsKept, AnswersStay DEF Receipts!vars

(* Every step of the portal is a step of the agency, or invisible.           *)
LEMMA StepRefines ==
    ASSUME PortalAssumption, PortalInv, [Next]_vars
    PROVE  [Receipts!Next]_Receipts!vars
<1>. Grows
  BY NextInv
<1>1. CASE \E g \in Grants, a \in Attempts, p \in Payloads : CreateGrant(g, a, p)
  BY <1>1, GrantRefines
<1>2. CASE \E r \in Requests : AcceptTicket(r)
  BY <1>2, AcceptRefines
<1>3. CASE \E r \in Requests :
              \/ \E g \in Grants, f \in Forms : Submit(r, g, f)
              \/ FindTicket(r) \/ PutRaises(r) \/ RereadTicket(r) \/ PutIndex(r) \/ Fail(r)
              \/ \E x \in Photos : StorePhoto(r, x)
  BY <1>3, MoveRefines
<1>4. CASE \/ UNCHANGED vars
           \/ \E g \in Grants : ExpireGrant(g)
           \/ \E c \in Clerks : \/ \E k \in Keys : ReadTicket(c, k)
                                \/ \E s \in Statuses : ChangeStatus(c, s)
  BY <1>4, QuietRefines
<1>. QED BY <1>1, <1>2, <1>3, <1>4 DEF Next

(* The portal, with its pages, racing POSTs, colliding keys, lost answers    *)
(* and status changes, does what the abstract Agency does and nothing else.  *)
THEOREM PortalIsAgency == ASSUME PortalAssumption PROVE Spec => ImplementsAgency
<1>1. Init => Receipts!Init
  BY DEF Init, Receipts!Init, Transfers, Accepted, Answered, NoGrant, NoTicket, NewRequest
<1>2. PortalInv /\ [Next]_vars => [Receipts!Next]_Receipts!vars
  BY StepRefines
<1>. QED BY <1>1, <1>2, PortalInvariance, PTL DEF Spec, ImplementsAgency, Receipts!Spec


(* However POSTs race, fail and are repeated, an attempt has at most one     *)
(* ticket, and only POSTs of its payload are answered with the receipt.      *)
THEOREM OneTicketPerAttempt == ASSUME PortalAssumption PROVE Spec => []Receipts!OneTicket
<1>1. Receipts!Init => Receipts!OneTicket
  BY DEF Receipts!Init, Receipts!OneTicket
<1>2. Receipts!OneTicket /\ [Receipts!Next]_Receipts!vars => Receipts!OneTicket'
  BY DEF Receipts!OneTicket, Receipts!Next, Receipts!vars, Receipts!Transfer, Receipts!Accept,
         Receipts!Answer
<1>. QED BY <1>1, <1>2, PortalIsAgency, PTL DEF ImplementsAgency, Receipts!Spec
===============================================================================

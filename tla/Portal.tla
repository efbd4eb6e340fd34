-------------------------------- MODULE Portal --------------------------------
(***************************************************************************)
(* The fictional receiving agency: services/portal/main.py.  A service     *)
(* grants a transfer of one approved payload, the browser POSTs the form   *)
(* of that transfer, and the portal keeps one ticket per attempt.          *)
(*                                                                         *)
(* Each get and each put of the module is a transaction of its own (SQLite *)
(* autocommit or one DynamoDB item), so requests interleave between any    *)
(* two of them.  A request that stops, at any place, leaves what it wrote. *)
(***************************************************************************)
EXTENDS FiniteSets, Sequences

CONSTANTS
    Attempts,     \* attempt identifiers, chosen by Neighborhood Fixer
    Keys,         \* receipt identifiers
    ReceiptKey,   \* the key derived from an attempt: a truncated hash, so not injective
    Payloads,     \* approved payloads
    Forms,        \* contents of a form: text fields and photos
    FormOf,       \* what the form must say to match a payload
    Photos,       \* content hashes of photos
    PhotosOf,     \* the photos attached to a form
    Grants,       \* transfer keys
    Requests,     \* POSTs of a form; the access token a POST draws is its own name
    Clerks,       \* POSTs of a status change
    None          \* no record

ASSUME PortalAssumption ==
    /\ ReceiptKey \in [Attempts -> Keys]
    /\ FormOf \in [Payloads -> Forms]
    /\ PhotosOf \in [Forms -> SUBSET Photos]
    /\ None \notin Attempts \cup Keys \cup Payloads \cup Grants \cup Requests

VARIABLES
    grants,    \* the transfers handed out
    tickets,   \* records of kind "ticket"
    index,     \* records of kind "attempt"
    objects,   \* the stored photos, under receipt key and content hash
    requests,  \* the POSTs of a form, with what each holds in memory
    clerks     \* the POSTs of a status change, with the copy each has read

vars == <<grants, tickets, index, objects, requests, clerks>>

-------------------------------------------------------------------------------
(* Types *)

NoGrant == [state |-> "absent", attempt |-> None, payload |-> None]

NoTicket == [attempt |-> None, payload |-> None, access |-> None,
             manifest |-> {}, status |-> "None", history |-> <<>>]

Statuses == {"OPEN", "IN_PROGRESS", "CLOSED"}

NewRequest == [pc |-> "new", grant |-> None, left |-> {}, link |-> None]

TicketRecord ==
    [attempt : Attempts, payload : Payloads, access : Requests, manifest : SUBSET Photos,
     status : Statuses \cup {"RECEIVED"}, history : Seq(Statuses \cup {"RECEIVED"})]

RequestRecord ==
    [pc : {"new", "checked", "storing", "conflict", "ticketed", "answered", "refused", "failed"},
     grant : Grants \cup {None}, left : SUBSET Photos, link : Requests \cup {None}]

ClerkRecord ==
    [pc : {"new", "read", "done"}, key : Keys \cup {None}, copy : TicketRecord \cup {NoTicket}]

TypeOK ==
    /\ grants \in [Grants ->
          [state : {"valid", "expired"}, attempt : Attempts, payload : Payloads] \cup {NoGrant}]
    /\ tickets \in [Keys -> TicketRecord \cup {NoTicket}]
    /\ index \in [Attempts -> Keys \cup {None}]
    /\ objects \subseteq Keys \X Photos
    /\ requests \in [Requests -> RequestRecord]
    /\ clerks \in [Clerks -> ClerkRecord]

Init ==
    /\ grants = [g \in Grants |-> NoGrant]
    /\ tickets = [k \in Keys |-> NoTicket]
    /\ index = [a \in Attempts |-> None]
    /\ objects = {}
    /\ requests = [r \in Requests |-> NewRequest]
    /\ clerks = [c \in Clerks |-> [pc |-> "new", key |-> None, copy |-> NoTicket]]

-------------------------------------------------------------------------------
(* The transfer *)

(* create_grant: a fresh key for an attempt and the payload approved for it. *)
CreateGrant(g, a, p) ==
    /\ grants[g].state = "absent"
    /\ grants' = [grants EXCEPT ![g] = [state |-> "valid", attempt |-> a, payload |-> p]]
    /\ UNCHANGED <<tickets, index, objects, requests, clerks>>

ExpireGrant(g) ==
    /\ grants[g].state = "valid"
    /\ grants' = [grants EXCEPT ![g].state = "expired"]
    /\ UNCHANGED <<tickets, index, objects, requests, clerks>>

-------------------------------------------------------------------------------
(* submit *)

Grant(r) == grants[requests[r].grant]

Key(r) == ReceiptKey[Grant(r).attempt]

Step(r, pc, left, link) ==
    requests' = [requests EXCEPT ![r].pc = pc, ![r].left = left, ![r].link = link]

(* Mutant of SameSubmission: the ticket of the attempt is good enough.       *)
SameAttempt(t, g) == t.attempt = g.attempt

SameSubmission(t, g) == t.attempt = g.attempt /\ t.payload = g.payload

(* grant_for, and the comparison of the form with the approved payload.      *)
Submit(r, g, f) ==
    /\ requests[r].pc = "new"
    /\ grants[g].state # "absent"
    /\ requests' = [requests EXCEPT ![r] =
         [NewRequest EXCEPT
            !.grant = g,
            !.pc = IF grants[g].state = "valid" /\ f = FormOf[grants[g].payload]
                   THEN "checked" ELSE "refused",
            !.left = PhotosOf[f]]]
    /\ UNCHANGED <<grants, tickets, index, objects, clerks>>

(* A ticket of the attempt exists already: the same receipt, or a refusal.   *)
FindTicket(r) ==
    /\ requests[r].pc = "checked"
    /\ LET t == tickets[Key(r)]
       IN  \/ t = NoTicket /\ Step(r, "storing", requests[r].left, None)
           \/ /\ t # NoTicket
              /\ SameSubmission(t, Grant(r))
              /\ Step(r, "answered", requests[r].left, t.access)
           \/ /\ t # NoTicket
              /\ ~SameSubmission(t, Grant(r))
              /\ Step(r, "refused", requests[r].left, None)
    /\ UNCHANGED <<grants, tickets, index, objects, clerks>>

(* persist_attachments, one photo: an object is named by its content, so     *)
(* that writing it again changes nothing.                                    *)
StorePhoto(r, x) ==
    /\ requests[r].pc = "storing"
    /\ x \in requests[r].left
    /\ objects' = objects \cup {<<Key(r), x>>}
    /\ Step(r, "storing", requests[r].left \ {x}, None)
    /\ UNCHANGED <<grants, tickets, index, clerks>>

(* Mutant of ReadyToAccept: the receipt does not wait for the photos.        *)
ReadyBeforePhotos(r) == requests[r].pc = "storing"

ReadyToAccept(r) == requests[r].pc = "storing" /\ requests[r].left = {}

NewTicket(r) ==
    [attempt |-> Grant(r).attempt, payload |-> Grant(r).payload, access |-> r,
     manifest |-> PhotosOf[FormOf[Grant(r).payload]],
     status |-> "RECEIVED", history |-> <<"RECEIVED">>]

(* Mutant of Vacant: INSERT OR REPLACE.                                      *)
AlwaysVacant(k) == k \in Keys

(* The put of the ticket succeeds only where there is none (only_new).       *)
Vacant(k) == tickets[k] = NoTicket

(* The ticket is written and the put returns, or raises all the same.        *)
AcceptTicket(r) ==
    /\ ReadyToAccept(r)
    /\ Vacant(Key(r))
    /\ tickets' = [tickets EXCEPT ![Key(r)] = NewTicket(r)]
    /\ \/ Step(r, "ticketed", {}, r)
       \/ Step(r, "conflict", {}, None)
    /\ UNCHANGED <<grants, index, objects, clerks>>

(* The put raises and has written nothing: the condition or the store failed. *)
PutRaises(r) ==
    /\ ReadyToAccept(r)
    /\ Step(r, "conflict", {}, None)
    /\ UNCHANGED <<grants, tickets, index, objects, clerks>>

(* `except Exception`: whoever wrote the ticket, the answer is its receipt.  *)
RereadTicket(r) ==
    /\ requests[r].pc = "conflict"
    /\ LET t == tickets[Key(r)]
       IN  \/ t = NoTicket /\ Step(r, "failed", {}, None)
           \/ /\ t # NoTicket
              /\ SameSubmission(t, Grant(r))
              /\ Step(r, "ticketed", {}, t.access)
           \/ /\ t # NoTicket
              /\ ~SameSubmission(t, Grant(r))
              /\ Step(r, "refused", {}, None)
    /\ UNCHANGED <<grants, tickets, index, objects, clerks>>

PutIndex(r) ==
    /\ requests[r].pc = "ticketed"
    /\ index' = [index EXCEPT ![Grant(r).attempt] = Key(r)]
    /\ Step(r, "answered", {}, requests[r].link)
    /\ UNCHANGED <<grants, tickets, objects, clerks>>

(* A read or a write raises, or the process stops: the browser has no answer. *)
Fail(r) ==
    /\ requests[r].pc \in {"checked", "storing", "conflict", "ticketed"}
    /\ Step(r, "failed", requests[r].left, None)
    /\ UNCHANGED <<grants, tickets, index, objects, clerks>>

-------------------------------------------------------------------------------
(* change_status: read the ticket, write the changed copy back.              *)

ReadTicket(c, k) ==
    /\ clerks[c].pc = "new"
    /\ tickets[k] # NoTicket
    /\ clerks' = [clerks EXCEPT ![c] = [pc |-> "read", key |-> k, copy |-> tickets[k]]]
    /\ UNCHANGED <<grants, tickets, index, objects, requests>>

(* Mutant of Changed: the status is set and the history forgotten.           *)
ChangedSilently(t, s) == [t EXCEPT !.status = s]

Changed(t, s) == [t EXCEPT !.status = s, !.history = Append(@, s)]

ChangeStatus(c, s) ==
    /\ clerks[c].pc = "read"
    /\ tickets' = [tickets EXCEPT ![clerks[c].key] = Changed(clerks[c].copy, s)]
    /\ clerks' = [clerks EXCEPT ![c].pc = "done"]
    /\ UNCHANGED <<grants, index, objects, requests>>

-------------------------------------------------------------------------------
(* lookup: the index names the ticket, else its key is derived.              *)

(* Mutant of CanonicalKey: only the index is asked.                          *)
IndexedKey(a) == index[a]

CanonicalKey(a) == IF index[a] # None THEN index[a] ELSE ReceiptKey[a]

Lookup(a) ==
    IF CanonicalKey(a) \in Keys /\ tickets[CanonicalKey(a)].attempt = a
    THEN tickets[CanonicalKey(a)] ELSE NoTicket

Next ==
    \/ \E g \in Grants : ExpireGrant(g) \/ \E a \in Attempts, p \in Payloads : CreateGrant(g, a, p)
    \/ \E r \in Requests :
          \/ \E g \in Grants, f \in Forms : Submit(r, g, f)
          \/ FindTicket(r) \/ AcceptTicket(r) \/ PutRaises(r) \/ RereadTicket(r)
          \/ PutIndex(r) \/ Fail(r)
          \/ \E x \in Photos : StorePhoto(r, x)
    \/ \E c \in Clerks :
          \/ \E k \in Keys : ReadTicket(c, k)
          \/ \E s \in Statuses : ChangeStatus(c, s)

Spec == Init /\ [][Next]_vars

-------------------------------------------------------------------------------
(* Properties *)

(* However POSTs race, fail and are repeated, and however their status is    *)
(* changed, a ticket once accepted keeps its attempt, payload, private link  *)
(* and manifest: submit puts only_new, change_status writes back its copy.   *)
TicketsAreFixed ==
    [][\A k \in Keys : tickets[k] # NoTicket =>
          /\ tickets'[k].attempt = tickets[k].attempt
          /\ tickets'[k].payload = tickets[k].payload
          /\ tickets'[k].access = tickets[k].access
          /\ tickets'[k].manifest = tickets[k].manifest]_vars

(* Every redirect a POST is answered with opens the receipt of its attempt,  *)
(* and that receipt is for the very payload of the transfer the POST used.   *)
AnswersOpen ==
    \A r \in Requests : requests[r].pc = "answered" =>
        /\ tickets[Key(r)].access = requests[r].link
        /\ tickets[Key(r)].attempt = Grant(r).attempt
        /\ tickets[Key(r)].payload = Grant(r).payload

(* A ticket never claims evidence the portal has not stored: the photos are  *)
(* in place before the ticket can be seen, whichever request stored them.    *)
EvidenceIsRetained ==
    \A k \in Keys : tickets[k] # NoTicket =>
        /\ tickets[k].manifest = PhotosOf[FormOf[tickets[k].payload]]
        /\ \A x \in tickets[k].manifest : <<k, x>> \in objects

(* An accepted report is found by the lookup of its attempt from the moment  *)
(* its ticket exists, with or without the index a stopped request left out.  *)
AcceptedIsFound ==
    \A k \in Keys : tickets[k] # NoTicket => Lookup(tickets[k].attempt) = tickets[k]

(* Whichever of two racing status changes is written last, the status the    *)
(* ticket shows is the last entry of its history.                            *)
StatusIsLastEntry ==
    \A k \in Keys : tickets[k] # NoTicket =>
        tickets[k].status = tickets[k].history[Len(tickets[k].history)]

-------------------------------------------------------------------------------
(* The portal implements the agency that the submission workflow relies on.  *)

Transfers ==
    {<<grants[g].attempt, grants[g].payload>> : g \in {h \in Grants : grants[h].state # "absent"}}

Accepted ==
    {<<tickets[k].attempt, tickets[k].payload>> : k \in {i \in Keys : tickets[i] # NoTicket}}

Answered ==
    {<<Grant(r).attempt, Grant(r).payload>> : r \in {q \in Requests : requests[q].pc = "answered"}}

Receipts == INSTANCE Agency WITH
    transfers <- Transfers, accepted <- Accepted, answered <- Answered

(* However POSTs race and keys collide, an attempt is accepted once, with    *)
(* the payload of one transfer, and only POSTs of that payload are answered. *)
ImplementsAgency == Receipts!Spec
===============================================================================

--------------------------------- MODULE Ledger --------------------------------
(***************************************************************************)
(* What a resident may rely on when they send photos, with no call, lease, *)
(* bucket or counter in it: a key takes a slot of the day where there is   *)
(* room for it, gives it back or keeps one photo in it, and every answer   *)
(* names the photo that is kept.                                           *)
(***************************************************************************)
EXTENDS Naturals, FiniteSets

CONSTANTS
    Keys, Photos, Days,
    Owner, Workspace, \* the two scopes that a key counts in
    Limit             \* slots per day, by scope

VARIABLES
    today,
    slots,   \* of each key: free, or held or used by a photo since a day
    kept,    \* photos that are recorded
    answered \* the keys and photos that calls have answered

vars == <<today, slots, kept, answered>>

Free == [status |-> "free"]

Slot(status, photo, d) == [status |-> status, photo |-> photo, day |-> d]

Init ==
    /\ today \in Days
    /\ slots = [k \in Keys |-> Free]
    /\ kept = {} /\ answered = {}

ScopesOf(k) == {Owner[k], Workspace}

(* What counts against the limit of a scope on a day.                        *)
Taken(s, d) ==
    {k \in Keys : s \in ScopesOf(k) /\ slots[k] # Free /\ slots[k].day = d}

HasRoom(k) == \A s \in ScopesOf(k) : Cardinality(Taken(s, today)) < Limit[s]

Take(k, photo) ==
    /\ slots[k] = Free /\ HasRoom(k)
    /\ slots' = [slots EXCEPT ![k] = Slot("held", photo, today)]
    /\ UNCHANGED <<today, kept, answered>>

Give(k) ==
    /\ slots[k] # Free /\ slots[k].status = "held"
    /\ slots' = [slots EXCEPT ![k] = Free]
    /\ UNCHANGED <<today, kept, answered>>

(* The photo counts on the day its slot was taken, whatever day it is now.   *)
Use(k, photo, d) ==
    /\ slots[k] = Slot("held", photo, d)
    /\ slots' = [slots EXCEPT ![k] = Slot("used", photo, d)]
    /\ kept' = kept \cup {photo}
    /\ answered' = answered \cup {<<k, photo>>}
    /\ UNCHANGED today

Answer(k, photo) ==
    /\ \E d \in Days : slots[k] = Slot("used", photo, d)
    /\ answered' = answered \cup {<<k, photo>>}
    /\ UNCHANGED <<today, slots, kept>>

NextDay ==
    /\ today' \in Days /\ today' > today
    /\ UNCHANGED <<slots, kept, answered>>

Next ==
    \/ \E k \in Keys : Give(k)
    \/ \E k \in Keys, photo \in Photos :
          Take(k, photo) \/ Answer(k, photo) \/ \E d \in Days : Use(k, photo, d)
    \/ NextDay

Spec == Init /\ [][Next]_vars
===============================================================================

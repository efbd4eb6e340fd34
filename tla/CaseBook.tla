------------------------------- MODULE CaseBook -------------------------------
(***************************************************************************)
(* What residents may rely on when observations become cases, with no      *)
(* model, job, lease or retry in it: an observation is linked only as its  *)
(* author asked, for the revision it still has, and never twice.  Editing  *)
(* it or taking it out of a case makes a new revision, so that whatever    *)
(* was asked before links it no more; and a case keeps the one it began    *)
(* with.                                                                   *)
(***************************************************************************)
EXTENDS Naturals, Sequences

CONSTANT Observations

VARIABLES
    notes,   \* of each observation made, its revision and its case, or 0
    asked,   \* decisions that may still come: <<observation, revision, case>>,
             \* with 0 for a case of its own
    founders \* the observation each case began with, in order

vars == <<notes, asked, founders>>

Init == notes = <<>> /\ asked = {} /\ founders = <<>>

Make(o) ==
    /\ o \notin DOMAIN notes
    /\ notes' = [p \in DOMAIN notes \cup {o} |->
                    IF p = o THEN [revision |-> 1, case |-> 0] ELSE notes[p]]
    /\ UNCHANGED <<asked, founders>>

(* Decisions are forgotten, once made or given up.                           *)
Forget == asked' \subseteq asked /\ UNCHANGED <<notes, founders>>

Alone(o) == o \in DOMAIN notes /\ notes[o].case = 0

Revised(o) == [revision |-> notes[o].revision + 1, case |-> 0]

Revise(o) ==
    /\ Alone(o)
    /\ notes' = [notes EXCEPT ![o] = Revised(o)]
    /\ asked' \subseteq asked
    /\ UNCHANGED founders

Leave(o) ==
    /\ o \in DOMAIN notes /\ notes[o].case # 0
    /\ o # founders[notes[o].case]
    /\ notes' = [notes EXCEPT ![o] = Revised(o)]
    /\ asked' \subseteq asked
    /\ UNCHANGED founders

Ask(o, c) ==
    /\ Alone(o)
    /\ asked' = asked \cup {<<o, notes[o].revision, c>>}
    /\ UNCHANGED <<notes, founders>>

(* The author wants it in case c, and says now what was said then.           *)
Wanted(o, c) == Alone(o) /\ <<o, notes[o].revision, c>> \in asked

Begin(o) ==
    /\ Wanted(o, 0)
    /\ founders' = Append(founders, o)
    /\ notes' = [notes EXCEPT ![o].case = Len(founders')]
    /\ UNCHANGED asked

Join(o, c) ==
    /\ Wanted(o, c)
    /\ notes' = [notes EXCEPT ![o].case = c]
    /\ UNCHANGED <<asked, founders>>

Next ==
    \/ Forget
    \/ \E o \in Observations :
          \/ Make(o) \/ Revise(o) \/ Leave(o) \/ Ask(o, 0) \/ Begin(o)
          \/ \E c \in 1 .. Len(founders) : Ask(o, c) \/ Join(o, c)

Spec == Init /\ [][Next]_vars
===============================================================================

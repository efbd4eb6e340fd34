--------------------------- MODULE CaseLinkingProofs ---------------------------
(***************************************************************************)
(* Proofs about CaseLinking for any residents, observations, runners and   *)
(* bounds: its types, and that links, memberships, followers, analyses and *)
(* agreements to release a photo stand however jobs overlap with what      *)
(* residents do.                                                           *)
(*                                                                         *)
(* The record of observations and cases is consistent by itself; what a    *)
(* job may still write into it is right because the revision of an         *)
(* observation never comes back.                                           *)
(***************************************************************************)
EXTENDS CaseLinking, FiniteSetTheorems, SequenceTheorems, TLAPS

JobRecord == [status : {"live", "completed"}, owner : Runners \cup {None}]

RunnerRecord ==
    [pc : {"idle", "claimed", "thinking", "done", "raised"},
     job : Request \cup {<<>>}, seen : 0 .. MaxRevision]

RecordTypes ==
    /\ DOMAIN obs \subseteq Observations /\ obs \in [DOMAIN obs -> Observation]
    /\ cases \in Seq(Incident)
    /\ members \subseteq CaseIds \X Residents
    /\ followers \subseteq CaseIds \X Residents

JobTypes ==
    /\ DOMAIN jobs \subseteq Request /\ jobs \in [DOMAIN jobs -> JobRecord]
    /\ runners \in [Runners -> RunnerRecord]
    /\ \A w \in Runners : runners[w].pc # "idle" => runners[w].job \in Request
    /\ faults \in 0 .. MaxFaults

Listed(c) == ToSet(cases[c].observations)

(* A case lists an observation once, and counts them.                        *)
ListOk(case) ==
    /\ IsInjective(case.observations)
    /\ case.count = Len(case.observations) /\ case.count > 0

(* An observation is listed by the case it names and by no other.            *)
LinksOk ==
    /\ \A o \in DOMAIN obs : obs[o].incident \in {0} \cup CaseIds
    /\ \A c \in CaseIds : Listed(c) = {o \in DOMAIN obs : obs[o].incident = c}
    /\ \A c \in CaseIds : ListOk(cases[c])

PeopleOk ==
    /\ \A c \in CaseIds, u \in Residents :
          <<c, u>> \in members <=> \E o \in Listed(c) : Author[o] = u
    /\ \A c \in CaseIds :
          IsFiniteSet(FollowersOf(c)) /\ Cardinality(FollowersOf(c)) <= MaxFollowers

RecordOk == RecordTypes /\ LinksOk /\ PeopleOk /\ ReviewedAsWritten

(* A request is about a revision that has been.  While it is the present one *)
(* a decision has been asked for with its analysis complete.                 *)
RequestOk(q) ==
    /\ q.obs \in DOMAIN obs
    /\ q.version <= obs[q.obs].version
    /\ q.kind = "decide" /\ q.version = obs[q.obs].version =>
          obs[q.obs].analysis # 0 /\ <<q.obs, obs[q.obs].text>> \notin Vague

(* And the model has seen the text of the revision.                          *)
RunnerOk(w) ==
    runners[w].pc # "idle" =>
        LET q == runners[w].job
        IN  /\ RequestOk(q)
            /\ runners[w].pc = "thinking" /\ q.kind = "analyze" /\ q.version = obs[q.obs].version =>
                  runners[w].seen = obs[q.obs].text

RequestsOk == (\A q \in DOMAIN jobs : RequestOk(q)) /\ (\A w \in Runners : RunnerOk(w))

CaseLinkingInv == RecordOk /\ JobTypes /\ RequestsOk

-------------------------------------------------------------------------------
(* Records, and lists of observations *)

(* What is listed, by position.                                              *)
LEMMA ListedByPosition ==
    ASSUME NEW S, NEW list \in Seq(S)
    PROVE  /\ DOMAIN list = 1 .. Len(list) /\ Len(list) \in Nat
           /\ \A o : o \in ToSet(list) <=> \E i \in 1 .. Len(list) : list[i] = o
           /\ ToSet(list) \subseteq S
  BY LenProperties, ElementOfSeq DEF ToSet

(* Taking an observation out of a list that has it once and does not begin   *)
(* with it leaves the others, in their order.                                *)
LEMMA WithoutOk ==
    ASSUME NEW S, NEW list \in Seq(S), IsInjective(list), NEW o \in ToSet(list), list[1] # o
    PROVE  LET rest == Without(list, o)
           IN  /\ rest \in Seq(S) /\ Len(rest) = Len(list) - 1 /\ Len(rest) > 0
               /\ rest[1] = list[1] /\ IsInjective(rest)
               /\ ToSet(rest) = ToSet(list) \ {o}
<1>. DEFINE n == Len(list)
            First(i) == list[i] = o /\ \A k \in 1 .. i - 1 : list[k] # o
<1>1. /\ DOMAIN list = 1 .. n /\ n \in Nat
      /\ \A p : p \in ToSet(list) <=> \E i \in 1 .. n : list[i] = p
      /\ \A a, b \in 1 .. n : list[a] = list[b] => a = b
  BY ListedByPosition DEF IsInjective
<1>2. PICK i \in 1 .. n : list[i] = o
  BY <1>1
<1>3. First(i)
  <2>1. ASSUME NEW k \in 1 .. i - 1 PROVE list[k] # o
    <3>1. k \in 1 .. n /\ k # i
      BY <1>1
    <3>. QED BY <1>1, <1>2, <3>1
  <2>. QED BY <1>2, <2>1
<1>4. i \in 2 .. n
  BY <1>1, <1>2
<1>. DEFINE j == CHOOSE x \in DOMAIN list : First(x)
<1>5. j = i
  <2>1. j \in 1 .. n /\ list[j] = o
    BY <1>1, <1>2, <1>3
  <2>. HIDE DEF j
  <2>. QED BY <1>1, <1>2, <2>1
<1>. DEFINE before == SubSeq(list, 1, i - 1)
            after == SubSeq(list, i + 1, n)
            rest == before \o after
<1>6. Without(list, o) = rest
  BY <1>5 DEF Without, RemoveAt
<1>7. /\ before \in Seq(S) /\ Len(before) = i - 1
      /\ \A k \in 1 .. i - 1 : before[k] = list[k]
  <2>1. 1 \in 1 .. n + 1 /\ i - 1 \in 0 .. n /\ 1 <= i - 1
    BY <1>1, <1>4
  <2>2. Len(before) = (i - 1) - 1 + 1
    BY <2>1, SubSeqProperties
  <2>3. \A k \in 1 .. (i - 1) - 1 + 1 : before[k] = list[1 + k - 1]
    BY <2>1, SubSeqProperties
  <2>4. before \in Seq(S)
    BY <2>1, SubSeqProperties
  <2>. HIDE DEF before
  <2>5. Len(before) = i - 1
    BY <1>1, <1>4, <2>2
  <2>6. ASSUME NEW k \in 1 .. i - 1 PROVE before[k] = list[k]
    <3>1. k \in 1 .. (i - 1) - 1 + 1 /\ 1 + k - 1 = k
      BY <1>1, <1>4
    <3>. QED BY <2>3, <3>1
  <2>. QED BY <2>4, <2>5, <2>6
<1>8. /\ after \in Seq(S) /\ Len(after) = n - i
      /\ \A k \in 1 .. n - i : after[k] = list[i + k]
  <2>1. i + 1 \in 1 .. n + 1 /\ n \in i .. n
    BY <1>1, <1>4
  <2>2. after \in Seq(S) /\ Len(after) = IF i + 1 <= n THEN n - (i + 1) + 1 ELSE 0
    BY <2>1, SubSeqProperties
  <2>3. \A k \in 1 .. n - (i + 1) + 1 : after[k] = list[(i + 1) + k - 1]
    BY <2>1, SubSeqProperties
  <2>. HIDE DEF after
  <2>4. Len(after) = n - i
    <3>1. i \in Int /\ n \in Int /\ i <= n
      BY <1>1
    <3>2. Len(after) = IF i + 1 <= n THEN n - (i + 1) + 1 ELSE 0
      BY <2>2
    <3>. HIDE DEF n
    <3>3. CASE i + 1 <= n
      BY <3>1, <3>2, <3>3
    <3>4. CASE ~(i + 1 <= n)
      BY <3>1, <3>2, <3>4
    <3>. QED BY <3>3, <3>4
  <2>5. ASSUME NEW k \in 1 .. n - i PROVE after[k] = list[i + k]
    <3>1. k \in 1 .. n - (i + 1) + 1 /\ (i + 1) + k - 1 = i + k
      BY <1>1, <1>4
    <3>. QED BY <2>3, <3>1
  <2>. QED BY <2>2, <2>4, <2>5
<1>. HIDE DEF before, after
<1>9. /\ rest \in Seq(S) /\ Len(rest) = n - 1
      /\ \A k \in 1 .. n - 1 : rest[k] = IF k <= i - 1 THEN before[k] ELSE after[k - (i - 1)]
  <2>1. /\ rest \in Seq(S) /\ Len(rest) = Len(before) + Len(after)
        /\ \A k \in 1 .. Len(before) + Len(after) :
              rest[k] = IF k <= Len(before) THEN before[k] ELSE after[k - Len(before)]
    BY <1>7, <1>8, ConcatProperties
  <2>2. Len(before) = i - 1 /\ Len(before) + Len(after) = n - 1
    BY <1>1, <1>4, <1>7, <1>8
  <2>. QED BY <2>1, <2>2
<1>10. \A k \in 1 .. n - 1 : rest[k] = IF k < i THEN list[k] ELSE list[k + 1]
  <2>1. SUFFICES ASSUME NEW k \in 1 .. n - 1
                 PROVE  rest[k] = IF k < i THEN list[k] ELSE list[k + 1]
    OBVIOUS
  <2>2. CASE k < i
    BY <1>1, <1>4, <1>7, <1>9, <2>2
  <2>3. CASE ~(k < i)
    <3>1. k - (i - 1) \in 1 .. n - i /\ i + (k - (i - 1)) = k + 1 /\ ~(k <= i - 1)
      BY <1>1, <1>4, <2>3
    <3>. QED BY <1>8, <1>9, <2>3, <3>1
  <2>. QED BY <2>2, <2>3
<1>. HIDE DEF rest, First, j
<1>11. rest[1] = list[1] /\ n - 1 > 0
  BY <1>1, <1>4, <1>10
<1>12. IsInjective(rest)
  <2>1. DOMAIN rest = 1 .. n - 1
    BY <1>9, ListedByPosition
  <2>2. ASSUME NEW a \in 1 .. n - 1, NEW b \in 1 .. n - 1, rest[a] = rest[b] PROVE a = b
    BY <1>1, <1>4, <1>10, <2>2
  <2>. QED BY <2>1, <2>2 DEF IsInjective
<1>13. ToSet(rest) = ToSet(list) \ {o}
  <2>1. \A p : p \in ToSet(rest) <=> \E k \in 1 .. n - 1 : rest[k] = p
    BY <1>9, ListedByPosition
  <2>2. ASSUME NEW k \in 1 .. n - 1 PROVE rest[k] \in ToSet(list) /\ rest[k] # o
    BY <1>1, <1>2, <1>4, <1>10
  <2>3. ASSUME NEW p \in ToSet(list), p # o PROVE p \in ToSet(rest)
    <3>1. PICK a \in 1 .. n : list[a] = p
      BY <1>1
    <3>2. CASE a < i
      <4>1. a \in 1 .. n - 1 /\ rest[a] = p
        BY <1>1, <1>4, <1>10, <3>1, <3>2
      <4>. QED BY <2>1, <4>1
    <3>3. CASE a > i
      <4>1. a - 1 \in 1 .. n - 1 /\ ~(a - 1 < i) /\ (a - 1) + 1 = a
        BY <1>1, <1>4, <3>3
      <4>. QED BY <2>1, <1>10, <3>1, <4>1
    <3>. QED BY <1>1, <1>2, <2>3, <3>1, <3>2, <3>3
  <2>. QED BY <2>1, <2>2, <2>3
<1>. QED BY <1>6, <1>9, <1>11, <1>12, <1>13

(* An observation that is not listed is added at the end.                    *)
LEMMA GrownListOk ==
    ASSUME NEW S, NEW list \in Seq(S), IsInjective(list), NEW o \in S, o \notin ToSet(list)
    PROVE  LET more == Append(list, o)
           IN  /\ more \in Seq(S) /\ Len(more) = Len(list) + 1
               /\ Len(list) > 0 => more[1] = list[1]
               /\ IsInjective(more) /\ ToSet(more) = ToSet(list) \cup {o}
<1>. DEFINE n == Len(list)
            more == Append(list, o)
<1>1. /\ DOMAIN list = 1 .. n /\ n \in Nat
      /\ \A p : p \in ToSet(list) <=> \E i \in 1 .. n : list[i] = p
      /\ \A a, b \in 1 .. n : list[a] = list[b] => a = b
  BY ListedByPosition DEF IsInjective
<1>2. /\ more \in Seq(S) /\ Len(more) = n + 1 /\ more[n + 1] = o
      /\ \A i \in 1 .. n : more[i] = list[i]
  BY AppendProperties
<1>. HIDE DEF more
<1>3. /\ DOMAIN more = 1 .. n + 1
      /\ \A p : p \in ToSet(more) <=> \E i \in 1 .. n + 1 : more[i] = p
  BY <1>2, ListedByPosition
<1>4. n > 0 => more[1] = list[1]
  BY <1>1, <1>2
<1>5. \A i \in 1 .. n + 1 : i \in 1 .. n \/ i = n + 1
  BY <1>1
<1>6. IsInjective(more)
  <2>1. ASSUME NEW a \in 1 .. n + 1, NEW b \in 1 .. n + 1, more[a] = more[b] PROVE a = b
    BY <1>1, <1>2, <1>5, <2>1
  <2>. QED BY <1>3, <2>1 DEF IsInjective
<1>7. ToSet(more) = ToSet(list) \cup {o}
  <2>1. ASSUME NEW p \in ToSet(more) PROVE p \in ToSet(list) \cup {o}
    BY <1>1, <1>2, <1>3, <1>5
  <2>2. ASSUME NEW p \in ToSet(list) PROVE p \in ToSet(more)
    <3>1. PICK i \in 1 .. n : list[i] = p
      BY <1>1
    <3>2. i \in 1 .. n + 1 /\ more[i] = p
      BY <1>1, <1>2, <3>1
    <3>. QED BY <1>3, <3>2
  <2>3. o \in ToSet(more)
    <3>1. n + 1 \in 1 .. n + 1
      BY <1>1
    <3>. QED BY <1>2, <1>3, <3>1
  <2>. QED BY <2>1, <2>2, <2>3
<1>. QED BY <1>2, <1>4, <1>6, <1>7 DEF more

(* A list of one.                                                            *)
LEMMA FirstListOk ==
    ASSUME NEW S, NEW o \in S
    PROVE  /\ <<o>> \in Seq(S) /\ Len(<<o>>) = 1 /\ <<o>>[1] = o
           /\ IsInjective(<<o>>) /\ ToSet(<<o>>) = {o}
  BY DEF IsInjective, ToSet

(* One case changes.                                                         *)
LEMMA CaseMoves ==
    ASSUME cases \in Seq(Incident), NEW c \in CaseIds, NEW r \in Incident,
           cases' = [cases EXCEPT ![c] = r]
    PROVE  /\ cases' \in Seq(Incident) /\ CaseIds' = CaseIds /\ cases'[c] = r
           /\ \A d \in CaseIds \ {c} : cases'[d] = cases[d]
<1>. HIDE DEF Incident
<1>1. DOMAIN cases = 1 .. Len(cases) /\ cases \in [1 .. Len(cases) -> Incident] /\ Len(cases) \in Nat
  BY LenProperties
<1>2. cases' \in Seq(Incident) /\ Len(cases') = Len(cases)
  BY <1>1, ExceptSeq DEF CaseIds
<1>. QED BY <1>1, <1>2 DEF CaseIds

(* One case is new.                                                          *)
LEMMA CaseBegins ==
    ASSUME cases \in Seq(Incident), NEW r \in Incident, cases' = Append(cases, r)
    PROVE  LET c == Len(cases) + 1
           IN  /\ cases' \in Seq(Incident) /\ CaseIds' = CaseIds \cup {c} /\ c \notin CaseIds
               /\ cases'[c] = r /\ c # 0 /\ c \in Nat /\ \A d \in CaseIds : cases'[d] = cases[d]
<1>. HIDE DEF Incident
<1>1. Len(cases) \in Nat
  BY LenProperties
<1>2. /\ cases' \in Seq(Incident) /\ Len(cases') = Len(cases) + 1
      /\ cases'[Len(cases) + 1] = r /\ \A d \in 1 .. Len(cases) : cases'[d] = cases[d]
  BY AppendProperties
<1>. QED BY <1>1, <1>2 DEF CaseIds

-------------------------------------------------------------------------------
(* What the steps write *)

(* The fields of a case, as the proofs use them.                             *)
LEMMA CaseFields ==
    ASSUME NEW case \in Incident
    PROVE  /\ case.observations \in Seq(Observations) /\ case.count \in Nat
           /\ case.text \in 1 .. MaxRevision /\ case.analysis \in 0 .. MaxRevision
  BY DEF Incident

(* Taking an observation out keeps the first one.                            *)
LEMMA ShrunkOk ==
    ASSUME NEW case \in Incident, ListOk(case), NEW o \in ToSet(case.observations),
           case.observations[1] # o
    PROVE  LET r == Shrunk(case, o)
           IN  /\ r \in Incident /\ ListOk(r) /\ r.observations[1] = case.observations[1]
               /\ ToSet(r.observations) = ToSet(case.observations) \ {o}
               /\ r.text = case.text /\ r.analysis = case.analysis
<1>. DEFINE rest == Without(case.observations, o)
            n == case.count - 1
            r == Shrunk(case, o)
<1>1. /\ rest \in Seq(Observations) /\ Len(rest) = Len(case.observations) - 1 /\ Len(rest) > 0
      /\ rest[1] = case.observations[1] /\ IsInjective(rest)
      /\ ToSet(rest) = ToSet(case.observations) \ {o}
  BY CaseFields, WithoutOk DEF ListOk
<1>2. n \in Nat /\ n = Len(rest) /\ n > 0
  BY <1>1, CaseFields, LenProperties DEF ListOk
<1>3. r = [case EXCEPT !.observations = rest, !.count = n]
  BY DEF Shrunk
<1>. HIDE DEF rest, n, r
<1>4. /\ r \in Incident /\ r.observations = rest /\ r.count = n
      /\ r.text = case.text /\ r.analysis = case.analysis
  BY <1>1, <1>2, <1>3 DEF Incident
<1>. QED BY <1>1, <1>2, <1>4 DEF r, ListOk

(* Adding one keeps it too.                                                  *)
LEMMA GrownOk ==
    ASSUME CaseLinkingAssumption, NEW case \in Incident, ListOk(case),
           NEW o \in Observations, o \notin ToSet(case.observations)
    PROVE  LET r == Grown(case, o)
           IN  /\ r \in Incident /\ ListOk(r) /\ r.observations[1] = case.observations[1]
               /\ ToSet(r.observations) = ToSet(case.observations) \cup {o}
               /\ r.text = case.text /\ r.analysis = case.analysis
<1>. DEFINE more == Append(case.observations, o)
            n == case.count + 1
            r == Grown(case, o)
<1>1. /\ more \in Seq(Observations) /\ Len(more) = Len(case.observations) + 1
      /\ Len(case.observations) > 0 => more[1] = case.observations[1]
      /\ IsInjective(more) /\ ToSet(more) = ToSet(case.observations) \cup {o}
  BY CaseFields, GrownListOk DEF ListOk
<1>2. n \in Nat /\ n = Len(more) /\ n > 0
  BY <1>1, CaseFields, LenProperties DEF ListOk
<1>3. r = [case EXCEPT !.observations = more, !.count = n]
  BY DEF Grown
<1>. HIDE DEF more, n, r
<1>4. /\ r \in Incident /\ r.observations = more /\ r.count = n
      /\ r.text = case.text /\ r.analysis = case.analysis
  BY <1>1, <1>2, <1>3 DEF Incident
<1>. QED BY <1>1, <1>2, <1>4 DEF r, ListOk

(* A case begins with one observation, and with its content.                 *)
LEMMA CaseOfOk ==
    ASSUME CaseLinkingAssumption, NEW o \in Observations, o \in DOMAIN obs, obs[o] \in Observation
    PROVE  LET r == CaseOf(o)
           IN  /\ r \in Incident /\ ListOk(r) /\ r.observations[1] = o
               /\ ToSet(r.observations) = {o} /\ r.text = obs[o].text
               /\ r.analysis = obs[o].analysis
<1>. DEFINE list == <<o>>
            shared == Sharing(o) # "nothing"
            r == CaseOf(o)
<1>1. /\ list \in Seq(Observations) /\ Len(list) = 1 /\ list[1] = o
      /\ IsInjective(list) /\ ToSet(list) = {o}
  BY FirstListOk
<1>2. /\ shared \in BOOLEAN
      /\ obs[o].text \in 1 .. MaxRevision /\ obs[o].analysis \in 0 .. MaxRevision
  BY DEF Observation
<1>3. r = [observations |-> list, count |-> 1, text |-> obs[o].text,
           analysis |-> obs[o].analysis, shared |-> shared, fixed |-> FALSE]
  BY DEF CaseOf
<1>. HIDE DEF list, shared, r
<1>4. r \in Incident
  BY <1>1, <1>2, <1>3 DEF Incident
<1>5. /\ r.observations = list /\ r.count = 1
      /\ r.text = obs[o].text /\ r.analysis = obs[o].analysis
  BY <1>3
<1>. QED BY <1>1, <1>4, <1>5 DEF r, ListOk

(* One observation changes.                                                  *)
LEMMA ObservationMoves ==
    ASSUME RecordTypes, NEW o \in DOMAIN obs, NEW r \in Observation, obs' = [obs EXCEPT ![o] = r]
    PROVE  /\ DOMAIN obs' = DOMAIN obs /\ obs' \in [DOMAIN obs' -> Observation]
           /\ obs'[o] = r /\ \A p \in DOMAIN obs \ {o} : obs'[p] = obs[p]
<1>. HIDE DEF Observation
<1>. QED BY DEF RecordTypes

(* What the record says of an observation, and of a case.                    *)
LEMMA RecordFacts ==
    ASSUME RecordOk
    PROVE  /\ 0 \notin CaseIds /\ CaseIds \subseteq Nat
           /\ \A o \in DOMAIN obs :
                 /\ o \in Observations /\ obs[o] \in Observation
                 /\ obs[o].version \in Nat /\ obs[o].text \in 1 .. MaxRevision
                 /\ obs[o].analysis \in 0 .. MaxRevision
           /\ \A c \in CaseIds :
                 /\ cases[c] \in Incident /\ ListOk(cases[c])
                 /\ cases[c].observations[1] \in Listed(c)
                 /\ cases[c].observations[1] \in DOMAIN obs
                 /\ obs[cases[c].observations[1]].incident = c
<1>1. 0 \notin CaseIds /\ CaseIds \subseteq Nat
  BY DEF CaseIds
<1>2. ASSUME NEW o \in DOMAIN obs
      PROVE  /\ o \in Observations /\ obs[o] \in Observation
             /\ obs[o].version \in Nat /\ obs[o].text \in 1 .. MaxRevision
             /\ obs[o].analysis \in 0 .. MaxRevision
  <2>1. o \in Observations /\ obs[o] \in Observation
    BY DEF RecordOk, RecordTypes
  <2>. QED BY <2>1 DEF Observation
<1>3. ASSUME NEW c \in CaseIds
      PROVE  /\ cases[c] \in Incident /\ ListOk(cases[c])
             /\ cases[c].observations[1] \in Listed(c)
             /\ cases[c].observations[1] \in DOMAIN obs
             /\ obs[cases[c].observations[1]].incident = c
  <2>1. cases[c] \in Incident /\ ListOk(cases[c])
    BY ElementOfSeq DEF RecordOk, RecordTypes, LinksOk, CaseIds
  <2>2. cases[c].observations \in Seq(Observations) /\ 1 \in 1 .. Len(cases[c].observations)
    BY <2>1, CaseFields, LenProperties DEF ListOk
  <2>3. cases[c].observations[1] \in Listed(c)
    BY <2>2, ListedByPosition DEF Listed
  <2>. QED BY <2>1, <2>3 DEF RecordOk, LinksOk
<1>. QED BY <1>1, <1>2, <1>3

-------------------------------------------------------------------------------
(* The record *)

(* No revision of an observation comes back, and it keeps its text; only its *)
(* analysis may come later.                                                  *)
Advances ==
    \A o \in DOMAIN obs :
        /\ o \in DOMAIN obs' /\ obs[o].version <= obs'[o].version
        /\ obs'[o].version = obs[o].version =>
              obs'[o].text = obs[o].text /\ (obs[o].analysis # 0 => obs'[o].analysis # 0)

(* The record as it was.                                                     *)
LEMMA RecordStays ==
    ASSUME RecordOk, UNCHANGED record
    PROVE  RecordOk' /\ Advances
<1>1. obs' = obs /\ cases' = cases /\ members' = members /\ followers' = followers
  BY DEF record
<1>2. RecordTypes'
  BY <1>1 DEF RecordOk, RecordTypes, CaseIds
<1>3. LinksOk'
  BY <1>1 DEF RecordOk, LinksOk, CaseIds, Listed
<1>4. PeopleOk'
  BY <1>1 DEF RecordOk, PeopleOk, CaseIds, Listed, FollowersOf
<1>5. ReviewedAsWritten'
  BY <1>1 DEF RecordOk, ReviewedAsWritten, CaseIds
<1>6. Advances
  BY <1>1, RecordFacts DEF Advances
<1>. QED BY <1>2, <1>3, <1>4, <1>5, <1>6 DEF RecordOk

(* Who is in a case stays when the lists do.                                 *)
LEMMA PeopleStay ==
    ASSUME RecordOk, UNCHANGED <<members, followers>>, CaseIds' = CaseIds,
           \A c \in CaseIds : Listed(c)' = Listed(c)
    PROVE  PeopleOk'
<1>1. ASSUME NEW c \in CaseIds, NEW u \in Residents
      PROVE  <<c, u>> \in members' <=> \E o \in Listed(c)' : Author[o] = u
  BY DEF RecordOk, PeopleOk
<1>2. \A c \in CaseIds : FollowersOf(c)' = FollowersOf(c)
  BY DEF FollowersOf
<1>. QED BY <1>1, <1>2 DEF RecordOk, PeopleOk

(* What a case tells stays when it keeps its content and its first           *)
(* observation, and a linked observation its text.                           *)
LEMMA ReviewStays ==
    ASSUME RecordOk, CaseIds' = CaseIds,
           \A c \in CaseIds :
              /\ cases'[c].observations[1] = cases[c].observations[1]
              /\ cases'[c].text = cases[c].text /\ cases'[c].analysis = cases[c].analysis,
           \A o \in DOMAIN obs : obs[o].incident # 0 => obs'[o].text = obs[o].text,
           \A o \in DOMAIN obs' : obs'[o].analysis \in {0, obs'[o].text}
    PROVE  ReviewedAsWritten'
<1>1. ASSUME NEW c \in CaseIds
      PROVE  LET first == cases'[c].observations[1]
             IN  /\ cases'[c].text = obs'[first].text /\ cases'[c].analysis = obs'[first].text
                 /\ <<first, obs'[first].text>> \notin Vague
  <2>. DEFINE first == cases[c].observations[1]
  <2>1. cases'[c].observations[1] = first /\ obs'[first].text = obs[first].text
    BY RecordFacts
  <2>2. /\ cases[c].text = obs[first].text /\ cases[c].analysis = obs[first].text
        /\ <<first, obs[first].text>> \notin Vague
    BY DEF RecordOk, ReviewedAsWritten
  <2>. QED BY <2>1, <2>2
<1>. QED BY <1>1 DEF ReviewedAsWritten

(* A new observation is linked to nothing.                                   *)
LEMMA CreateObservationOk ==
    ASSUME CaseLinkingAssumption, RecordOk, NEW o \in Observations, CreateObservation(o)
    PROVE  RecordOk' /\ Advances
<1>. DEFINE r == [version |-> 1, text |-> 1, analysis |-> 0, incident |-> 0]
<1>1. /\ o \notin DOMAIN obs /\ obs' = Put(obs, o, r)
      /\ UNCHANGED <<cases, members, followers>> /\ CaseIds' = CaseIds
      /\ \A c \in CaseIds : Listed(c)' = Listed(c)
  BY DEF CreateObservation, CaseIds, Listed
<1>2. /\ r \in Observation /\ r.version = 1 /\ r.text = 1 /\ r.analysis = 0 /\ r.incident = 0
  BY DEF Observation, CaseLinkingAssumption
<1>. HIDE DEF r, Observation
<1>3. /\ obs' \in [DOMAIN obs \cup {o} -> Observation] /\ obs'[o] = r
      /\ \A p \in DOMAIN obs : obs'[p] = obs[p]
  <2>1. obs \in [DOMAIN obs -> Observation] /\ r \in Observation
    BY <1>2 DEF RecordOk, RecordTypes
  <2>2. /\ Put(obs, o, r) \in [DOMAIN obs \cup {o} -> Observation] /\ Put(obs, o, r)[o] = r
        /\ \A p \in DOMAIN obs \ {o} : Put(obs, o, r)[p] = obs[p]
    BY <2>1 DEF Put
  <2>. QED BY <1>1, <2>2
<1>4. DOMAIN obs' = DOMAIN obs \cup {o}
  BY <1>3
<1>5. RecordTypes'
  BY <1>1, <1>3, <1>4 DEF RecordOk, RecordTypes
<1>6. LinksOk'
  <2>1. \A p \in DOMAIN obs' : obs'[p].incident \in {0} \cup CaseIds'
    BY <1>1, <1>2, <1>3, <1>4 DEF RecordOk, LinksOk
  <2>2. ASSUME NEW c \in CaseIds PROVE Listed(c)' = {p \in DOMAIN obs' : obs'[p].incident = c}
    BY <1>1, <1>2, <1>3, <1>4, RecordFacts DEF RecordOk, LinksOk
  <2>3. \A c \in CaseIds : ListOk(cases'[c])
    BY <1>1 DEF RecordOk, LinksOk
  <2>. QED BY <1>1, <2>1, <2>2, <2>3 DEF LinksOk, ListOk
<1>7. PeopleOk'
  BY <1>1, PeopleStay
<1>8. ReviewedAsWritten'
  <2>1. \A p \in DOMAIN obs' : obs'[p].analysis \in {0, obs'[p].text}
    BY <1>2, <1>3, <1>4 DEF RecordOk, ReviewedAsWritten
  <2>. QED BY <1>1, <1>3, <2>1, ReviewStays
<1>9. Advances
  BY <1>3, <1>4, RecordFacts DEF Advances
<1>. QED BY <1>5, <1>6, <1>7, <1>8, <1>9 DEF RecordOk

(* Another text is another revision, without an analysis; no case has it.    *)
LEMMA PatchObservationOk ==
    ASSUME CaseLinkingAssumption, RecordOk, NEW o \in Observations, PatchObservation(o)
    PROVE  RecordOk' /\ Advances
<1>. DEFINE r == Patched(o)
<1>1. /\ o \in DOMAIN obs /\ obs[o].incident = 0 /\ obs[o].version < MaxRevision
      /\ obs' = [obs EXCEPT ![o] = r]
      /\ UNCHANGED <<cases, members, followers>> /\ CaseIds' = CaseIds
      /\ \A c \in CaseIds : Listed(c)' = Listed(c)
  BY DEF PatchObservation, CaseIds, Listed, Linked
<1>2. /\ r \in Observation /\ r.version = obs[o].version + 1 /\ r.analysis = 0 /\ r.incident = 0
  <2>1. obs[o] \in Observation /\ MaxRevision \in Nat
    BY <1>1, RecordFacts DEF CaseLinkingAssumption
  <2>. DEFINE next == obs[o].version + 1
  <2>2. next \in 1 .. MaxRevision
    BY <1>1, <2>1 DEF Observation
  <2>3. r = [obs[o] EXCEPT !.version = next, !.text = next, !.analysis = 0]
    BY DEF Patched
  <2>. HIDE DEF next, r
  <2>4. 0 \in 0 .. MaxRevision
    BY <2>1
  <2>5. r \in Observation /\ r.version = next /\ r.analysis = 0 /\ r.incident = obs[o].incident
    BY <2>1, <2>2, <2>3, <2>4 DEF Observation
  <2>. QED BY <1>1, <2>5 DEF next
<1>. HIDE DEF r, Observation
<1>3. /\ DOMAIN obs' = DOMAIN obs /\ obs' \in [DOMAIN obs' -> Observation]
      /\ obs'[o] = r /\ \A p \in DOMAIN obs \ {o} : obs'[p] = obs[p]
  BY <1>1, <1>2, ObservationMoves DEF RecordOk
<1>4. \A p \in DOMAIN obs : obs'[p].incident = obs[p].incident
  BY <1>1, <1>2, <1>3
<1>5. RecordTypes'
  BY <1>1, <1>3 DEF RecordOk, RecordTypes
<1>6. LinksOk'
  <2>1. \A c \in CaseIds : Listed(c)' = {p \in DOMAIN obs' : obs'[p].incident = c}
    BY <1>1, <1>3, <1>4 DEF RecordOk, LinksOk
  <2>. QED BY <1>1, <1>3, <1>4, <2>1 DEF RecordOk, LinksOk, ListOk
<1>7. PeopleOk'
  BY <1>1, PeopleStay
<1>8. ReviewedAsWritten'
  <2>1. \A p \in DOMAIN obs' : obs'[p].analysis \in {0, obs'[p].text}
    BY <1>2, <1>3 DEF RecordOk, ReviewedAsWritten
  <2>2. \A p \in DOMAIN obs : obs[p].incident # 0 => obs'[p].text = obs[p].text
    BY <1>1, <1>3
  <2>. QED BY <1>1, <2>1, <2>2, ReviewStays
<1>9. Advances
  <2>1. ASSUME NEW p \in DOMAIN obs
        PROVE  /\ p \in DOMAIN obs' /\ obs[p].version <= obs'[p].version
               /\ obs'[p].version = obs[p].version =>
                     obs'[p].text = obs[p].text /\ (obs[p].analysis # 0 => obs'[p].analysis # 0)
    BY <1>2, <1>3, RecordFacts
  <2>. QED BY <2>1 DEF Advances
<1>. QED BY <1>5, <1>6, <1>7, <1>8, <1>9 DEF RecordOk

(* What leaves a case leaves its list and, with the resident's last          *)
(* observation, its members.                                                 *)
LEMMA UnlinkOk ==
    ASSUME CaseLinkingAssumption, RecordOk, NEW o \in Observations, Unlink(o)
    PROVE  RecordOk' /\ Advances
<1>1. PICK c \in CaseIds : o \in DOMAIN obs /\ obs[o].incident = c
  BY DEF Unlink, Linked, RecordOk, LinksOk
<1>. DEFINE u == Author[o]
            r == Unlinked(o)
            shrunk == Shrunk(cases[c], o)
<1>2. /\ obs[o].version < MaxRevision /\ cases[c].observations[1] # o
      /\ cases' = [cases EXCEPT ![c] = shrunk]
      /\ members' = IF StillContributes(c, u, o) THEN members ELSE members \ {<<c, u>>}
      /\ obs' = [obs EXCEPT ![o] = r] /\ UNCHANGED followers
  BY <1>1 DEF Unlink
<1>3. /\ c # 0 /\ o \in Listed(c) /\ cases[c] \in Incident /\ ListOk(cases[c])
      /\ u \in Residents
  BY <1>1, RecordFacts DEF RecordOk, LinksOk, CaseLinkingAssumption
<1>4. /\ shrunk \in Incident /\ ListOk(shrunk)
      /\ shrunk.observations[1] = cases[c].observations[1]
      /\ ToSet(shrunk.observations) = Listed(c) \ {o}
      /\ shrunk.text = cases[c].text /\ shrunk.analysis = cases[c].analysis
  BY <1>2, <1>3, ShrunkOk DEF Listed
<1>5. ToSet(Without(cases[c].observations, o)) = Listed(c) \ {o}
  BY <1>2, <1>3, CaseFields, WithoutOk DEF Listed, ListOk
<1>6. /\ r \in Observation /\ r.version = obs[o].version + 1 /\ r.incident = 0
      /\ r.text = obs[o].text /\ r.analysis = obs[o].analysis
  <2>1. obs[o] \in Observation /\ MaxRevision \in Nat
    BY <1>1, RecordFacts DEF CaseLinkingAssumption
  <2>. DEFINE next == obs[o].version + 1
  <2>2. next \in 1 .. MaxRevision
    BY <1>2, <2>1 DEF Observation
  <2>3. r = [obs[o] EXCEPT !.incident = 0, !.version = next]
    BY DEF Unlinked
  <2>. HIDE DEF next, r
  <2>4. /\ r \in Observation /\ r.version = next /\ r.incident = 0
        /\ r.text = obs[o].text /\ r.analysis = obs[o].analysis
    BY <2>1, <2>2, <2>3 DEF Observation
  <2>. QED BY <2>4 DEF next
<1>. HIDE DEF r, shrunk, Observation, Incident
<1>7. /\ DOMAIN obs' = DOMAIN obs /\ obs' \in [DOMAIN obs' -> Observation]
      /\ obs'[o] = r /\ \A p \in DOMAIN obs \ {o} : obs'[p] = obs[p]
  BY <1>1, <1>2, <1>6, ObservationMoves DEF RecordOk
<1>8. /\ cases' \in Seq(Incident) /\ CaseIds' = CaseIds /\ cases'[c] = shrunk
      /\ \A d \in CaseIds \ {c} : cases'[d] = cases[d]
  BY <1>2, <1>4, CaseMoves DEF RecordOk, RecordTypes
<1>9. /\ Listed(c)' = Listed(c) \ {o}
       /\ \A d \in CaseIds \ {c} : Listed(d)' = Listed(d)
  BY <1>4, <1>8 DEF Listed
<1>10. RecordTypes'
  BY <1>2, <1>7, <1>8 DEF RecordOk, RecordTypes
<1>11. LinksOk'
  <2>1. \A p \in DOMAIN obs' : obs'[p].incident \in {0} \cup CaseIds'
    BY <1>6, <1>7, <1>8 DEF RecordOk, LinksOk
  <2>2. ASSUME NEW d \in CaseIds PROVE Listed(d)' = {p \in DOMAIN obs' : obs'[p].incident = d}
    <3>1. Listed(d) = {p \in DOMAIN obs : obs[p].incident = d} /\ d # 0
      BY RecordFacts DEF RecordOk, LinksOk
    <3>2. CASE d = c
      BY <1>6, <1>7, <1>9, <3>1, <3>2
    <3>3. CASE d # c
      BY <1>1, <1>6, <1>7, <1>9, <3>1, <3>3
    <3>. QED BY <3>2, <3>3
  <2>3. \A d \in CaseIds : ListOk(cases'[d])
    BY <1>4, <1>8 DEF RecordOk, LinksOk
  <2>. QED BY <1>8, <2>1, <2>2, <2>3 DEF LinksOk, ListOk
<1>12. PeopleOk'
  <2>1. \A d \in CaseIds : FollowersOf(d)' = FollowersOf(d)
    BY <1>2 DEF FollowersOf
  <2>2. StillContributes(c, u, o) <=> \E p \in Listed(c) \ {o} : Author[p] = u
    BY <1>5 DEF StillContributes
  <2>3. ASSUME NEW d \in CaseIds, NEW v \in Residents
        PROVE  <<d, v>> \in members' <=> \E p \in Listed(d)' : Author[p] = v
    <3>1. <<d, v>> \in members <=> \E p \in Listed(d) : Author[p] = v
      BY DEF RecordOk, PeopleOk
    <3>2. CASE d = c /\ v = u
      BY <1>2, <1>3, <1>9, <2>2, <3>1, <3>2
    <3>3. CASE d = c /\ v # u
      BY <1>2, <1>9, <3>1, <3>3
    <3>4. CASE d # c
      BY <1>2, <1>9, <3>1, <3>4
    <3>. QED BY <3>2, <3>3, <3>4
  <2>. QED BY <1>8, <2>1, <2>3 DEF RecordOk, PeopleOk
<1>13. ReviewedAsWritten'
  <2>1. \A p \in DOMAIN obs' : obs'[p].analysis \in {0, obs'[p].text}
    BY <1>6, <1>7 DEF RecordOk, ReviewedAsWritten
  <2>2. \A p \in DOMAIN obs : obs'[p].text = obs[p].text
    BY <1>6, <1>7
  <2>3. \A d \in CaseIds :
          /\ cases'[d].observations[1] = cases[d].observations[1]
          /\ cases'[d].text = cases[d].text /\ cases'[d].analysis = cases[d].analysis
    BY <1>4, <1>8
  <2>. QED BY <1>8, <2>1, <2>2, <2>3, ReviewStays
<1>14. Advances
  <2>1. ASSUME NEW p \in DOMAIN obs
        PROVE  /\ p \in DOMAIN obs' /\ obs[p].version <= obs'[p].version
               /\ obs'[p].version = obs[p].version =>
                     obs'[p].text = obs[p].text /\ (obs[p].analysis # 0 => obs'[p].analysis # 0)
    BY <1>6, <1>7, RecordFacts
  <2>. QED BY <2>1 DEF Advances
<1>. QED BY <1>10, <1>11, <1>12, <1>13, <1>14 DEF RecordOk

(* A case that keeps its list and its content.                               *)
LEMMA SameListsOk ==
    ASSUME RecordOk, NEW c \in CaseIds, NEW r \in Incident, cases' = [cases EXCEPT ![c] = r],
           r.observations = cases[c].observations, r.count = cases[c].count,
           r.text = cases[c].text, r.analysis = cases[c].analysis,
           UNCHANGED <<obs, members, followers>>
    PROVE  RecordOk' /\ Advances
<1>. HIDE DEF Incident
<1>1. /\ cases' \in Seq(Incident) /\ CaseIds' = CaseIds /\ cases'[c] = r
      /\ \A d \in CaseIds \ {c} : cases'[d] = cases[d]
  BY CaseMoves DEF RecordOk, RecordTypes
<1>2. \A d \in CaseIds :
          /\ cases'[d].observations = cases[d].observations /\ cases'[d].count = cases[d].count
          /\ cases'[d].text = cases[d].text /\ cases'[d].analysis = cases[d].analysis
  BY <1>1
<1>3. \A d \in CaseIds : Listed(d)' = Listed(d)
  BY <1>2 DEF Listed
<1>4. RecordTypes'
  BY <1>1 DEF RecordOk, RecordTypes
<1>5. LinksOk'
  BY <1>1, <1>2, <1>3 DEF RecordOk, LinksOk, ListOk
<1>6. PeopleOk'
  BY <1>1, <1>3, PeopleStay
<1>7. ReviewedAsWritten'
  <2>1. \A p \in DOMAIN obs' : obs'[p].analysis \in {0, obs'[p].text}
    BY DEF RecordOk, ReviewedAsWritten
  <2>. QED BY <1>1, <1>2, <2>1, ReviewStays
<1>8. Advances
  BY RecordFacts DEF Advances
<1>. QED BY <1>4, <1>5, <1>6, <1>7, <1>8 DEF RecordOk

(* What an approval and a verification write into the case.                  *)
LEMMA Consented ==
    ASSUME RecordOk, NEW c \in CaseIds, Approve(c) \/ \E u \in Residents : Verify(c, u)
    PROVE  /\ UNCHANGED <<obs, members, followers, jobs, runners, faults>>
           /\ \E r \in Incident :
                 /\ cases' = [cases EXCEPT ![c] = r]
                 /\ r.observations = cases[c].observations /\ r.count = cases[c].count
                 /\ r.text = cases[c].text /\ r.analysis = cases[c].analysis
<1>1. UNCHANGED <<obs, members, followers, jobs, runners, faults>>
  BY DEF Approve, Verify
<1>2. PICK b \in BOOLEAN : \/ cases' = [cases EXCEPT ![c].shared = b]
                           \/ cases' = [cases EXCEPT ![c].fixed = b]
  BY DEF Approve, Verify
<1>. DEFINE shared == [cases[c] EXCEPT !.shared = b]
            fixed == [cases[c] EXCEPT !.fixed = b]
<1>3. cases[c] \in Incident
  BY RecordFacts
<1>4. /\ shared \in Incident /\ shared.observations = cases[c].observations
      /\ shared.count = cases[c].count /\ shared.text = cases[c].text
      /\ shared.analysis = cases[c].analysis
  BY <1>3 DEF Incident
<1>5. /\ fixed \in Incident /\ fixed.observations = cases[c].observations
      /\ fixed.count = cases[c].count /\ fixed.text = cases[c].text
      /\ fixed.analysis = cases[c].analysis
  BY <1>3 DEF Incident
<1>6. cases' = [cases EXCEPT ![c] = shared] \/ cases' = [cases EXCEPT ![c] = fixed]
  BY <1>2
<1>. HIDE DEF shared, fixed, Incident
<1>. QED BY <1>1, <1>4, <1>5, <1>6

(* Neither touches the lists, what the cases tell or the observations.       *)
LEMMA ConsentOk ==
    ASSUME RecordOk, NEW c \in CaseIds, Approve(c) \/ \E u \in Residents : Verify(c, u)
    PROVE  RecordOk' /\ Advances
<1>. HIDE DEF Incident
<1>1. UNCHANGED <<obs, members, followers>>
  BY Consented
<1>2. PICK r \in Incident :
          /\ cases' = [cases EXCEPT ![c] = r]
          /\ r.observations = cases[c].observations /\ r.count = cases[c].count
          /\ r.text = cases[c].text /\ r.analysis = cases[c].analysis
  BY Consented
<1>. QED BY <1>1, <1>2, SameListsOk

(* There is at most one follower more, while there is room for one.          *)
LEMMA OneMoreFollows ==
    ASSUME CaseLinkingAssumption, NEW S, IsFiniteSet(S), Cardinality(S) <= MaxFollowers, NEW u,
           u \in S \/ Cardinality(S) < MaxFollowers
    PROVE  IsFiniteSet(S \cup {u}) /\ Cardinality(S \cup {u}) <= MaxFollowers
<1>1. CASE u \in S
  <2>1. S \cup {u} = S
    BY <1>1
  <2>. QED BY <2>1
<1>2. CASE u \notin S
  <2>1. Cardinality(S) < MaxFollowers
    BY <1>2
  <2>2. IsFiniteSet(S \cup {u}) /\ Cardinality(S \cup {u}) = Cardinality(S) + 1
    BY <1>2, FS_AddElement
  <2>3. Cardinality(S) \in Nat /\ MaxFollowers \in Nat
    BY FS_CardinalityType DEF CaseLinkingAssumption
  <2>. QED BY <2>1, <2>2, <2>3
<1>. QED BY <1>1, <1>2

(* Who follows on their own does so within the limit.                        *)
LEMMA FollowOk ==
    ASSUME CaseLinkingAssumption, RecordOk, NEW c \in CaseIds, NEW u \in Residents, Follow(c, u)
    PROVE  RecordOk' /\ Advances
<1>1. /\ followers' = followers \cup {<<c, u>>} /\ MayFollow(c, u)
      /\ UNCHANGED <<obs, cases, members>>
  BY DEF Follow
<1>2. CaseIds' = CaseIds /\ \A d \in CaseIds : Listed(d)' = Listed(d)
  BY <1>1 DEF CaseIds, Listed
<1>3. RecordTypes'
  BY <1>1, <1>2 DEF RecordOk, RecordTypes
<1>4. LinksOk'
  BY <1>1, <1>2 DEF RecordOk, LinksOk, ListOk
<1>5. PeopleOk'
  <2>1. ASSUME NEW d \in CaseIds
        PROVE  IsFiniteSet(FollowersOf(d)') /\ Cardinality(FollowersOf(d)') <= MaxFollowers
    <3>1. IsFiniteSet(FollowersOf(d)) /\ Cardinality(FollowersOf(d)) <= MaxFollowers
      BY DEF RecordOk, PeopleOk
    <3>2. CASE d = c
      <4>1. FollowersOf(d)' = FollowersOf(d) \cup {u}
        BY <1>1, <3>2 DEF FollowersOf
      <4>2. u \in FollowersOf(d) \/ Cardinality(FollowersOf(d)) < MaxFollowers
        BY <1>1, <3>2 DEF MayFollow
      <4>. QED BY <3>1, <4>1, <4>2, OneMoreFollows
    <3>3. CASE d # c
      <4>1. FollowersOf(d)' = FollowersOf(d)
        BY <1>1, <3>3 DEF FollowersOf
      <4>. QED BY <3>1, <4>1
    <3>. QED BY <3>2, <3>3
  <2>. QED BY <1>1, <1>2, <2>1 DEF RecordOk, PeopleOk
<1>6. ReviewedAsWritten'
  BY <1>1, <1>2 DEF RecordOk, ReviewedAsWritten
<1>7. Advances
  BY <1>1, RecordFacts DEF Advances
<1>. QED BY <1>3, <1>4, <1>5, <1>6, <1>7 DEF RecordOk

(* There are fewer followers afterwards.                                     *)
LEMMA UnfollowOk ==
    ASSUME CaseLinkingAssumption, RecordOk, NEW c \in CaseIds, NEW u \in Residents, Unfollow(c, u)
    PROVE  RecordOk' /\ Advances
<1>1. followers' = followers \ {<<c, u>>} /\ UNCHANGED <<obs, cases, members>>
  BY DEF Unfollow
<1>2. CaseIds' = CaseIds /\ \A d \in CaseIds : Listed(d)' = Listed(d)
  BY <1>1 DEF CaseIds, Listed
<1>3. RecordTypes'
  BY <1>1, <1>2 DEF RecordOk, RecordTypes
<1>4. LinksOk'
  BY <1>1, <1>2 DEF RecordOk, LinksOk, ListOk
<1>5. PeopleOk'
  <2>1. ASSUME NEW d \in CaseIds
        PROVE  IsFiniteSet(FollowersOf(d)') /\ Cardinality(FollowersOf(d)') <= MaxFollowers
    <3>1. FollowersOf(d)' \subseteq FollowersOf(d)
      BY <1>1 DEF FollowersOf
    <3>2. IsFiniteSet(FollowersOf(d)) /\ Cardinality(FollowersOf(d)) <= MaxFollowers
      BY DEF RecordOk, PeopleOk
    <3>3. /\ IsFiniteSet(FollowersOf(d)')
          /\ Cardinality(FollowersOf(d)') <= Cardinality(FollowersOf(d))
      BY <3>1, <3>2, FS_Subset
    <3>4. /\ Cardinality(FollowersOf(d)') \in Nat /\ Cardinality(FollowersOf(d)) \in Nat
          /\ MaxFollowers \in Nat
      BY <3>2, <3>3, FS_CardinalityType DEF CaseLinkingAssumption
    <3>. QED BY <3>2, <3>3, <3>4
  <2>. QED BY <1>1, <1>2, <2>1 DEF RecordOk, PeopleOk
<1>6. ReviewedAsWritten'
  BY <1>1, <1>2 DEF RecordOk, ReviewedAsWritten
<1>7. Advances
  BY <1>1, RecordFacts DEF Advances
<1>. QED BY <1>3, <1>4, <1>5, <1>6, <1>7 DEF RecordOk

(* An analysis is recorded of the text the observation has, since the        *)
(* revision that was asked about is still the present one.                   *)
LEMMA RecordAnalysisOk ==
    ASSUME CaseLinkingAssumption, RecordOk, NEW w \in Runners, RunnerOk(w), RecordAnalysis(w)
    PROVE  RecordOk' /\ Advances
<1>. DEFINE q == runners[w].job
            o == q.obs
            r == [obs[o] EXCEPT !.analysis = runners[w].seen]
<1>1. /\ runners[w].pc = "thinking" /\ q.kind = "analyze"
      /\ UNCHANGED <<cases, members, followers, released>>
      /\ \/ IsCurrent(q) /\ obs' = [obs EXCEPT ![q.obs].analysis = runners[w].seen]
         \/ UNCHANGED obs
  BY DEF RecordAnalysis
<1>2. o \in DOMAIN obs
  BY <1>1 DEF RunnerOk, RequestOk
<1>3. CASE UNCHANGED obs
  BY <1>1, <1>3, RecordStays DEF record
<1>4. CASE IsCurrent(q) /\ obs' = [obs EXCEPT ![q.obs].analysis = runners[w].seen]
  <2>1. runners[w].seen = obs[o].text
    BY <1>1, <1>4 DEF RunnerOk, IsCurrent
  <2>2. obs' = [obs EXCEPT ![o] = r]
    BY <1>4
  <2>3. PICK p \in DOMAIN obs : p = o
    BY <1>2
  <2>4. /\ r \in Observation /\ r.version = obs[p].version /\ r.incident = obs[p].incident
        /\ r.text = obs[p].text /\ r.analysis = obs[p].text /\ obs[p].text # 0
    <3>1. obs[p] \in Observation /\ obs[p].text \in 0 .. MaxRevision /\ obs[p].text # 0
      BY RecordFacts DEF CaseLinkingAssumption
    <3>. QED BY <2>1, <2>3, <3>1 DEF Observation
  <2>. HIDE DEF r, Observation
  <2>5. /\ DOMAIN obs' = DOMAIN obs /\ obs' \in [DOMAIN obs' -> Observation]
        /\ obs'[p] = r /\ \A i \in DOMAIN obs \ {p} : obs'[i] = obs[i]
    BY <2>2, <2>3, <2>4, ObservationMoves DEF RecordOk
  <2>6. \A i \in DOMAIN obs :
          /\ obs'[i].incident = obs[i].incident /\ obs'[i].version = obs[i].version
          /\ obs'[i].text = obs[i].text
    BY <2>4, <2>5
  <2>7. CaseIds' = CaseIds /\ \A c \in CaseIds : Listed(c)' = Listed(c)
    BY <1>1 DEF CaseIds, Listed
  <2>8. RecordTypes'
    BY <1>1, <2>5, <2>7 DEF RecordOk, RecordTypes
  <2>9. LinksOk'
    <3>1. \A c \in CaseIds : Listed(c)' = {i \in DOMAIN obs' : obs'[i].incident = c}
      BY <2>5, <2>6, <2>7 DEF RecordOk, LinksOk
    <3>. QED BY <1>1, <2>5, <2>6, <2>7, <3>1 DEF RecordOk, LinksOk, ListOk
  <2>10. PeopleOk'
    BY <1>1, <2>7, PeopleStay
  <2>11. ReviewedAsWritten'
    <3>1. \A i \in DOMAIN obs' : obs'[i].analysis \in {0, obs'[i].text}
      BY <2>4, <2>5 DEF RecordOk, ReviewedAsWritten
    <3>. QED BY <1>1, <2>6, <2>7, <3>1, ReviewStays
  <2>12. Advances
    <3>1. ASSUME NEW i \in DOMAIN obs
          PROVE  /\ i \in DOMAIN obs' /\ obs[i].version <= obs'[i].version
                 /\ obs'[i].text = obs[i].text /\ (obs[i].analysis # 0 => obs'[i].analysis # 0)
      BY <2>4, <2>5, <2>6, RecordFacts
    <3>. QED BY <3>1 DEF Advances
  <2>. QED BY <2>8, <2>9, <2>10, <2>11, <2>12 DEF RecordOk
<1>. QED BY <1>1, <1>3, <1>4

(* An observation that joins a case brings its author.                       *)
LEMMA JoinedOk ==
    ASSUME CaseLinkingAssumption, RecordOk, NEW o \in DOMAIN obs, obs[o].incident = 0,
           NEW c \in Nat, c # 0, Joined(o, c)
    PROVE  /\ DOMAIN obs' = DOMAIN obs /\ obs' \in [DOMAIN obs' -> Observation]
           /\ obs'[o].incident = c
           /\ \A p \in DOMAIN obs \ {o} : obs'[p] = obs[p]
           /\ \A p \in DOMAIN obs :
                 /\ obs'[p].version = obs[p].version /\ obs'[p].text = obs[p].text
                 /\ obs'[p].analysis = obs[p].analysis
                /\ Author[o] \in Residents
           /\ members' = members \cup {<<c, Author[o]>>}
           /\ followers' = followers \cup {<<c, Author[o]>>}
           /\ Advances
<1>. DEFINE r == [obs[o] EXCEPT !.incident = c]
<1>1. /\ obs' = [obs EXCEPT ![o] = r]
      /\ members' = members \cup {<<c, Author[o]>>}
      /\ followers' = followers \cup {<<c, Author[o]>>}
  BY DEF Joined
<1>2. /\ r \in Observation /\ r.version = obs[o].version /\ r.text = obs[o].text
      /\ r.analysis = obs[o].analysis /\ r.incident = c
  <2>1. obs[o] \in Observation
    BY RecordFacts
  <2>. QED BY <2>1 DEF Observation
<1>. HIDE DEF r, Observation
<1>3. /\ DOMAIN obs' = DOMAIN obs /\ obs' \in [DOMAIN obs' -> Observation]
      /\ obs'[o] = r /\ \A p \in DOMAIN obs \ {o} : obs'[p] = obs[p]
  BY <1>1, <1>2, ObservationMoves DEF RecordOk
<1>4. \A p \in DOMAIN obs :
          /\ obs'[p].version = obs[p].version /\ obs'[p].text = obs[p].text
          /\ obs'[p].analysis = obs[p].analysis
  BY <1>2, <1>3
<1>5. Author[o] \in Residents
  BY RecordFacts DEF CaseLinkingAssumption
<1>6. Advances
  BY <1>3, <1>4, RecordFacts DEF Advances
<1>. QED BY <1>1, <1>2, <1>3, <1>4, <1>5, <1>6

(* What joins a case is listed once, its author is a member and follows, and *)
(* the limit of followers holds.                                             *)
LEMMA LinkToCaseOk ==
    ASSUME CaseLinkingAssumption, RecordOk, NEW w \in Runners,
           NEW o \in DOMAIN obs, obs[o].incident = 0, NEW c, LinkToCase(w, o, c)
    PROVE  RecordOk' /\ Advances
<1>. DEFINE r == Grown(cases[c], o)
            u == Author[o]
<1>1. /\ c \in CaseIds /\ MayFollow(c, u) /\ cases' = [cases EXCEPT ![c] = r] /\ Joined(o, c)
  BY DEF LinkToCase, Candidates
<1>2. /\ cases[c] \in Incident /\ ListOk(cases[c]) /\ c \in Nat /\ c # 0
      /\ o \in Observations /\ o \notin Listed(c)
  BY <1>1, RecordFacts DEF RecordOk, LinksOk
<1>3. /\ r \in Incident /\ ListOk(r) /\ r.observations[1] = cases[c].observations[1]
      /\ ToSet(r.observations) = Listed(c) \cup {o}
      /\ r.text = cases[c].text /\ r.analysis = cases[c].analysis
  BY <1>2, GrownOk DEF Listed
<1>. HIDE DEF r, Observation, Incident
<1>4. /\ cases' \in Seq(Incident) /\ CaseIds' = CaseIds /\ cases'[c] = r
      /\ \A d \in CaseIds \ {c} : cases'[d] = cases[d]
  BY <1>1, <1>3, CaseMoves DEF RecordOk, RecordTypes
<1>5. /\ DOMAIN obs' = DOMAIN obs /\ obs' \in [DOMAIN obs' -> Observation]
      /\ obs'[o].incident = c
      /\ \A p \in DOMAIN obs \ {o} : obs'[p] = obs[p]
      /\ \A p \in DOMAIN obs :
            obs'[p].text = obs[p].text /\ obs'[p].analysis = obs[p].analysis
      /\ u \in Residents
      /\ members' = members \cup {<<c, u>>} /\ followers' = followers \cup {<<c, u>>}
      /\ Advances
  BY <1>1, <1>2, JoinedOk
<1>6. /\ Listed(c)' = Listed(c) \cup {o}
      /\ \A d \in CaseIds \ {c} : Listed(d)' = Listed(d)
  BY <1>3, <1>4 DEF Listed
<1>7. RecordTypes'
  BY <1>1, <1>4, <1>5 DEF RecordOk, RecordTypes
<1>8. LinksOk'
  <2>1. \A p \in DOMAIN obs' : obs'[p].incident \in {0} \cup CaseIds'
    BY <1>1, <1>4, <1>5 DEF RecordOk, LinksOk
  <2>2. ASSUME NEW d \in CaseIds PROVE Listed(d)' = {p \in DOMAIN obs' : obs'[p].incident = d}
    <3>1. Listed(d) = {p \in DOMAIN obs : obs[p].incident = d} /\ d # 0
      BY RecordFacts DEF RecordOk, LinksOk
    <3>2. CASE d = c
      BY <1>5, <1>6, <3>1, <3>2
    <3>3. CASE d # c
      BY <1>5, <1>6, <3>1, <3>3
    <3>. QED BY <3>2, <3>3
  <2>3. \A d \in CaseIds : ListOk(cases'[d])
    BY <1>3, <1>4 DEF RecordOk, LinksOk
  <2>. QED BY <1>4, <2>1, <2>2, <2>3 DEF LinksOk, ListOk
<1>9. PeopleOk'
  <2>1. ASSUME NEW d \in CaseIds, NEW v \in Residents
        PROVE  <<d, v>> \in members' <=> \E p \in Listed(d)' : Author[p] = v
    <3>1. <<d, v>> \in members <=> \E p \in Listed(d) : Author[p] = v
      BY DEF RecordOk, PeopleOk
    <3>2. CASE d = c
      BY <1>5, <1>6, <3>1, <3>2
    <3>3. CASE d # c
      BY <1>5, <1>6, <3>1, <3>3
    <3>. QED BY <3>2, <3>3
  <2>2. \A d \in CaseIds \ {c} : FollowersOf(d)' = FollowersOf(d)
    BY <1>5 DEF FollowersOf
  <2>3. FollowersOf(c)' = FollowersOf(c) \cup {u}
    BY <1>5 DEF FollowersOf
  <2>4. IsFiniteSet(FollowersOf(c)) /\ Cardinality(FollowersOf(c)) <= MaxFollowers
    BY <1>1 DEF RecordOk, PeopleOk
  <2>5. IsFiniteSet(FollowersOf(c)') /\ Cardinality(FollowersOf(c)') <= MaxFollowers
    BY <1>1, <2>3, <2>4, OneMoreFollows DEF MayFollow
  <2>6. ASSUME NEW d \in CaseIds
        PROVE  IsFiniteSet(FollowersOf(d)') /\ Cardinality(FollowersOf(d)') <= MaxFollowers
    <3>1. CASE d = c
      BY <2>5, <3>1
    <3>2. CASE d # c
      BY <2>2, <3>2 DEF RecordOk, PeopleOk
    <3>. QED BY <3>1, <3>2
  <2>. QED BY <1>4, <2>1, <2>6 DEF PeopleOk
<1>10. ReviewedAsWritten'
  <2>1. \A p \in DOMAIN obs' : obs'[p].analysis \in {0, obs'[p].text}
    BY <1>5 DEF RecordOk, ReviewedAsWritten
  <2>2. \A d \in CaseIds :
          /\ cases'[d].observations[1] = cases[d].observations[1]
          /\ cases'[d].text = cases[d].text /\ cases'[d].analysis = cases[d].analysis
    BY <1>3, <1>4
  <2>. QED BY <1>4, <1>5, <2>1, <2>2, ReviewStays
<1>. QED BY <1>5, <1>7, <1>8, <1>9, <1>10 DEF RecordOk

(* A case begins with an observation whose present text has been analysed    *)
(* and is complete.                                                          *)
LEMMA CreateCaseOk ==
    ASSUME CaseLinkingAssumption, RecordOk, NEW w \in Runners,
           NEW o \in DOMAIN obs, obs[o].incident = 0, CreateCase(w, o),
           obs[o].analysis # 0, <<o, obs[o].text>> \notin Vague
    PROVE  RecordOk' /\ Advances
<1>0. PICK c \in Nat : c = Len(cases) + 1
  BY LenProperties DEF RecordOk, RecordTypes
<1>. DEFINE r == CaseOf(o)
            u == Author[o]
<1>1. cases' = Append(cases, r) /\ Joined(o, c)
  BY <1>0 DEF CreateCase
<1>2. o \in Observations /\ obs[o] \in Observation
  BY RecordFacts
<1>3. /\ r \in Incident /\ ListOk(r) /\ r.observations[1] = o
      /\ ToSet(r.observations) = {o} /\ r.text = obs[o].text /\ r.analysis = obs[o].analysis
  BY <1>2, CaseOfOk
<1>. HIDE DEF r, Observation, Incident
<1>4. /\ cases' \in Seq(Incident) /\ CaseIds' = CaseIds \cup {c} /\ c \notin CaseIds
      /\ cases'[c] = r /\ c # 0 /\ c \in Nat /\ \A d \in CaseIds : cases'[d] = cases[d]
  BY <1>0, <1>1, <1>3, CaseBegins DEF RecordOk, RecordTypes
<1>5. /\ DOMAIN obs' = DOMAIN obs /\ obs' \in [DOMAIN obs' -> Observation]
      /\ obs'[o].incident = c
      /\ \A p \in DOMAIN obs \ {o} : obs'[p] = obs[p]
      /\ \A p \in DOMAIN obs :
            obs'[p].text = obs[p].text /\ obs'[p].analysis = obs[p].analysis
      /\ u \in Residents
      /\ members' = members \cup {<<c, u>>} /\ followers' = followers \cup {<<c, u>>}
      /\ Advances
  BY <1>1, <1>4, JoinedOk
<1>6. Listed(c)' = {o} /\ \A d \in CaseIds : Listed(d)' = Listed(d)
  BY <1>3, <1>4 DEF Listed
<1>7. RecordTypes'
  BY <1>4, <1>5 DEF RecordOk, RecordTypes
<1>8. \A p \in DOMAIN obs : obs[p].incident \in {0} \cup CaseIds
  BY DEF RecordOk, LinksOk
<1>9. LinksOk'
  <2>1. \A p \in DOMAIN obs' : obs'[p].incident \in {0} \cup CaseIds'
    BY <1>4, <1>5, <1>8
  <2>2. ASSUME NEW d \in CaseIds PROVE Listed(d)' = {p \in DOMAIN obs' : obs'[p].incident = d}
    <3>1. Listed(d) = {p \in DOMAIN obs : obs[p].incident = d} /\ d # 0 /\ d # c
      BY <1>4, RecordFacts DEF RecordOk, LinksOk
    <3>. QED BY <1>5, <1>6, <3>1
  <2>3. Listed(c)' = {p \in DOMAIN obs' : obs'[p].incident = c}
    BY <1>4, <1>5, <1>6, <1>8
  <2>4. \A d \in CaseIds' : ListOk(cases'[d])
    BY <1>3, <1>4 DEF RecordOk, LinksOk
  <2>. QED BY <1>4, <2>1, <2>2, <2>3, <2>4 DEF LinksOk, ListOk
<1>10. PeopleOk'
  <2>1. ASSUME NEW d \in CaseIds', NEW v \in Residents
        PROVE  <<d, v>> \in members' <=> \E p \in Listed(d)' : Author[p] = v
    <3>1. CASE d = c
      <4>1. <<c, v>> \notin members
        BY <1>4 DEF RecordOk, RecordTypes
      <4>. QED BY <1>5, <1>6, <3>1, <4>1
    <3>2. CASE d \in CaseIds
      <4>1. d # c /\ Listed(d)' = Listed(d)
        BY <1>4, <1>6, <3>2
      <4>. QED BY <1>5, <3>2, <4>1 DEF RecordOk, PeopleOk
    <3>. QED BY <1>4, <3>1, <3>2
  <2>2. FollowersOf(c)' = {u}
    <3>1. \A v \in Residents : <<c, v>> \notin followers
      BY <1>4 DEF RecordOk, RecordTypes
    <3>. QED BY <1>5, <3>1 DEF FollowersOf
  <2>3. ASSUME NEW d \in CaseIds'
        PROVE  IsFiniteSet(FollowersOf(d)') /\ Cardinality(FollowersOf(d)') <= MaxFollowers
    <3>1. CASE d = c
      <4>1. IsFiniteSet({u}) /\ Cardinality({u}) = 1
        BY FS_Singleton
      <4>2. 1 <= MaxFollowers
        BY DEF CaseLinkingAssumption
      <4>. QED BY <2>2, <3>1, <4>1, <4>2
    <3>2. CASE d \in CaseIds
      <4>1. FollowersOf(d)' = FollowersOf(d)
        BY <1>4, <1>5, <3>2 DEF FollowersOf
      <4>. QED BY <3>2, <4>1 DEF RecordOk, PeopleOk
    <3>. QED BY <1>4, <3>1, <3>2
  <2>. QED BY <2>1, <2>3 DEF PeopleOk
<1>11. ReviewedAsWritten'
  <2>1. \A p \in DOMAIN obs' : obs'[p].analysis \in {0, obs'[p].text}
    BY <1>5 DEF RecordOk, ReviewedAsWritten
  <2>2. ASSUME NEW d \in CaseIds'
        PROVE  LET first == cases'[d].observations[1]
               IN  /\ cases'[d].text = obs'[first].text /\ cases'[d].analysis = obs'[first].text
                   /\ <<first, obs'[first].text>> \notin Vague
    <3>1. CASE d = c
      <4>1. obs[o].analysis = obs[o].text
        BY DEF RecordOk, ReviewedAsWritten
      <4>2. /\ cases'[d] = r /\ r.observations[1] = o
            /\ r.text = obs[o].text /\ r.analysis = obs[o].analysis
        BY <1>3, <1>4, <3>1
      <4>3. obs'[o].text = obs[o].text
        BY <1>5
      <4>. QED BY <4>1, <4>2, <4>3
    <3>2. CASE d \in CaseIds
      <4>. DEFINE first == cases[d].observations[1]
      <4>1. cases'[d] = cases[d] /\ first \in DOMAIN obs
        BY <1>4, <3>2, RecordFacts
      <4>2. /\ cases[d].text = obs[first].text /\ cases[d].analysis = obs[first].text
            /\ <<first, obs[first].text>> \notin Vague
        BY <3>2 DEF RecordOk, ReviewedAsWritten
      <4>3. obs'[first].text = obs[first].text
        BY <1>5, <4>1
      <4>. QED BY <4>1, <4>2, <4>3
    <3>. QED BY <1>4, <3>1, <3>2
  <2>. QED BY <2>1, <2>2 DEF ReviewedAsWritten
<1>. QED BY <1>5, <1>7, <1>9, <1>10, <1>11 DEF RecordOk

-------------------------------------------------------------------------------
(* The requests *)

(* What has been asked about a revision stays true of it, and a model that   *)
(* has seen the present text has seen what was asked about.                  *)
LEMMA RequestKept ==
    ASSUME RecordOk, RecordOk', Advances, NEW q \in Request, RequestOk(q)
    PROVE  /\ RequestOk(q)'
           /\ q.version = obs'[q.obs].version =>
                 q.version = obs[q.obs].version /\ obs'[q.obs].text = obs[q.obs].text
<1>. DEFINE o == q.obs
<1>1. /\ o \in DOMAIN obs /\ q.version <= obs[o].version
      /\ q.kind = "decide" /\ q.version = obs[o].version =>
            obs[o].analysis # 0 /\ <<o, obs[o].text>> \notin Vague
  BY DEF RequestOk
<1>2. /\ o \in DOMAIN obs' /\ obs[o].version <= obs'[o].version
      /\ obs'[o].version = obs[o].version =>
            obs'[o].text = obs[o].text /\ (obs[o].analysis # 0 => obs'[o].analysis # 0)
  BY <1>1 DEF Advances
<1>3. q.version \in Nat /\ obs[o].version \in Nat /\ obs'[o].version \in Nat
  <2>1. q.version \in Nat
    BY DEF Request
  <2>2. obs[o].version \in Nat
    BY <1>1, RecordFacts
  <2>3. obs'[o].version \in Nat
    BY <1>2 DEF RecordOk, RecordTypes, Observation
  <2>. QED BY <2>1, <2>2, <2>3
<1>4. q.version = obs'[o].version => q.version = obs[o].version
  BY <1>1, <1>2, <1>3
<1>5. q.version <= obs'[o].version
  BY <1>1, <1>2, <1>3
<1>. QED BY <1>1, <1>2, <1>4, <1>5 DEF RequestOk

(* A step has to answer for the requests and the runners that it changes.    *)
LEMMA RequestsMove ==
    ASSUME RecordOk, RecordOk', JobTypes, RequestsOk, Advances,
           \A q \in DOMAIN jobs' : q \in DOMAIN jobs \/ RequestOk(q)',
           \A v \in Runners : runners'[v] = runners[v] \/ RunnerOk(v)'
    PROVE  RequestsOk'
<1>1. ASSUME NEW q \in DOMAIN jobs' PROVE RequestOk(q)'
  <2>1. CASE q \in DOMAIN jobs
    BY <2>1, RequestKept DEF JobTypes, RequestsOk
  <2>2. CASE RequestOk(q)'
    BY <2>2
  <2>. QED BY <2>1, <2>2
<1>2. ASSUME NEW v \in Runners PROVE RunnerOk(v)'
  <2>1. CASE runners'[v] = runners[v] /\ runners[v].pc # "idle"
    <3>1. PICK q \in Request : q = runners[v].job
      BY <2>1 DEF JobTypes
    <3>2. /\ RequestOk(q)
          /\ runners[v].pc = "thinking" /\ q.kind = "analyze" /\ q.version = obs[q.obs].version =>
                runners[v].seen = obs[q.obs].text
      BY <2>1, <3>1 DEF RequestsOk, RunnerOk
    <3>3. /\ RequestOk(q)'
          /\ q.version = obs'[q.obs].version =>
                q.version = obs[q.obs].version /\ obs'[q.obs].text = obs[q.obs].text
      BY <3>2, RequestKept
    <3>4. runners'[v].pc = "thinking" /\ q.kind = "analyze" /\ q.version = obs'[q.obs].version =>
              runners'[v].seen = obs'[q.obs].text
      BY <2>1, <3>2, <3>3
    <3>. QED BY <2>1, <3>1, <3>3, <3>4 DEF RunnerOk
  <2>2. CASE runners'[v] = runners[v] /\ runners[v].pc = "idle"
    BY <2>2 DEF RunnerOk
  <2>3. CASE RunnerOk(v)'
    BY <2>3
  <2>. QED BY <2>1, <2>2, <2>3
<1>. QED BY <1>1, <1>2 DEF RequestsOk

(* Residents' commands that enqueue nothing forget requests at most.         *)
LEMMA CommandInv ==
    ASSUME CaseLinkingInv, RecordOk', Advances, UNCHANGED <<runners, faults>>,
           UNCHANGED jobs \/ \E o \in Observations : jobs' = Repeatable(o)
    PROVE  CaseLinkingInv'
<1>. HIDE DEF JobRecord, RunnerRecord, Request
<1>1. RecordOk /\ JobTypes /\ RequestsOk
  BY DEF CaseLinkingInv
<1>2. DOMAIN jobs' \subseteq DOMAIN jobs /\ jobs' \in [DOMAIN jobs' -> JobRecord]
  <2>1. CASE UNCHANGED jobs
    BY <1>1, <2>1 DEF JobTypes
  <2>2. ASSUME NEW o \in Observations, jobs' = Repeatable(o)
        PROVE  DOMAIN jobs' \subseteq DOMAIN jobs /\ jobs' \in [DOMAIN jobs' -> JobRecord]
    BY <1>1, <2>2 DEF Repeatable, Restrict, JobTypes
  <2>. QED BY <2>1, <2>2
<1>3. JobTypes'
  BY <1>1, <1>2 DEF JobTypes
<1>4. RequestsOk'
  BY <1>1, <1>2, RequestsMove
<1>. QED BY <1>3, <1>4 DEF CaseLinkingInv

(* A request is enqueued about the present revision.                         *)
LEMMA EnqueueInv ==
    ASSUME CaseLinkingInv, NEW q \in Request, RequestOk(q), Enqueue(q)
    PROVE  CaseLinkingInv'
<1>. DEFINE r == [status |-> "live", owner |-> None]
<1>1. RecordOk /\ JobTypes /\ RequestsOk
  BY DEF CaseLinkingInv
<1>2. jobs' = Put(jobs, q, r) /\ UNCHANGED record /\ UNCHANGED <<runners, faults>>
  BY DEF Enqueue
<1>3. RecordOk' /\ Advances
  BY <1>1, <1>2, RecordStays
<1>4. r \in JobRecord
  BY DEF JobRecord
<1>. HIDE DEF r, JobRecord, RunnerRecord, Request
<1>5. jobs' \in [DOMAIN jobs \cup {q} -> JobRecord]
  BY <1>1, <1>2, <1>4 DEF Put, JobTypes
<1>6. DOMAIN jobs' = DOMAIN jobs \cup {q}
  BY <1>5
<1>7. JobTypes'
  BY <1>1, <1>2, <1>5, <1>6 DEF JobTypes
<1>8. RequestOk(q)'
  BY <1>1, <1>3, RequestKept
<1>9. RequestsOk'
  BY <1>1, <1>2, <1>3, <1>6, <1>8, RequestsMove
<1>. QED BY <1>3, <1>7, <1>9 DEF CaseLinkingInv

(* An analysis may be asked for of any observation.                          *)
LEMMA StartAnalysisInv ==
    ASSUME CaseLinkingInv, NEW o \in Observations, StartAnalysis(o)
    PROVE  CaseLinkingInv'
<1>. DEFINE q == [kind |-> "analyze", obs |-> o, version |-> obs[o].version, case |-> 0]
<1>1. o \in DOMAIN obs /\ Enqueue(q) /\ RecordOk
  BY DEF StartAnalysis, CaseLinkingInv
<1>2. obs[o].version \in 1 .. MaxRevision /\ obs[o].version <= obs[o].version
  BY <1>1, RecordFacts DEF Observation
<1>3. q \in Request /\ q.obs = o /\ q.version = obs[o].version /\ q.kind = "analyze"
  BY <1>2 DEF Request
<1>. HIDE DEF q
<1>4. RequestOk(q)
  BY <1>1, <1>2, <1>3 DEF RequestOk
<1>. QED BY <1>1, <1>3, <1>4, EnqueueInv

(* A decision only of one whose text is analysed and complete.               *)
LEMMA DecideInv ==
    ASSUME CaseLinkingInv, NEW o \in Observations, NEW c \in {0} \cup CaseIds, Decide(o, c)
    PROVE  CaseLinkingInv'
<1>. DEFINE q == [kind |-> "decide", obs |-> o, version |-> obs[o].version, case |-> c]
<1>1. /\ o \in DOMAIN obs /\ Enqueue(q) /\ RecordOk
      /\ obs[o].analysis # 0 /\ <<o, obs[o].text>> \notin Vague
  BY DEF Decide, CaseLinkingInv
<1>2. obs[o].version \in 1 .. MaxRevision /\ obs[o].version <= obs[o].version /\ c \in Nat
  BY <1>1, RecordFacts DEF Observation
<1>3. q \in Request /\ q.obs = o /\ q.version = obs[o].version
  BY <1>2 DEF Request
<1>. HIDE DEF q
<1>4. RequestOk(q)
  BY <1>1, <1>2, <1>3 DEF RequestOk
<1>. QED BY <1>1, <1>3, <1>4, EnqueueInv

-------------------------------------------------------------------------------
(* The runners *)

(* A step of runner w: it becomes r.                                         *)
RunnerMove(w, r) ==
    /\ r \in RunnerRecord /\ runners' = [runners EXCEPT ![w] = r]
    /\ r.pc # "idle" => r.job \in Request

(* It has to answer for what the runner then has in memory.                  *)
LEMMA RunnerInv ==
    ASSUME CaseLinkingInv, RecordOk', Advances, NEW w \in Runners, NEW r, RunnerMove(w, r),
           DOMAIN jobs' \subseteq DOMAIN jobs, jobs' \in [DOMAIN jobs' -> JobRecord],
           faults' \in 0 .. MaxFaults,
           r.pc # "idle" =>
               /\ RequestOk(r.job)
               /\ r.pc = "thinking" /\ r.job.kind = "analyze" =>
                     UNCHANGED obs /\ r.seen = obs[r.job.obs].text
    PROVE  CaseLinkingInv'
<1>. HIDE DEF JobRecord, RunnerRecord, Request
<1>1. RecordOk /\ JobTypes /\ RequestsOk
  BY DEF CaseLinkingInv
<1>2. /\ runners' \in [Runners -> RunnerRecord] /\ runners'[w] = r
      /\ \A v \in Runners \ {w} : runners'[v] = runners[v]
  BY <1>1 DEF RunnerMove, JobTypes
<1>3. JobTypes'
  BY <1>1, <1>2 DEF RunnerMove, JobTypes
<1>4. RunnerOk(w)'
  <2>1. CASE r.pc = "idle"
    BY <1>2, <2>1 DEF RunnerOk
  <2>2. CASE r.pc # "idle"
    <3>1. r.job \in Request /\ RequestOk(r.job)
      BY <2>2 DEF RunnerMove
    <3>2. PICK q \in Request : q = r.job
      BY <3>1
    <3>3. RequestOk(q)'
      BY <1>1, <3>1, <3>2, RequestKept
    <3>4. r.pc = "thinking" /\ q.kind = "analyze" => r.seen = obs'[q.obs].text
      BY <2>2, <3>2
    <3>. QED BY <1>2, <3>2, <3>3, <3>4 DEF RunnerOk
  <2>. QED BY <2>1, <2>2
<1>5. RequestsOk'
  BY <1>1, <1>2, <1>4, RequestsMove
<1>. QED BY <1>3, <1>5 DEF CaseLinkingInv

(* What runner w has in memory, and its record after Goto.                   *)
LEMMA RunnerFacts ==
    ASSUME CaseLinkingInv, NEW w \in Runners
    PROVE  /\ RecordOk /\ JobTypes /\ RequestsOk /\ RunnerOk(w)
           /\ runners[w] \in RunnerRecord /\ faults \in 0 .. MaxFaults
           /\ DOMAIN jobs \subseteq Request /\ jobs \in [DOMAIN jobs -> JobRecord]
           /\ runners[w].pc # "idle" => runners[w].job \in Request /\ RequestOk(runners[w].job)
  BY DEF CaseLinkingInv, JobTypes, RequestsOk, RunnerOk

(* A busy runner that has nothing left to write.                             *)
LEMMA GotoInv ==
    ASSUME CaseLinkingAssumption, CaseLinkingInv, RecordOk', Advances, NEW w \in Runners,
           NEW pc \in {"thinking", "done", "raised"}, Goto(w, pc), runners[w].pc # "idle",
           pc = "thinking" => runners[w].job.kind = "decide", UNCHANGED <<jobs, faults>>
    PROVE  CaseLinkingInv'
<1>. DEFINE r == [runners[w] EXCEPT !.pc = pc, !.seen = 0]
<1>1. /\ runners[w] \in RunnerRecord /\ faults' \in 0 .. MaxFaults
      /\ DOMAIN jobs' \subseteq DOMAIN jobs /\ jobs' \in [DOMAIN jobs' -> JobRecord]
      /\ runners[w].job \in Request /\ RequestOk(runners[w].job)
      /\ runners \in [Runners -> RunnerRecord]
  BY RunnerFacts DEF JobTypes
<1>2. r \in RunnerRecord /\ r.pc = pc /\ r.job = runners[w].job
  <2>1. 0 \in 0 .. MaxRevision
    BY DEF CaseLinkingAssumption
  <2>. HIDE DEF Request
  <2>. QED BY <1>1, <2>1 DEF RunnerRecord
<1>3. runners' = [runners EXCEPT ![w] = r]
  BY <1>1 DEF Goto
<1>. HIDE DEF r, RunnerRecord, JobRecord, Request
<1>4. RunnerMove(w, r)
  BY <1>1, <1>2, <1>3 DEF RunnerMove
<1>5. r.pc # "idle" =>
        /\ RequestOk(r.job)
        /\ r.pc = "thinking" /\ r.job.kind = "analyze" =>
              UNCHANGED obs /\ r.seen = obs[r.job.obs].text
  BY <1>1, <1>2
<1>. QED BY <1>1, <1>4, <1>5, RunnerInv

(* claim_job: the runner remembers the request it has claimed.               *)
LEMMA ClaimInv ==
    ASSUME CaseLinkingAssumption, CaseLinkingInv, NEW w \in Runners, NEW q \in DOMAIN jobs,
           Claim(w, q)
    PROVE  CaseLinkingInv'
<1>. DEFINE r == [pc |-> "claimed", job |-> q, seen |-> 0]
<1>1. /\ RecordOk /\ RequestsOk /\ UNCHANGED record
      /\ DOMAIN jobs \subseteq Request /\ jobs \in [DOMAIN jobs -> JobRecord]
      /\ faults \in 0 .. MaxFaults /\ MaxFaults \in Nat /\ 0 \in 0 .. MaxRevision
  BY RunnerFacts DEF Claim, CaseLinkingAssumption
<1>2. RecordOk' /\ Advances
  BY <1>1, RecordStays
<1>3. q \in Request /\ RequestOk(q)
  BY <1>1 DEF RequestsOk
<1>4. r \in RunnerRecord
  <2>. HIDE DEF Request
  <2>. QED BY <1>1, <1>3 DEF RunnerRecord
<1>5. jobs' = [jobs EXCEPT ![q].owner = w] /\ runners' = [runners EXCEPT ![w] = r]
  BY DEF Claim
<1>6. jobs' \in [DOMAIN jobs -> JobRecord]
  BY <1>1, <1>5 DEF JobRecord
<1>7. faults' \in 0 .. MaxFaults
  BY <1>1 DEF Claim, Fault
<1>8. r.pc = "claimed" /\ r.job = q
  OBVIOUS
<1>. HIDE DEF r, RunnerRecord, JobRecord, Request
<1>9. RunnerMove(w, r)
  BY <1>3, <1>4, <1>5, <1>8 DEF RunnerMove
<1>. QED BY <1>2, <1>3, <1>6, <1>7, <1>8, <1>9, RunnerInv

(* analyze, first transaction: the model will read the present text.         *)
LEMMA ReadForAnalysisInv ==
    ASSUME CaseLinkingAssumption, CaseLinkingInv, NEW w \in Runners, ReadForAnalysis(w)
    PROVE  CaseLinkingInv'
<1>1. /\ RecordOk /\ UNCHANGED record /\ runners[w].pc # "idle"
      /\ runners[w] \in RunnerRecord /\ faults' \in 0 .. MaxFaults
      /\ DOMAIN jobs' \subseteq DOMAIN jobs /\ jobs' \in [DOMAIN jobs' -> JobRecord]
      /\ runners \in [Runners -> RunnerRecord]
  BY RunnerFacts DEF JobTypes, ReadForAnalysis
<1>2. PICK q \in Request : q = runners[w].job /\ RequestOk(q)
  BY <1>1, RunnerFacts
<1>3. RecordOk' /\ Advances /\ UNCHANGED obs
  BY <1>1, RecordStays DEF record
<1>. DEFINE r == [runners[w] EXCEPT !.pc = "thinking", !.seen = obs[q.obs].text]
<1>4. obs[q.obs].text \in 0 .. MaxRevision
  <2>1. obs[q.obs] \in Observation
    BY <1>1, <1>2, RecordFacts DEF RequestOk
  <2>2. obs[q.obs].text \in 1 .. MaxRevision
    BY <2>1 DEF Observation
  <2>. QED BY <2>2 DEF CaseLinkingAssumption
<1>5. r \in RunnerRecord /\ r.pc = "thinking" /\ r.job = q /\ r.seen = obs[q.obs].text
  <2>. HIDE DEF Request
  <2>. QED BY <1>1, <1>2, <1>4 DEF RunnerRecord
<1>6. runners' = [runners EXCEPT ![w] = r]
  BY <1>1, <1>2 DEF ReadForAnalysis
<1>. HIDE DEF r, RunnerRecord, JobRecord, Request
<1>7. RunnerMove(w, r)
  BY <1>2, <1>5, <1>6 DEF RunnerMove
<1>8. r.pc # "idle" =>
        /\ RequestOk(r.job)
        /\ r.pc = "thinking" /\ r.job.kind = "analyze" =>
              UNCHANGED obs /\ r.seen = obs[r.job.obs].text
  BY <1>2, <1>3, <1>5
<1>. QED BY <1>1, <1>3, <1>7, <1>8, RunnerInv

(* analyze, second transaction.                                              *)
LEMMA RecordAnalysisInv ==
    ASSUME CaseLinkingAssumption, CaseLinkingInv, NEW w \in Runners, RecordAnalysis(w)
    PROVE  CaseLinkingInv'
<1>1. RecordOk /\ RunnerOk(w) /\ runners[w].pc # "idle" /\ UNCHANGED <<jobs, faults>>
  BY RunnerFacts DEF RecordAnalysis
<1>2. RecordOk' /\ Advances
  BY <1>1, RunnerFacts, RecordAnalysisOk
<1>3. Goto(w, "done") \/ Goto(w, "raised")
  BY DEF RecordAnalysis
<1>4. CASE Goto(w, "done")
  BY <1>1, <1>2, <1>4, GotoInv
<1>5. CASE Goto(w, "raised")
  BY <1>1, <1>2, <1>5, GotoInv
<1>. QED BY <1>3, <1>4, <1>5

(* decide, first transaction.                                                *)
LEMMA CheckDecisionInv ==
    ASSUME CaseLinkingAssumption, CaseLinkingInv, NEW w \in Runners, CheckDecision(w)
    PROVE  CaseLinkingInv'
<1>1. /\ RecordOk /\ runners[w].pc # "idle" /\ runners[w].job.kind = "decide"
      /\ UNCHANGED record /\ UNCHANGED <<jobs, faults>>
  BY RunnerFacts DEF CheckDecision
<1>2. RecordOk' /\ Advances
  BY <1>1, RecordStays
<1>3. PICK pc \in {"thinking", "done", "raised"} : Goto(w, pc)
  BY DEF CheckDecision
<1>. QED BY <1>1, <1>2, <1>3, GotoInv

(* decide, last transaction: the revision of the request is the present one, *)
(* so that its analysis is complete.                                         *)
LEMMA RecordDecisionOk ==
    ASSUME CaseLinkingAssumption, CaseLinkingInv, NEW w \in Runners, RecordDecision(w)
    PROVE  RecordOk' /\ Advances
<1>1. RecordOk /\ runners[w].pc # "idle" /\ runners[w].job.kind = "decide"
  BY RunnerFacts DEF RecordDecision
<1>2. PICK q \in Request : q = runners[w].job /\ RequestOk(q)
  BY <1>1, RunnerFacts
<1>3. /\ q.obs \in DOMAIN obs
      /\ q.version = obs[q.obs].version =>
            obs[q.obs].analysis # 0 /\ <<q.obs, obs[q.obs].text>> \notin Vague
  BY <1>1, <1>2 DEF RequestOk
<1>4. ~IsLinked(w) => obs[q.obs].incident = 0
  BY <1>2, <1>3 DEF IsLinked, Linked
<1>5. CASE Refuse(w, "done") \/ Refuse(w, "raised")
  BY <1>1, <1>5, RecordStays DEF Refuse
<1>6. CASE ~IsLinked(w) /\ IsCurrent(q) /\ CreateCase(w, q.obs)
  <2>1. obs[q.obs].analysis # 0 /\ <<q.obs, obs[q.obs].text>> \notin Vague
    BY <1>3, <1>6 DEF IsCurrent
  <2>. QED BY <1>1, <1>3, <1>4, <1>6, <2>1, CreateCaseOk
<1>7. CASE ~IsLinked(w) /\ LinkToCase(w, q.obs, q.case)
  BY <1>1, <1>3, <1>4, <1>7, LinkToCaseOk
<1>. QED BY <1>2, <1>5, <1>6, <1>7 DEF RecordDecision

(* And the runner is through.                                                *)
LEMMA RecordDecisionInv ==
    ASSUME CaseLinkingAssumption, CaseLinkingInv, NEW w \in Runners, RecordDecision(w)
    PROVE  CaseLinkingInv'
<1>1. runners[w].pc # "idle" /\ UNCHANGED <<jobs, faults>>
  BY DEF RecordDecision
<1>2. RecordOk' /\ Advances
  BY RecordDecisionOk
<1>3. PICK pc \in {"done", "raised"} : Goto(w, pc)
  BY DEF RecordDecision, Refuse, CreateCase, LinkToCase
<1>. QED BY <1>1, <1>2, <1>3, GotoInv

(* A runner that is left with nothing.                                       *)
LEMMA IdleInv ==
    ASSUME CaseLinkingAssumption, CaseLinkingInv, NEW w \in Runners, UNCHANGED record,
           runners' = [runners EXCEPT ![w] = IdleRunner],
           DOMAIN jobs' \subseteq DOMAIN jobs, jobs' \in [DOMAIN jobs' -> JobRecord],
           Fault \/ UNCHANGED faults
    PROVE  CaseLinkingInv'
<1>1. RecordOk /\ faults \in 0 .. MaxFaults /\ MaxFaults \in Nat /\ 0 \in 0 .. MaxRevision
  BY RunnerFacts DEF CaseLinkingAssumption
<1>2. RecordOk' /\ Advances
  BY <1>1, RecordStays
<1>3. IdleRunner \in RunnerRecord /\ IdleRunner.pc = "idle"
  <2>. HIDE DEF Request
  <2>. QED BY <1>1 DEF IdleRunner, RunnerRecord
<1>4. faults' \in 0 .. MaxFaults
  BY <1>1 DEF Fault
<1>. HIDE DEF RunnerRecord, JobRecord, Request, IdleRunner
<1>5. RunnerMove(w, IdleRunner)
  BY <1>3 DEF RunnerMove
<1>. QED BY <1>2, <1>3, <1>4, <1>5, RunnerInv

(* run_job settles the job or lets it be.                                    *)
LEMMA SettleInv ==
    ASSUME CaseLinkingAssumption, CaseLinkingInv, NEW w \in Runners, Settle(w)
    PROVE  CaseLinkingInv'
<1>1. DOMAIN jobs \subseteq Request /\ jobs \in [DOMAIN jobs -> JobRecord]
  BY RunnerFacts
<1>2. PICK q : q = runners[w].job
  OBVIOUS
<1>3. \/ jobs' = jobs
      \/ q \in DOMAIN jobs /\ jobs' = [jobs EXCEPT ![q] = [status |-> "completed", owner |-> None]]
      \/ jobs' = Restrict(jobs, DOMAIN jobs \ {q})
  BY <1>2 DEF Settle, HoldsLease
<1>4. DOMAIN jobs' \subseteq DOMAIN jobs /\ jobs' \in [DOMAIN jobs' -> JobRecord]
  <2>1. CASE jobs' = jobs
    BY <1>1, <2>1
  <2>2. CASE /\ q \in DOMAIN jobs
             /\ jobs' = [jobs EXCEPT ![q] = [status |-> "completed", owner |-> None]]
    <3>1. [status |-> "completed", owner |-> None] \in JobRecord
      BY DEF JobRecord
    <3>. HIDE DEF JobRecord
    <3>. QED BY <1>1, <2>2, <3>1
  <2>3. CASE jobs' = Restrict(jobs, DOMAIN jobs \ {q})
    <3>. HIDE DEF JobRecord
    <3>. QED BY <1>1, <2>3 DEF Restrict
  <2>. QED BY <1>3, <2>1, <2>2, <2>3
<1>5. /\ UNCHANGED record /\ runners' = [runners EXCEPT ![w] = IdleRunner]
      /\ Fault \/ UNCHANGED faults
  BY DEF Settle
<1>. QED BY <1>4, <1>5, IdleInv

(* A crash leaves the jobs of the runner to be claimed again.                *)
LEMMA CrashInv ==
    ASSUME CaseLinkingAssumption, CaseLinkingInv, NEW w \in Runners, Crash(w)
    PROVE  CaseLinkingInv'
<1>1. DOMAIN jobs \subseteq Request /\ jobs \in [DOMAIN jobs -> JobRecord]
  BY RunnerFacts
<1>2. DOMAIN jobs' = DOMAIN jobs /\ jobs' \in [DOMAIN jobs' -> JobRecord]
  BY <1>1 DEF Crash, JobRecord
<1>3. /\ UNCHANGED record /\ runners' = [runners EXCEPT ![w] = IdleRunner] /\ Fault
  BY DEF Crash
<1>. QED BY <1>2, <1>3, IdleInv

-------------------------------------------------------------------------------
(* The specification *)

(* Before the first observation.                                             *)
LEMMA InitInv ==
    ASSUME CaseLinkingAssumption, Init
    PROVE  CaseLinkingInv
<1>1. /\ obs = <<>> /\ cases = <<>> /\ members = {} /\ followers = {}
      /\ jobs = <<>> /\ runners = [w \in Runners |-> IdleRunner] /\ faults = 0
  BY DEF Init
<1>2. \A S : DOMAIN <<>> = {} /\ <<>> \in [{} -> S] /\ <<>> \in Seq(S)
  OBVIOUS
<1>3. DOMAIN obs = {} /\ DOMAIN jobs = {} /\ CaseIds = {}
  <2>1. Len(cases) = 0
    BY <1>1
  <2>. QED BY <1>1, <1>2, <2>1 DEF CaseIds
<1>4. IdleRunner \in RunnerRecord /\ IdleRunner.pc = "idle" /\ faults \in 0 .. MaxFaults
  <2>1. 0 \in 0 .. MaxRevision
    BY DEF CaseLinkingAssumption
  <2>2. faults \in 0 .. MaxFaults
    BY <1>1 DEF CaseLinkingAssumption
  <2>. HIDE DEF Request
  <2>. QED BY <2>1, <2>2 DEF IdleRunner, RunnerRecord
<1>. HIDE DEF Observation, Incident, JobRecord, RunnerRecord, Request, IdleRunner
<1>5. RecordTypes
  BY <1>1, <1>2, <1>3 DEF RecordTypes
<1>6. LinksOk /\ PeopleOk /\ ReviewedAsWritten
  BY <1>3 DEF LinksOk, PeopleOk, ReviewedAsWritten
<1>7. JobTypes
  BY <1>1, <1>2, <1>3, <1>4 DEF JobTypes
<1>8. RequestsOk
  BY <1>1, <1>3, <1>4 DEF RequestsOk, RunnerOk
<1>. QED BY <1>5, <1>6, <1>7, <1>8 DEF CaseLinkingInv, RecordOk

(* Every step keeps it.                                                      *)
LEMMA NextInv ==
    ASSUME CaseLinkingAssumption, CaseLinkingInv, [Next]_vars
    PROVE  CaseLinkingInv'
<1>1. RecordOk
  BY DEF CaseLinkingInv
<1>2. CASE UNCHANGED vars
  <2>1. UNCHANGED record /\ UNCHANGED <<jobs, runners, faults>>
    BY <1>2 DEF vars, record
  <2>2. RecordOk' /\ Advances
    BY <1>1, <2>1, RecordStays
  <2>. QED BY <2>1, <2>2, CommandInv
<1>3. ASSUME NEW o \in Observations, CreateObservation(o) PROVE CaseLinkingInv'
  BY <1>1, <1>3, CreateObservationOk, CommandInv DEF CreateObservation
<1>4. ASSUME NEW o \in Observations, PatchObservation(o) PROVE CaseLinkingInv'
  BY <1>1, <1>4, PatchObservationOk, CommandInv DEF PatchObservation
<1>5. ASSUME NEW o \in Observations, Unlink(o) PROVE CaseLinkingInv'
  BY <1>1, <1>5, UnlinkOk, CommandInv DEF Unlink
<1>6. ASSUME NEW c \in CaseIds, Approve(c) \/ \E u \in Residents : Verify(c, u)
      PROVE  CaseLinkingInv'
  <2>. HIDE DEF Incident
  <2>1. UNCHANGED <<jobs, runners, faults>>
    BY <1>1, <1>6, Consented
  <2>. QED BY <1>1, <1>6, <2>1, ConsentOk, CommandInv
<1>7. ASSUME NEW c \in CaseIds, NEW u \in Residents, Follow(c, u) PROVE CaseLinkingInv'
  BY <1>1, <1>7, FollowOk, CommandInv DEF Follow
<1>8. ASSUME NEW c \in CaseIds, NEW u \in Residents, Unfollow(c, u) PROVE CaseLinkingInv'
  BY <1>1, <1>8, UnfollowOk, CommandInv DEF Unfollow
<1>9. ASSUME NEW o \in Observations, StartAnalysis(o) \/ \E c \in {0} \cup CaseIds : Decide(o, c)
      PROVE  CaseLinkingInv'
  BY <1>9, StartAnalysisInv, DecideInv
<1>10. ASSUME NEW w \in Runners,
              \/ \E q \in DOMAIN jobs : Claim(w, q)
              \/ ReadForAnalysis(w) \/ RecordAnalysis(w)
              \/ CheckDecision(w) \/ RecordDecision(w)
              \/ Settle(w) \/ Crash(w)
       PROVE  CaseLinkingInv'
  BY <1>10, ClaimInv, ReadForAnalysisInv, RecordAnalysisInv, CheckDecisionInv,
     RecordDecisionInv, SettleInv, CrashInv
<1>. QED BY <1>2, <1>3, <1>4, <1>5, <1>6, <1>7, <1>8, <1>9, <1>10 DEF Next

(* The record, the requests and the runners, in every reachable state.       *)
THEOREM CaseLinkingInvariance == ASSUME CaseLinkingAssumption PROVE Spec => []CaseLinkingInv
<1>1. Init => CaseLinkingInv
  BY InitInv
<1>2. CaseLinkingInv /\ [Next]_vars => CaseLinkingInv'
  BY NextInv
<1>. QED BY <1>1, <1>2, PTL DEF Spec

(* No step takes an observation or a revision of it back, or gives a         *)
(* revision another text.                                                    *)
LEMMA NextAdvances ==
    ASSUME CaseLinkingAssumption, CaseLinkingInv, Next
    PROVE  Advances
<1>1. RecordOk
  BY DEF CaseLinkingInv
<1>2. ASSUME NEW o \in Observations,
             CreateObservation(o) \/ PatchObservation(o) \/ Unlink(o)
      PROVE  Advances
  BY <1>1, <1>2, CreateObservationOk, PatchObservationOk, UnlinkOk
<1>3. ASSUME NEW c \in CaseIds,
             Approve(c) \/ \E u \in Residents : Verify(c, u) \/ Follow(c, u) \/ Unfollow(c, u)
      PROVE  Advances
  BY <1>1, <1>3, ConsentOk, FollowOk, UnfollowOk
<1>4. CASE UNCHANGED record
  BY <1>1, <1>4, RecordStays
<1>5. ASSUME NEW o \in Observations, StartAnalysis(o) \/ \E c \in {0} \cup CaseIds : Decide(o, c)
      PROVE  UNCHANGED record
  BY <1>5 DEF StartAnalysis, Decide, Enqueue
<1>6. ASSUME NEW w \in Runners,
             \/ \E q \in DOMAIN jobs : Claim(w, q)
             \/ ReadForAnalysis(w) \/ CheckDecision(w) \/ Settle(w) \/ Crash(w)
      PROVE  UNCHANGED record
  BY <1>6 DEF Claim, ReadForAnalysis, CheckDecision, Settle, Crash
<1>7. ASSUME NEW w \in Runners, RecordAnalysis(w) PROVE Advances
  BY <1>1, <1>7, RunnerFacts, RecordAnalysisOk
<1>8. ASSUME NEW w \in Runners, RecordDecision(w) PROVE Advances
  BY <1>8, RecordDecisionOk
<1>. QED BY <1>2, <1>3, <1>4, <1>5, <1>6, <1>7, <1>8 DEF Next

(* The revision that a job carries stays good for telling whether the        *)
(* observation is still what the job was asked about: no revision comes back *)
(* and none gets another text, an analysis of it at most is added.           *)
THEOREM RevisionsAdvance == ASSUME CaseLinkingAssumption PROVE Spec => [][Advances]_vars
<1>1. CaseLinkingInv /\ [Next]_vars => [Advances]_vars
  BY NextAdvances
<1>. QED BY <1>1, CaseLinkingInvariance, PTL DEF Spec

(* An observation names exactly the case that lists it, once, whatever is    *)
(* confirmed, retried, run twice or unlinked.                                *)
THEOREM LinksAgreeAlways == ASSUME CaseLinkingAssumption PROVE Spec => []LinksAgree
<1>1. CaseLinkingInv => LinksAgree
  BY DEF CaseLinkingInv, RecordOk, LinksOk, ListOk, Listed, LinksAgree
<1>. QED BY <1>1, CaseLinkingInvariance, PTL

(* A resident's own list is the cases that hold an observation of theirs,    *)
(* and no case has more followers than the limit.                            *)
THEOREM OwnListsAreRight == ASSUME CaseLinkingAssumption PROVE Spec => []MineIsMine
<1>1. CaseLinkingInv => MineIsMine
  <2>1. SUFFICES ASSUME PeopleOk PROVE MineIsMine
    BY DEF CaseLinkingInv, RecordOk
  <2>2. ASSUME NEW u \in Residents, NEW c \in CaseIds
        PROVE  c \in Mine(u) <=> \E o \in ToSet(cases[c].observations) : Author[o] = u
    BY <2>1 DEF PeopleOk, Listed, Mine, Accessible, Member
  <2>3. \A u \in Residents :
          Mine(u) = {c \in CaseIds : \E o \in ToSet(cases[c].observations) : Author[o] = u}
    BY <2>2 DEF Mine
  <2>. QED BY <2>1, <2>3 DEF PeopleOk, MineIsMine
<1>. QED BY <1>1, CaseLinkingInvariance, PTL

(* An analysis is of the present content, and a case tells what its first    *)
(* observation says: no slow model writes about an earlier revision.         *)
THEOREM ReviewsAreCurrent == ASSUME CaseLinkingAssumption PROVE Spec => []ReviewedAsWritten
<1>1. CaseLinkingInv => ReviewedAsWritten
  BY DEF CaseLinkingInv, RecordOk
<1>. QED BY <1>1, CaseLinkingInvariance, PTL

-------------------------------------------------------------------------------
(* The case book *)

(* What the book says of an observation, and of a case.                      *)
LEMMA BookFacts ==
    ASSUME RecordOk
    PROVE  /\ DOMAIN Notes = DOMAIN obs /\ DOMAIN obs \subseteq Observations
           /\ \A o \in DOMAIN obs :
                 Notes[o] = [revision |-> obs[o].version, case |-> obs[o].incident]
           /\ \A o \in DOMAIN obs :
                 /\ Notes[o].revision = obs[o].version /\ Notes[o].case = obs[o].incident
                 /\ obs[o].incident \in CaseIds \cup {0}
           /\ Founders \in Seq(Observations) /\ Len(Founders) = Len(cases)
           /\ \A c \in CaseIds : Founders[c] = cases[c].observations[1]
<1>1. \A o \in DOMAIN obs : Notes[o] = [revision |-> obs[o].version, case |-> obs[o].incident]
  BY DEF Notes
<1>2. DOMAIN Notes = DOMAIN obs /\ DOMAIN obs \subseteq Observations
  BY DEF Notes, RecordOk, RecordTypes
<1>3. \A o \in DOMAIN obs : obs[o].incident \in CaseIds \cup {0}
  BY DEF RecordOk, LinksOk
<1>4. Len(cases) \in Nat /\ CaseIds = 1 .. Len(cases)
  BY LenProperties DEF RecordOk, RecordTypes, CaseIds
<1>5. \A c \in 1 .. Len(cases) : cases[c].observations[1] \in Observations
  BY <1>2, <1>4, RecordFacts
<1>6. Founders = [c \in 1 .. Len(cases) |-> cases[c].observations[1]]
  BY <1>4 DEF Founders
<1>7. Founders \in Seq(Observations) /\ Len(Founders) = Len(cases)
  BY <1>4, <1>5, <1>6
<1>8. \A c \in CaseIds : Founders[c] = cases[c].observations[1]
  BY DEF Founders
<1>. QED BY <1>1, <1>2, <1>3, <1>7, <1>8

(* A step that rewrites one observation.                                     *)
LEMMA NotesMove ==
    ASSUME RecordOk, NEW o \in DOMAIN obs, DOMAIN obs' = DOMAIN obs,
           \A p \in DOMAIN obs \ {o} : obs'[p] = obs[p]
    PROVE  Notes' = [Notes EXCEPT ![o] = [revision |-> obs'[o].version, case |-> obs'[o].incident]]
<1>1. ASSUME NEW p \in DOMAIN obs
      PROVE  [revision |-> obs'[p].version, case |-> obs'[p].incident]
               = IF p = o THEN [revision |-> obs'[o].version, case |-> obs'[o].incident] ELSE Notes[p]
  BY BookFacts
<1>2. Notes' = [p \in DOMAIN obs |-> [revision |-> obs'[p].version, case |-> obs'[p].incident]]
  BY DEF Notes
<1>. QED BY <1>1, <1>2, BookFacts

(* A step that leaves every case its first observation.                      *)
LEMMA FoundersStay ==
    ASSUME CaseIds' = CaseIds,
           \A c \in CaseIds : cases'[c].observations[1] = cases[c].observations[1]
    PROVE  Founders' = Founders
  BY DEF Founders

(* Requests that are settled, given up or forgotten are asked no longer.     *)
LEMMA AskedShrinks ==
    ASSUME Requests' \subseteq Requests
    PROVE  Asked' \subseteq Asked
  BY DEF Asked

(* The requests after a step that adds none.                                 *)
LEMMA RequestsShrink ==
    ASSUME DOMAIN jobs' \subseteq DOMAIN jobs,
           \A w \in Runners : \/ runners'[w].pc = "idle"
                              \/ runners'[w].job \in DOMAIN jobs
                              \/ runners'[w].job = runners[w].job /\ runners[w].pc # "idle"
    PROVE  Asked' \subseteq Asked
<1>1. ASSUME NEW w \in Runners, runners'[w].pc # "idle"
      PROVE  runners'[w].job \in Requests
  BY <1>1 DEF Requests
<1>2. Requests' \subseteq Requests
  BY <1>1 DEF Requests
<1>. QED BY <1>2, AskedShrinks

(* A step that leaves the record and may settle a request.                   *)
LEMMA ForgetStep ==
    ASSUME UNCHANGED <<obs, cases>>, Asked' \subseteq Asked
    PROVE  Book!Forget
<1>1. Notes' = Notes /\ Founders' = Founders
  BY DEF Notes, Founders, CaseIds
<1>. QED BY <1>1 DEF Book!Forget

(* The residents' commands.                                                  *)
LEMMA MakeStep ==
    ASSUME RecordOk, NEW o \in Observations, CreateObservation(o)
    PROVE  Book!Make(o)
<1>. DEFINE r == [version |-> 1, text |-> 1, analysis |-> 0, incident |-> 0]
<1>1. o \notin DOMAIN obs /\ obs' = Put(obs, o, r) /\ UNCHANGED <<cases, jobs, runners>>
  BY DEF CreateObservation
<1>2. DOMAIN obs' = DOMAIN obs \cup {o} /\ obs'[o] = r /\ \A p \in DOMAIN obs : obs'[p] = obs[p]
  BY <1>1 DEF Put
<1>3. obs'[o].version = 1 /\ obs'[o].incident = 0
  BY <1>2
<1>4. Notes' = [p \in DOMAIN obs \cup {o} |-> [revision |-> obs'[p].version, case |-> obs'[p].incident]]
  BY <1>2 DEF Notes
<1>5. Notes' = [p \in DOMAIN Notes \cup {o} |->
                  IF p = o THEN [revision |-> 1, case |-> 0] ELSE Notes[p]]
  <2>1. ASSUME NEW p \in DOMAIN obs \cup {o}
        PROVE  [revision |-> obs'[p].version, case |-> obs'[p].incident]
                 = IF p = o THEN [revision |-> 1, case |-> 0] ELSE Notes[p]
    BY <1>2, <1>3, BookFacts
  <2>. QED BY <1>4, <2>1, BookFacts
<1>6. Asked' = Asked /\ Founders' = Founders
  BY <1>1 DEF Asked, Requests, Founders, CaseIds
<1>. QED BY <1>1, <1>5, <1>6, BookFacts DEF Book!Make

(* A patch makes a new revision, and what was asked of the old is void.      *)
LEMMA ReviseStep ==
    ASSUME RecordOk, NEW o \in Observations, PatchObservation(o)
    PROVE  Book!Revise(o)
<1>1. /\ o \in DOMAIN obs /\ obs[o].incident = 0 /\ obs' = [obs EXCEPT ![o] = Patched(o)]
      /\ jobs' = Repeatable(o) /\ UNCHANGED <<cases, runners>>
  BY DEF PatchObservation, Linked
<1>2. Patched(o).version = obs[o].version + 1 /\ Patched(o).incident = 0
  <2>1. obs[o] \in Observation
    BY <1>1, RecordFacts
  <2>. QED BY <1>1, <2>1 DEF Patched, Observation
<1>3. /\ DOMAIN obs' = DOMAIN obs /\ obs'[o] = Patched(o)
      /\ \A p \in DOMAIN obs \ {o} : obs'[p] = obs[p]
  BY <1>1
<1>4. Notes' = [Notes EXCEPT ![o] = [revision |-> obs[o].version + 1, case |-> 0]]
  BY <1>1, <1>2, <1>3, NotesMove
<1>5. Asked' \subseteq Asked
  BY <1>1, RequestsShrink DEF Repeatable, Restrict
<1>6. Founders' = Founders
  BY <1>1 DEF Founders, CaseIds
<1>. QED BY <1>1, <1>4, <1>5, <1>6, BookFacts DEF Book!Revise, Book!Alone, Book!Revised

(* An unlink takes out one that did not begin the case.                      *)
LEMMA LeaveStep ==
    ASSUME RecordOk, NEW o \in Observations, Unlink(o)
    PROVE  Book!Leave(o)
<1>. DEFINE c == obs[o].incident
<1>1. /\ o \in DOMAIN obs /\ c # 0 /\ obs' = [obs EXCEPT ![o] = Unlinked(o)]
      /\ cases[c].observations[1] # o /\ cases' = [cases EXCEPT ![c] = Shrunk(cases[c], o)]
      /\ jobs' = Repeatable(o) /\ UNCHANGED runners
  BY DEF Unlink, Linked
<1>2. c \in CaseIds /\ Notes[o].case = c /\ Founders[c] # o
  BY <1>1, BookFacts
<1>3. Unlinked(o).version = obs[o].version + 1 /\ Unlinked(o).incident = 0
  <2>1. obs[o] \in Observation
    BY <1>1, RecordFacts
  <2>. QED BY <2>1 DEF Unlinked, Observation
<1>4. /\ DOMAIN obs' = DOMAIN obs /\ obs'[o] = Unlinked(o)
      /\ \A p \in DOMAIN obs \ {o} : obs'[p] = obs[p]
  BY <1>1
<1>5. Notes' = [Notes EXCEPT ![o] = [revision |-> obs[o].version + 1, case |-> 0]]
  BY <1>1, <1>3, <1>4, NotesMove
<1>6. Asked' \subseteq Asked
  BY <1>1, RequestsShrink DEF Repeatable, Restrict
<1>7. Founders' = Founders
  <2>1. /\ cases[c] \in Incident /\ ListOk(cases[c])
        /\ o \in ToSet(cases[c].observations)
    BY <1>1, <1>2, RecordFacts DEF RecordOk, LinksOk, Listed
  <2>2. /\ Shrunk(cases[c], o) \in Incident
        /\ Shrunk(cases[c], o).observations[1] = cases[c].observations[1]
    BY <1>1, <2>1, ShrunkOk
  <2>3. /\ CaseIds' = CaseIds /\ cases'[c] = Shrunk(cases[c], o)
        /\ \A d \in CaseIds \ {c} : cases'[d] = cases[d]
    BY <1>1, <1>2, <2>2, CaseMoves DEF RecordOk, RecordTypes
  <2>. QED BY <2>2, <2>3, FoundersStay
<1>. QED BY <1>1, <1>2, <1>5, <1>6, <1>7, BookFacts DEF Book!Leave, Book!Revised

(* A decision asks about the revision that the observation has.              *)
LEMMA AskStep ==
    ASSUME RecordOk, NEW o \in Observations, NEW c \in {0} \cup CaseIds, Decide(o, c)
    PROVE  Book!Ask(o, c)
<1>. DEFINE q == [kind |-> "decide", obs |-> o, version |-> obs[o].version, case |-> c]
            r == [status |-> "live", owner |-> None]
<1>1. /\ o \in DOMAIN obs /\ obs[o].incident = 0
      /\ jobs' = Put(jobs, q, r) /\ UNCHANGED <<obs, cases, runners>>
  BY DEF Decide, Enqueue, Linked, record
<1>2. q.kind = "decide" /\ <<q.obs, q.version, q.case>> = <<o, obs[o].version, c>>
  OBVIOUS
<1>. HIDE DEF q, r
<1>3. DOMAIN jobs' = DOMAIN jobs \cup {q}
  BY <1>1 DEF Put
<1>4. Requests' = Requests \cup {q}
  BY <1>1, <1>3 DEF Requests
<1>5. Asked' = Asked \cup {<<o, obs[o].version, c>>}
  BY <1>2, <1>4 DEF Asked
<1>6. Notes' = Notes /\ Founders' = Founders
  BY <1>1 DEF Notes, Founders, CaseIds
<1>. QED BY <1>1, <1>5, <1>6, BookFacts DEF Book!Ask, Book!Alone

(* An analysis is not a decision.                                            *)
LEMMA StartAnalysisStep ==
    ASSUME NEW o \in Observations, StartAnalysis(o)
    PROVE  Book!Forget
<1>. DEFINE q == [kind |-> "analyze", obs |-> o, version |-> obs[o].version, case |-> 0]
            r == [status |-> "live", owner |-> None]
<1>1. jobs' = Put(jobs, q, r) /\ UNCHANGED <<obs, cases, runners>>
  BY DEF StartAnalysis, Enqueue, record
<1>2. q.kind # "decide"
  OBVIOUS
<1>. HIDE DEF q, r
<1>3. DOMAIN jobs' = DOMAIN jobs \cup {q}
  BY <1>1 DEF Put
<1>4. Requests' = Requests \cup {q}
  BY <1>1, <1>3 DEF Requests
<1>5. Asked' \subseteq Asked
  BY <1>2, <1>4 DEF Asked
<1>. QED BY <1>1, <1>5, ForgetStep

(* Approving and verifying change neither who is listed nor who founded.     *)
LEMMA ConsentStep ==
    ASSUME RecordOk, NEW c \in CaseIds, Approve(c) \/ \E u \in Residents : Verify(c, u)
    PROVE  Book!Forget
<1>. HIDE DEF Incident
<1>1. UNCHANGED <<obs, jobs, runners>>
  BY Consented
<1>2. PICK r \in Incident :
          cases' = [cases EXCEPT ![c] = r] /\ r.observations = cases[c].observations
  BY Consented
<1>3. /\ CaseIds' = CaseIds /\ cases'[c] = r
      /\ \A d \in CaseIds \ {c} : cases'[d] = cases[d]
  BY <1>2, CaseMoves DEF RecordOk, RecordTypes
<1>4. Founders' = Founders
  BY <1>2, <1>3, FoundersStay
<1>5. Notes' = Notes /\ Asked' = Asked
  BY <1>1 DEF Notes, Asked, Requests
<1>. QED BY <1>4, <1>5 DEF Book!Forget

(* What a runner has in memory is asked for, until it lets go of it.         *)
LEMMA RunnerAsks ==
    ASSUME NEW w \in Runners, runners[w].pc # "idle", runners[w].job.kind = "decide"
    PROVE  LET q == runners[w].job IN <<q.obs, q.version, q.case>> \in Asked
<1>1. runners[w].job \in Requests
  BY DEF Requests
<1>. QED BY <1>1 DEF Asked

(* A runner that moves on within its job asks nothing else.                  *)
LEMMA GotoAsks ==
    ASSUME CaseLinkingInv, NEW w \in Runners, NEW pc, pc # "idle",
           Goto(w, pc), runners[w].pc # "idle", UNCHANGED jobs
    PROVE  Asked' = Asked
<1>1. runners \in [Runners -> RunnerRecord] /\ runners[w] \in RunnerRecord
  BY DEF CaseLinkingInv, JobTypes
<1>. DEFINE r == [runners[w] EXCEPT !.pc = pc, !.seen = 0]
<1>2. r.pc # "idle" /\ r.job = runners[w].job
  <2>. HIDE DEF Request
  <2>. QED BY <1>1 DEF RunnerRecord
<1>3. runners' = [runners EXCEPT ![w] = r]
  BY <1>1 DEF Goto
<1>. HIDE DEF r, RunnerRecord
<1>4. \A v \in Runners : /\ runners'[v].pc # "idle" <=> runners[v].pc # "idle"
                         /\ runners'[v].job = runners[v].job
  BY <1>1, <1>2, <1>3
<1>5. Requests' = Requests
  BY <1>4 DEF Requests
<1>. QED BY <1>5 DEF Asked

(* The decisions that link.                                                  *)
LEMMA JoinedNotes ==
    ASSUME CaseLinkingAssumption, RecordOk, NEW o \in DOMAIN obs, obs[o].incident = 0,
           NEW c \in Nat, c # 0, Joined(o, c)
    PROVE  Notes' = [Notes EXCEPT ![o].case = c]
<1>1. /\ DOMAIN obs' = DOMAIN obs /\ obs'[o].incident = c /\ obs'[o].version = obs[o].version
      /\ \A p \in DOMAIN obs \ {o} : obs'[p] = obs[p]
  BY JoinedOk
<1>2. Notes' = [Notes EXCEPT ![o] = [revision |-> obs[o].version, case |-> c]]
  BY <1>1, NotesMove
<1>3. [Notes[o] EXCEPT !.case = c] = [revision |-> obs[o].version, case |-> c]
  BY BookFacts
<1>. QED BY <1>2, <1>3

(* A decision for a case, if current, links what was asked.                  *)
LEMMA JoinStep ==
    ASSUME CaseLinkingAssumption, CaseLinkingInv, NEW w \in Runners, RecordDecision(w),
           ~IsLinked(w), IsCurrent(runners[w].job),
           LinkToCase(w, runners[w].job.obs, runners[w].job.case)
    PROVE  \E o \in Observations : \E c \in CaseIds : Book!Join(o, c)
<1>. DEFINE q == runners[w].job
<1>1. /\ RecordOk /\ runners[w].pc # "idle" /\ q.kind = "decide" /\ UNCHANGED jobs
      /\ q \in Request /\ RequestOk(q)
  BY RunnerFacts DEF RecordDecision
<1>2. PICK o \in DOMAIN obs : o = q.obs
  BY <1>1 DEF RequestOk
<1>3. PICK c \in CaseIds : c = q.case
  BY DEF LinkToCase, Candidates
<1>4. o \in Observations /\ obs[o].incident = 0 /\ obs[o].version = q.version
      /\ c \in Nat /\ c # 0 /\ cases[c] \in Incident /\ ListOk(cases[c]) /\ o \notin Listed(c)
  BY <1>1, <1>2, <1>3, RecordFacts DEF IsLinked, Linked, IsCurrent, RecordOk, LinksOk
<1>5. <<o, Notes[o].revision, c>> \in Asked
  BY <1>1, <1>2, <1>3, <1>4, RunnerAsks, BookFacts
<1>6. Asked' = Asked
  BY <1>1, GotoAsks DEF LinkToCase
<1>7. Notes' = [Notes EXCEPT ![o].case = c]
  BY <1>1, <1>2, <1>3, <1>4, JoinedNotes DEF LinkToCase
<1>8. Founders' = Founders
  <2>1. cases' = [cases EXCEPT ![c] = Grown(cases[c], o)]
    BY <1>2, <1>3 DEF LinkToCase
  <2>2. /\ Grown(cases[c], o) \in Incident
        /\ Grown(cases[c], o).observations[1] = cases[c].observations[1]
    BY <1>4, GrownOk DEF Listed
  <2>. HIDE DEF Incident
  <2>3. /\ CaseIds' = CaseIds /\ cases'[c] = Grown(cases[c], o)
        /\ \A d \in CaseIds \ {c} : cases'[d] = cases[d]
    BY <1>1, <2>1, <2>2, CaseMoves DEF RecordOk, RecordTypes
  <2>. QED BY <2>2, <2>3, FoundersStay
<1>9. Book!Join(o, c)
  BY <1>1, <1>4, <1>5, <1>6, <1>7, <1>8, BookFacts DEF Book!Join, Book!Wanted, Book!Alone
<1>. QED BY <1>4, <1>9

(* A decision for a case of its own, if current, begins one.                 *)
LEMMA BeginStep ==
    ASSUME CaseLinkingAssumption, CaseLinkingInv, NEW w \in Runners, RecordDecision(w),
           ~IsLinked(w), IsCurrent(runners[w].job), runners[w].job.case = 0,
           CreateCase(w, runners[w].job.obs)
    PROVE  \E o \in Observations : Book!Begin(o)
<1>. DEFINE q == runners[w].job
<1>1. /\ RecordOk /\ runners[w].pc # "idle" /\ q.kind = "decide" /\ UNCHANGED jobs
      /\ q \in Request /\ RequestOk(q)
  BY RunnerFacts DEF RecordDecision
<1>2. PICK o \in DOMAIN obs : o = q.obs
  BY <1>1 DEF RequestOk
<1>3. PICK c \in Nat : c = Len(cases) + 1
  BY <1>1, LenProperties DEF RecordOk, RecordTypes
<1>4. /\ o \in Observations /\ obs[o] \in Observation /\ obs[o].incident = 0
      /\ obs[o].version = q.version
  BY <1>1, <1>2, RecordFacts DEF IsLinked, Linked, IsCurrent
<1>5. <<o, Notes[o].revision, 0>> \in Asked
  BY <1>1, <1>2, <1>4, RunnerAsks, BookFacts
<1>6. Asked' = Asked
  BY <1>1, GotoAsks DEF CreateCase
<1>7. CaseOf(o) \in Incident /\ CaseOf(o).observations[1] = o /\ cases' = Append(cases, CaseOf(o))
  BY <1>2, <1>4, CaseOfOk DEF CreateCase
<1>8. /\ CaseIds' = CaseIds \cup {c} /\ cases'[c] = CaseOf(o) /\ c # 0
      /\ \A d \in CaseIds : cases'[d] = cases[d]
  <2>. HIDE DEF Incident
  <2>. QED BY <1>1, <1>3, <1>7, CaseBegins DEF RecordOk, RecordTypes
<1>9. Notes' = [Notes EXCEPT ![o].case = c]
  <2>1. Joined(o, c)
    BY <1>2, <1>3 DEF CreateCase
  <2>. QED BY <1>1, <1>4, <1>8, <2>1, JoinedNotes
<1>10. Founders' = Append(Founders, o) /\ Len(Founders') = c
  <2>1. /\ Founders \in Seq(Observations) /\ Len(Founders) = Len(cases)
        /\ \A d \in CaseIds : Founders[d] = cases[d].observations[1]
    BY <1>1, BookFacts
  <2>2. Len(cases') = c /\ CaseIds = 1 .. Len(cases) /\ Len(cases) \in Nat
    <3>1. cases \in Seq(Incident)
      BY <1>1 DEF RecordOk, RecordTypes
    <3>. HIDE DEF Incident
    <3>. QED BY <1>3, <1>7, <3>1, LenProperties, AppendProperties DEF CaseIds
  <2>3. Founders' = [d \in 1 .. c |-> cases'[d].observations[1]]
    BY <2>2 DEF Founders, CaseIds
  <2>4. \A d \in 1 .. Len(cases) : Founders'[d] = Founders[d] /\ Founders[d] \in Observations
    <3>1. ASSUME NEW d \in 1 .. Len(cases) PROVE Founders'[d] = Founders[d]
      BY <1>3, <1>8, <2>1, <2>2, <2>3, <3>1
    <3>. QED BY <2>1, <3>1, ElementOfSeq
  <2>5. Founders'[c] = o
    BY <1>3, <1>7, <1>8, <2>2, <2>3
  <2>6. Founders' \in Seq(Observations) /\ Len(Founders') = c
    <3>1. ASSUME NEW d \in 1 .. c PROVE cases'[d].observations[1] \in Observations
      <4>1. cases'[d].observations[1] = Founders'[d]
        BY <2>3
      <4>2. d \in 1 .. Len(cases) \/ d = c
        BY <1>3, <2>2
      <4>. QED BY <1>4, <2>4, <2>5, <4>1, <4>2
    <3>. QED BY <1>3, <2>3, <3>1
  <2>. DEFINE more == Append(Founders, o)
  <2>7. /\ more \in Seq(Observations) /\ Len(more) = c /\ more[c] = o
        /\ \A d \in 1 .. Len(cases) : more[d] = Founders[d]
    BY <1>3, <1>4, <2>1, AppendProperties
  <2>. HIDE DEF more
  <2>8. \A d \in 1 .. c : Founders'[d] = more[d]
    BY <1>3, <2>2, <2>4, <2>5, <2>7
  <2>9. Founders' = more
    BY <2>6, <2>7, <2>8, SeqEqual
  <2>. QED BY <2>6, <2>9 DEF more
<1>11. Book!Begin(o)
  BY <1>1, <1>4, <1>5, <1>6, <1>9, <1>10, BookFacts DEF Book!Begin, Book!Wanted, Book!Alone
<1>. QED BY <1>4, <1>11

(* The steps of the runners that link nothing.                               *)
LEMMA WorkStep ==
    ASSUME CaseLinkingInv, NEW w \in Runners,
           \/ \E q \in DOMAIN jobs : Claim(w, q)
           \/ ReadForAnalysis(w) \/ RecordAnalysis(w) \/ CheckDecision(w)
           \/ Settle(w) \/ Crash(w)
    PROVE  Book!Forget
<1>1. /\ RecordOk /\ runners \in [Runners -> RunnerRecord] /\ runners[w] \in RunnerRecord
      /\ DOMAIN jobs' \subseteq DOMAIN jobs
      /\ \A v \in Runners \ {w} : runners'[v] = runners[v]
  <2>1. RecordOk /\ runners \in [Runners -> RunnerRecord] /\ runners[w] \in RunnerRecord
    BY RunnerFacts DEF JobTypes
  <2>2. DOMAIN jobs' \subseteq DOMAIN jobs
    <3>1. CASE \E q \in DOMAIN jobs : Claim(w, q)
      BY <3>1 DEF Claim
    <3>2. CASE ReadForAnalysis(w) \/ RecordAnalysis(w) \/ CheckDecision(w)
      BY <3>2 DEF ReadForAnalysis, RecordAnalysis, CheckDecision
    <3>3. CASE Settle(w)
      BY <3>3 DEF Settle, Restrict
    <3>4. CASE Crash(w)
      BY <3>4 DEF Crash
    <3>. QED BY <3>1, <3>2, <3>3, <3>4
  <2>3. PICK r : runners' = [runners EXCEPT ![w] = r]
    BY <2>1 DEF Claim, ReadForAnalysis, RecordAnalysis, CheckDecision, Settle, Crash, Goto
  <2>. QED BY <2>1, <2>2, <2>3
<1>2. \/ runners'[w].pc = "idle"
      \/ runners'[w].job \in DOMAIN jobs
      \/ runners'[w].job = runners[w].job /\ runners[w].pc # "idle"
  <2>1. CASE \E q \in DOMAIN jobs : Claim(w, q)
    BY <1>1, <2>1 DEF Claim
  <2>2. CASE ReadForAnalysis(w) \/ RecordAnalysis(w) \/ CheckDecision(w)
    <3>. HIDE DEF Request
    <3>1. runners[w].pc # "idle"
      BY <2>2 DEF ReadForAnalysis, RecordAnalysis, CheckDecision
    <3>2. runners'[w].job = runners[w].job
      BY <1>1, <2>2 DEF ReadForAnalysis, RecordAnalysis, CheckDecision, Goto, RunnerRecord
    <3>. QED BY <3>1, <3>2
  <2>3. CASE Settle(w) \/ Crash(w)
    BY <1>1, <2>3 DEF Settle, Crash, IdleRunner
  <2>. QED BY <2>1, <2>2, <2>3
<1>3. Asked' \subseteq Asked
  <2>1. \A v \in Runners : \/ runners'[v].pc = "idle"
                           \/ runners'[v].job \in DOMAIN jobs
                           \/ runners'[v].job = runners[v].job /\ runners[v].pc # "idle"
    BY <1>1, <1>2
  <2>. QED BY <1>1, <2>1, RequestsShrink
<1>4. Notes' = Notes /\ Founders' = Founders
  <2>1. UNCHANGED cases
    BY DEF Claim, ReadForAnalysis, RecordAnalysis, CheckDecision, Settle, Crash, record
  <2>2. CASE UNCHANGED obs
    BY <2>1, <2>2 DEF Notes, Founders, CaseIds
  <2>3. CASE ~UNCHANGED obs
    <3>1. RecordAnalysis(w)
      BY <2>3 DEF Claim, ReadForAnalysis, CheckDecision, Settle, Crash, record
    <3>2. PICK o \in DOMAIN obs : o = runners[w].job.obs
      BY <3>1, RunnerFacts DEF RecordAnalysis, RequestOk
    <3>3. obs' = [obs EXCEPT ![o].analysis = runners[w].seen]
      BY <2>3, <3>1, <3>2 DEF RecordAnalysis
    <3>4. obs[o] \in Observation
      BY <1>1, RecordFacts
    <3>5. \A p \in DOMAIN obs :
              obs'[p].version = obs[p].version /\ obs'[p].incident = obs[p].incident
      BY <3>3, <3>4 DEF Observation
    <3>6. DOMAIN obs' = DOMAIN obs
      BY <3>3
    <3>. QED BY <2>1, <3>5, <3>6 DEF Notes, Founders, CaseIds
  <2>. QED BY <2>2, <2>3
<1>. QED BY <1>3, <1>4 DEF Book!Forget

(* Every step keeps the case book.                                           *)
LEMMA BookStep ==
    ASSUME CaseLinkingAssumption, CaseLinkingInv, [Next]_vars
    PROVE  [Book!Next]_Book!vars
<1>1. RecordOk
  BY DEF CaseLinkingInv
<1>2. Len(Founders) = Len(cases) /\ CaseIds = 1 .. Len(cases)
  BY <1>1, BookFacts DEF CaseIds
<1>3. ASSUME NEW o \in Observations, CreateObservation(o) \/ PatchObservation(o) \/ Unlink(o)
      PROVE  Book!Next
  BY <1>1, <1>3, MakeStep, ReviseStep, LeaveStep DEF Book!Next
<1>4. ASSUME NEW o \in Observations, NEW c \in {0} \cup CaseIds, Decide(o, c)
      PROVE  Book!Next
  <2>1. Book!Ask(o, c)
    BY <1>1, <1>4, AskStep
  <2>. QED BY <1>2, <2>1 DEF Book!Next
<1>5. ASSUME NEW o \in Observations, StartAnalysis(o) PROVE Book!Next
  BY <1>5, StartAnalysisStep DEF Book!Next
<1>6. ASSUME NEW c \in CaseIds, Approve(c) \/ \E u \in Residents : Verify(c, u)
      PROVE  Book!Next
  BY <1>1, <1>6, ConsentStep DEF Book!Next
<1>7. ASSUME NEW c \in CaseIds, NEW u \in Residents, Follow(c, u) \/ Unfollow(c, u)
      PROVE  Book!Next
  <2>1. UNCHANGED <<obs, cases>> /\ UNCHANGED <<jobs, runners>>
    BY <1>7 DEF Follow, Unfollow
  <2>2. Asked' \subseteq Asked
    BY <2>1 DEF Asked, Requests
  <2>. QED BY <2>1, <2>2, ForgetStep DEF Book!Next
<1>8. ASSUME NEW w \in Runners,
             \/ \E q \in DOMAIN jobs : Claim(w, q)
             \/ ReadForAnalysis(w) \/ RecordAnalysis(w) \/ CheckDecision(w)
             \/ Settle(w) \/ Crash(w)
      PROVE  Book!Next
  BY <1>8, WorkStep DEF Book!Next
<1>9. ASSUME NEW w \in Runners, RecordDecision(w) PROVE Book!Next
  <2>. DEFINE q == runners[w].job
  <2>1. CASE Refuse(w, "done") \/ Refuse(w, "raised")
    <3>1. runners[w].pc # "idle" /\ UNCHANGED jobs /\ UNCHANGED <<obs, cases>>
      BY <1>9, <2>1 DEF RecordDecision, Refuse, record
    <3>2. Asked' = Asked
      BY <2>1, <3>1, GotoAsks DEF Refuse
    <3>. QED BY <3>1, <3>2, ForgetStep DEF Book!Next
  <2>2. CASE ~IsLinked(w) /\ IsCurrent(q) /\ q.case = 0 /\ CreateCase(w, q.obs)
    BY <1>9, <2>2, BeginStep DEF Book!Next
  <2>3. CASE ~IsLinked(w) /\ IsCurrent(q) /\ LinkToCase(w, q.obs, q.case)
    <3>1. PICK o \in Observations, c \in CaseIds : Book!Join(o, c)
      BY <1>9, <2>3, JoinStep
    <3>. QED BY <1>2, <3>1 DEF Book!Next
  <2>. QED BY <1>9, <2>1, <2>2, <2>3 DEF RecordDecision
<1>10. CASE UNCHANGED vars
  BY <1>10 DEF vars, Book!vars, Notes, Asked, Requests, Founders, CaseIds
<1>. QED BY <1>3, <1>4, <1>5, <1>6, <1>7, <1>8, <1>9, <1>10 DEF Next

(* The jobs implement the case book: however they wait, are retried or run   *)
(* twice, an observation is linked only as its author asked of the revision  *)
(* that it still has.                                                        *)
THEOREM KeepsTheCaseBook == ASSUME CaseLinkingAssumption PROVE Spec => ImplementsCaseBook
<1>1. Init => Book!Init
  BY DEF Init, Book!Init, Notes, Asked, Requests, Founders, CaseIds, IdleRunner
<1>2. CaseLinkingInv /\ [Next]_vars => [Book!Next]_Book!vars
  BY BookStep
<1>. QED BY <1>1, <1>2, CaseLinkingInvariance, PTL DEF Spec, Book!Spec, ImplementsCaseBook

-------------------------------------------------------------------------------
(* What authors agreed to *)

AgreementTypes ==
    released \subseteq DOMAIN obs /\ agreed \subseteq (DOMAIN obs) \X {"decision", "command"}

(* A photo was released by a command, or by a decision whose link stands.    *)
ReleasesOk ==
    \A o \in released :
        \/ <<o, "command">> \in agreed
        \/ obs[o].incident # 0 /\ <<o, "decision">> \in agreed

(* A decision that may still link an observation and release its photo is    *)
(* one that its author stands by.                                            *)
DecisionsOk ==
    \A o \in DOMAIN obs : \A c \in Nat :
        <<o, obs[o].version, c>> \in Asked /\ obs[o].incident = 0 /\ Sharing(o) = "photos" =>
            <<o, "decision">> \in agreed

AgreementInv == AgreementTypes /\ ReleasesOk /\ DecisionsOk

(* What is asked is asked of a revision that has been.                       *)
LEMMA AskedOfThePast ==
    ASSUME CaseLinkingInv, NEW o, NEW n, NEW c, <<o, n, c>> \in Asked
    PROVE  o \in DOMAIN obs /\ n \in Nat /\ c \in Nat /\ n <= obs[o].version
<1>1. PICK q \in Requests : q.kind = "decide" /\ <<o, n, c>> = <<q.obs, q.version, q.case>>
  BY DEF Asked
<1>2. q \in Request /\ RequestOk(q)
  <2>1. CASE q \in DOMAIN jobs
    BY <2>1 DEF CaseLinkingInv, JobTypes, RequestsOk
  <2>2. CASE q \notin DOMAIN jobs
    <3>1. PICK w \in Runners : runners[w].pc # "idle" /\ q = runners[w].job
      BY <2>2 DEF Requests
    <3>. QED BY <3>1, RunnerFacts
  <2>. QED BY <2>1, <2>2
<1>3. q.version \in Nat /\ q.case \in Nat
  BY <1>2 DEF Request
<1>. QED BY <1>1, <1>2, <1>3 DEF RequestOk

(* So nothing is asked of a revision that is new.                            *)
LEMMA NewIsNotAsked ==
    ASSUME CaseLinkingInv, NEW o, NEW n \in Nat,
           o \notin DOMAIN obs \/ (obs[o].version \in Nat /\ n = obs[o].version + 1)
    PROVE  \A c \in Nat : <<o, n, c>> \notin Asked
<1>1. SUFFICES ASSUME NEW c \in Nat, <<o, n, c>> \in Asked PROVE FALSE
  OBVIOUS
<1>2. o \in DOMAIN obs /\ n <= obs[o].version
  BY <1>1, AskedOfThePast
<1>. QED BY <1>2

(* A step that asks nothing keeps what was decided of an observation that    *)
(* stays as it is and alone; what is linked or new has no decision to come.  *)
LEMMA DecisionsMove ==
    ASSUME DecisionsOk, Asked' \subseteq Asked,
           \A o \in DOMAIN obs' :
              \/ \A c \in Nat : <<o, obs'[o].version, c>> \notin Asked
              \/ obs'[o].incident # 0
              \/ /\ o \in DOMAIN obs /\ obs'[o].version = obs[o].version
                 /\ obs'[o].text = obs[o].text /\ obs'[o].incident = obs[o].incident
                 /\ obs[o].incident = 0 /\ <<o, "decision">> \in agreed => <<o, "decision">> \in agreed'
    PROVE  DecisionsOk'
<1>1. SUFFICES ASSUME NEW o \in DOMAIN obs', NEW c \in Nat, <<o, obs'[o].version, c>> \in Asked',
                      obs'[o].incident = 0, Share[<<o, obs'[o].text>>] = "photos"
               PROVE  <<o, "decision">> \in agreed'
  BY DEF DecisionsOk, Sharing
<1>2. /\ o \in DOMAIN obs /\ obs'[o].version = obs[o].version
      /\ obs'[o].text = obs[o].text /\ obs[o].incident = 0
      /\ <<o, "decision">> \in agreed => <<o, "decision">> \in agreed'
  BY <1>1
<1>3. <<o, obs[o].version, c>> \in Asked
  BY <1>1, <1>2
<1>. QED BY <1>1, <1>2, <1>3 DEF DecisionsOk, Sharing

(* A step that leaves every observation its revision, its text and its case. *)
LEMMA AgreementsStay ==
    ASSUME AgreementInv, Asked' \subseteq Asked, DOMAIN obs' = DOMAIN obs,
           \A o \in DOMAIN obs :
              /\ obs'[o].version = obs[o].version /\ obs'[o].text = obs[o].text
              /\ obs'[o].incident = obs[o].incident,
           UNCHANGED <<released, agreed>>
    PROVE  AgreementInv'
<1>1. DecisionsOk'
  BY DecisionsMove DEF AgreementInv
<1>2. AgreementTypes'
  BY DEF AgreementInv, AgreementTypes
<1>3. ReleasesOk'
  BY DEF AgreementInv, AgreementTypes, ReleasesOk
<1>. QED BY <1>1, <1>2, <1>3 DEF AgreementInv

(* A new observation has no photo released.                                  *)
LEMMA CreateAgreed ==
    ASSUME CaseLinkingInv, AgreementInv, NEW o \in Observations, CreateObservation(o)
    PROVE  AgreementInv'
<1>. DEFINE r == [version |-> 1, text |-> 1, analysis |-> 0, incident |-> 0]
<1>1. /\ o \notin DOMAIN obs /\ obs' = Put(obs, o, r)
      /\ UNCHANGED <<jobs, runners, released, agreed>>
  BY DEF CreateObservation
<1>2. DOMAIN obs' = DOMAIN obs \cup {o} /\ obs'[o] = r /\ \A p \in DOMAIN obs : obs'[p] = obs[p]
  BY <1>1 DEF Put
<1>3. Asked' = Asked
  BY <1>1 DEF Asked, Requests
<1>4. \A c \in Nat : <<o, obs'[o].version, c>> \notin Asked
  BY <1>1, <1>2, NewIsNotAsked
<1>5. DecisionsOk'
  BY <1>1, <1>2, <1>3, <1>4, DecisionsMove DEF AgreementInv
<1>6. AgreementTypes' /\ ReleasesOk'
  BY <1>1, <1>2 DEF AgreementInv, AgreementTypes, ReleasesOk
<1>. QED BY <1>5, <1>6 DEF AgreementInv

(* A patch voids the decision, and with it whatever job it left behind.      *)
LEMMA PatchAgreed ==
    ASSUME CaseLinkingInv, AgreementInv, NEW o \in Observations, PatchObservation(o)
    PROVE  AgreementInv'
<1>1. /\ o \in DOMAIN obs /\ obs[o].incident = 0 /\ obs' = [obs EXCEPT ![o] = Patched(o)]
      /\ released' = released /\ agreed' = agreed \ {<<o, "decision">>}
  BY DEF PatchObservation, Linked
<1>2. RecordOk /\ obs[o] \in Observation /\ obs[o].version \in Nat
  BY <1>1, RecordFacts DEF CaseLinkingInv
<1>3. Patched(o).version = obs[o].version + 1 /\ Patched(o).incident = 0
  BY <1>1, <1>2 DEF Patched, Observation
<1>4. /\ DOMAIN obs' = DOMAIN obs /\ obs'[o] = Patched(o)
      /\ \A p \in DOMAIN obs \ {o} : obs'[p] = obs[p]
  BY <1>1
<1>5. Asked' \subseteq Asked
  BY <1>2, ReviseStep DEF Book!Revise
<1>6. \A c \in Nat : <<o, obs'[o].version, c>> \notin Asked
  BY <1>2, <1>3, <1>4, NewIsNotAsked
<1>7. DecisionsOk'
  BY <1>1, <1>4, <1>5, <1>6, DecisionsMove DEF AgreementInv
<1>8. AgreementTypes'
  BY <1>1, <1>4 DEF AgreementInv, AgreementTypes
<1>9. ReleasesOk'
  <2>1. SUFFICES ASSUME NEW p \in released
                 PROVE  \/ <<p, "command">> \in agreed'
                        \/ obs'[p].incident # 0 /\ <<p, "decision">> \in agreed'
    BY <1>1 DEF ReleasesOk
  <2>2. p \in DOMAIN obs /\ (\/ <<p, "command">> \in agreed
                             \/ obs[p].incident # 0 /\ <<p, "decision">> \in agreed)
    BY DEF AgreementInv, AgreementTypes, ReleasesOk
  <2>. QED BY <1>1, <1>4, <2>2
<1>. QED BY <1>7, <1>8, <1>9 DEF AgreementInv

(* So does an unlink, which takes the photo back too.                        *)
LEMMA UnlinkAgreed ==
    ASSUME CaseLinkingInv, AgreementInv, NEW o \in Observations, Unlink(o)
    PROVE  AgreementInv'
<1>1. /\ o \in DOMAIN obs /\ obs' = [obs EXCEPT ![o] = Unlinked(o)]
      /\ released' = released \ {o} /\ agreed' = agreed \ ({o} \X {"decision", "command"})
  BY DEF Unlink, Linked
<1>2. RecordOk /\ obs[o] \in Observation /\ obs[o].version \in Nat
  BY <1>1, RecordFacts DEF CaseLinkingInv
<1>3. Unlinked(o).version = obs[o].version + 1
  BY <1>2 DEF Unlinked, Observation
<1>4. /\ DOMAIN obs' = DOMAIN obs /\ obs'[o] = Unlinked(o)
      /\ \A p \in DOMAIN obs \ {o} : obs'[p] = obs[p]
  BY <1>1
<1>5. Asked' \subseteq Asked
  BY <1>2, LeaveStep DEF Book!Leave
<1>6. \A c \in Nat : <<o, obs'[o].version, c>> \notin Asked
  BY <1>2, <1>3, <1>4, NewIsNotAsked
<1>7. DecisionsOk'
  BY <1>1, <1>4, <1>5, <1>6, DecisionsMove DEF AgreementInv
<1>8. AgreementTypes'
  BY <1>1, <1>4 DEF AgreementInv, AgreementTypes
<1>9. ReleasesOk'
  <2>1. SUFFICES ASSUME NEW p \in released, p # o
                 PROVE  \/ <<p, "command">> \in agreed'
                        \/ obs'[p].incident # 0 /\ <<p, "decision">> \in agreed'
    BY <1>1 DEF ReleasesOk
  <2>2. p \in DOMAIN obs /\ (\/ <<p, "command">> \in agreed
                             \/ obs[p].incident # 0 /\ <<p, "decision">> \in agreed)
    BY DEF AgreementInv, AgreementTypes, ReleasesOk
  <2>. QED BY <1>1, <1>4, <2>1, <2>2
<1>. QED BY <1>7, <1>8, <1>9 DEF AgreementInv

(* A decision is asked for by the author, who stands by it.                  *)
LEMMA DecideAgreed ==
    ASSUME CaseLinkingInv, AgreementInv, NEW o \in Observations, NEW c \in {0} \cup CaseIds,
           Decide(o, c)
    PROVE  AgreementInv'
<1>1. /\ o \in DOMAIN obs /\ UNCHANGED <<obs, released>> /\ agreed' = AgreedBy(o)
  BY DEF Decide, Enqueue, record
<1>2. RecordOk /\ DOMAIN Notes = DOMAIN obs /\ Notes[o].revision = obs[o].version
  BY <1>1, BookFacts DEF CaseLinkingInv
<1>3. Asked' = Asked \cup {<<o, obs[o].version, c>>}
  BY <1>2, AskStep DEF Book!Ask
<1>4. agreed \subseteq agreed' /\ (Sharing(o) = "photos" => <<o, "decision">> \in agreed')
  BY <1>1 DEF AgreedBy
<1>5. DecisionsOk'
  <2>1. SUFFICES ASSUME NEW p \in DOMAIN obs, NEW d \in Nat, <<p, obs[p].version, d>> \in Asked',
                        obs[p].incident = 0, Sharing(p) = "photos"
                 PROVE  <<p, "decision">> \in agreed'
    BY <1>1 DEF DecisionsOk, Sharing
  <2>2. CASE p = o
    BY <1>4, <2>1, <2>2
  <2>3. CASE p # o
    BY <1>3, <1>4, <2>1, <2>3 DEF AgreementInv, DecisionsOk
  <2>. QED BY <2>2, <2>3
<1>6. AgreementTypes'
  BY <1>1 DEF AgreementInv, AgreementTypes, AgreedBy
<1>7. ReleasesOk'
  BY <1>1, <1>4 DEF AgreementInv, ReleasesOk
<1>. QED BY <1>5, <1>6, <1>7 DEF AgreementInv

(* What is shared by a command is agreed to, what is no longer shared is     *)
(* taken back.                                                               *)
LEMMA CommandAgreed ==
    ASSUME AgreementInv, UNCHANGED <<obs, jobs, runners>>, NEW some \in SUBSET DOMAIN obs,
           \/ released' = released \cup some /\ agreed' = Agree(some)
           \/ released' = released \ some /\ agreed' = Disagree(some)
    PROVE  AgreementInv'
<1>1. Asked' = Asked
  BY DEF Asked, Requests
<1>2. ASSUME NEW o \in DOMAIN obs, obs[o].incident = 0, <<o, "decision">> \in agreed
      PROVE  <<o, "decision">> \in agreed'
  BY <1>2 DEF Agree, Disagree, Linked
<1>3. DecisionsOk'
  BY <1>1, <1>2, DecisionsMove DEF AgreementInv
<1>4. AgreementTypes'
  BY DEF AgreementInv, AgreementTypes, Agree, Disagree
<1>5. ASSUME NEW o \in released'
      PROVE  \/ <<o, "command">> \in agreed'
             \/ obs[o].incident # 0 /\ <<o, "decision">> \in agreed'
  <2>1. CASE released' = released \cup some /\ agreed' = Agree(some)
    BY <1>5, <2>1 DEF Agree, AgreementInv, ReleasesOk
  <2>2. CASE released' = released \ some /\ agreed' = Disagree(some)
    <3>1. o \in released /\ o \notin some
      BY <1>5, <2>2
    <3>. QED BY <2>2, <3>1 DEF Disagree, AgreementInv, ReleasesOk
  <2>. QED BY <2>1, <2>2
<1>6. ReleasesOk'
  BY <1>5 DEF ReleasesOk
<1>. QED BY <1>3, <1>4, <1>6 DEF AgreementInv

(* approve and verification are such commands.                               *)
LEMMA ConsentAgreed ==
    ASSUME CaseLinkingInv, AgreementInv, NEW c \in CaseIds,
           Approve(c) \/ \E u \in Residents : Verify(c, u)
    PROVE  AgreementInv'
<1>1. UNCHANGED <<obs, jobs, runners>>
  BY DEF Approve, Verify
<1>2. CASE Approve(c)
  <2>1. PICK some \in SUBSET DOMAIN obs :
            \/ released' = released \cup some /\ agreed' = Agree(some)
            \/ released' = released \ some /\ agreed' = Disagree(some)
    BY <1>2 DEF Approve
  <2>. QED BY <1>1, <2>1, CommandAgreed
<1>3. ASSUME NEW u \in Residents, Verify(c, u) PROVE AgreementInv'
  <2>1. CASE UNCHANGED <<released, agreed>>
    <3>1. Asked' = Asked
      BY <1>1 DEF Asked, Requests
    <3>. QED BY <1>1, <2>1, <3>1, AgreementsStay
  <2>2. CASE \E o \in DOMAIN obs : released' = released \cup {o} /\ agreed' = Agree({o})
    BY <1>1, <2>2, CommandAgreed
  <2>. QED BY <1>3, <2>1, <2>2 DEF Verify
<1>. QED BY <1>2, <1>3

(* A job that links releases what its author stands by: the request is about *)
(* the present revision.                                                     *)
LEMMA JoinAgreed ==
    ASSUME CaseLinkingAssumption, CaseLinkingInv, AgreementInv, NEW w \in Runners,
           runners[w].pc # "idle", runners[w].job.kind = "decide",
           ~IsLinked(w), IsCurrent(runners[w].job), UNCHANGED <<jobs, agreed>>,
           NEW c \in Nat, c # 0, Joined(runners[w].job.obs, c), Goto(w, "done")
    PROVE  AgreementInv'
<1>1. RecordOk /\ runners[w].job \in Request /\ RequestOk(runners[w].job)
  BY RunnerFacts
<1>2. PICK o \in DOMAIN obs : o = runners[w].job.obs
  BY <1>1 DEF RequestOk
<1>3. obs[o].incident = 0 /\ Joined(o, c)
  BY <1>2 DEF IsLinked, Linked
<1>4. <<o, obs[o].version, runners[w].job.case>> \in Asked
  BY <1>2, RunnerAsks DEF IsCurrent
<1>5. Sharing(o) = "photos" => <<o, "decision">> \in agreed
  BY <1>3, <1>4, AskedOfThePast DEF AgreementInv, DecisionsOk
<1>6. /\ DOMAIN obs' = DOMAIN obs /\ obs'[o].incident = c
      /\ \A p \in DOMAIN obs \ {o} : obs'[p] = obs[p]
  BY <1>1, <1>3, JoinedOk
<1>7. Asked' = Asked
  BY GotoAsks
<1>8. DecisionsOk'
  BY <1>6, <1>7, DecisionsMove DEF AgreementInv
<1>9. released' = ReleasedWith(o)
  BY <1>3 DEF Joined
<1>10. AgreementTypes'
  BY <1>6, <1>9 DEF AgreementInv, AgreementTypes, ReleasedWith
<1>11. ReleasesOk'
  <2>1. SUFFICES ASSUME NEW p \in released'
                 PROVE  \/ <<p, "command">> \in agreed
                        \/ obs'[p].incident # 0 /\ <<p, "decision">> \in agreed
    BY DEF ReleasesOk
  <2>2. CASE p \in released
    BY <1>3, <1>6, <2>2 DEF AgreementInv, AgreementTypes, ReleasesOk
  <2>3. CASE p = o /\ Sharing(o) = "photos"
    BY <1>5, <1>6, <2>3
  <2>. QED BY <1>9, <2>1, <2>2, <2>3 DEF ReleasedWith
<1>. QED BY <1>8, <1>10, <1>11 DEF AgreementInv

(* The jobs' other steps release nothing.                                    *)
LEMMA WorkAgreed ==
    ASSUME CaseLinkingInv, AgreementInv, NEW w \in Runners,
           \/ \E q \in DOMAIN jobs : Claim(w, q)
           \/ ReadForAnalysis(w) \/ RecordAnalysis(w) \/ CheckDecision(w)
           \/ Settle(w) \/ Crash(w)
    PROVE  AgreementInv'
<1>1. UNCHANGED <<released, agreed>>
  BY DEF Claim, ReadForAnalysis, RecordAnalysis, CheckDecision, Settle, Crash, record
<1>2. Asked' \subseteq Asked
  BY WorkStep DEF Book!Forget
<1>3. /\ DOMAIN obs' = DOMAIN obs
      /\ \A o \in DOMAIN obs :
            /\ obs'[o].version = obs[o].version /\ obs'[o].text = obs[o].text
            /\ obs'[o].incident = obs[o].incident
  <2>1. CASE UNCHANGED obs
    BY <2>1
  <2>2. CASE ~UNCHANGED obs
    <3>1. RecordAnalysis(w)
      BY <2>2 DEF Claim, ReadForAnalysis, CheckDecision, Settle, Crash, record
    <3>2. PICK o \in DOMAIN obs : o = runners[w].job.obs
      BY <3>1, RunnerFacts DEF RecordAnalysis, RequestOk
    <3>3. obs' = [obs EXCEPT ![o].analysis = runners[w].seen]
      BY <2>2, <3>1, <3>2 DEF RecordAnalysis
    <3>4. obs[o] \in Observation
      BY RunnerFacts, RecordFacts
    <3>. QED BY <3>3, <3>4 DEF Observation
  <2>. QED BY <2>1, <2>2
<1>. QED BY <1>1, <1>2, <1>3, AgreementsStay

(* The last transaction of a decision links, or leaves all as it is.         *)
LEMMA RecordDecisionAgreed ==
    ASSUME CaseLinkingAssumption, CaseLinkingInv, AgreementInv, NEW w \in Runners,
           RecordDecision(w)
    PROVE  AgreementInv'
<1>. DEFINE q == runners[w].job
<1>1. runners[w].pc # "idle" /\ q.kind = "decide" /\ UNCHANGED <<jobs, agreed>>
  BY DEF RecordDecision
<1>2. CASE Refuse(w, "done") \/ Refuse(w, "raised")
  <2>1. UNCHANGED <<obs, released>> /\ Asked' = Asked
    BY <1>1, <1>2, GotoAsks DEF Refuse, record
  <2>. QED BY <1>1, <2>1, AgreementsStay
<1>3. CASE ~IsLinked(w) /\ IsCurrent(q) /\ CreateCase(w, q.obs)
  <2>1. PICK c \in Nat : c = Len(cases) + 1
    BY RunnerFacts, LenProperties DEF RecordOk, RecordTypes
  <2>2. c # 0
    <3>1. Len(cases) \in Nat
      BY RunnerFacts, LenProperties DEF RecordOk, RecordTypes
    <3>. QED BY <2>1, <3>1
  <2>3. Joined(q.obs, c) /\ Goto(w, "done")
    BY <1>3, <2>1 DEF CreateCase
  <2>. QED BY <1>1, <1>3, <2>2, <2>3, JoinAgreed
<1>4. CASE ~IsLinked(w) /\ IsCurrent(q) /\ LinkToCase(w, q.obs, q.case)
  <2>1. PICK c \in CaseIds : c = q.case
    BY <1>4 DEF LinkToCase, Candidates
  <2>2. c \in Nat /\ c # 0
    BY RunnerFacts, RecordFacts
  <2>3. Joined(q.obs, c) /\ Goto(w, "done")
    BY <1>4, <2>1 DEF LinkToCase
  <2>. QED BY <1>1, <1>4, <2>2, <2>3, JoinAgreed
<1>. QED BY <1>2, <1>3, <1>4 DEF RecordDecision

(* Every step keeps what was agreed to.                                      *)
LEMMA NextAgreed ==
    ASSUME CaseLinkingAssumption, CaseLinkingInv, AgreementInv, [Next]_vars
    PROVE  AgreementInv'
<1>1. ASSUME NEW o \in Observations,
             CreateObservation(o) \/ PatchObservation(o) \/ Unlink(o)
      PROVE  AgreementInv'
  BY <1>1, CreateAgreed, PatchAgreed, UnlinkAgreed
<1>2. ASSUME NEW o \in Observations, NEW c \in {0} \cup CaseIds, Decide(o, c)
      PROVE  AgreementInv'
  BY <1>2, DecideAgreed
<1>3. ASSUME NEW o \in Observations, StartAnalysis(o) PROVE AgreementInv'
  <2>1. UNCHANGED <<obs, released, agreed>>
    BY <1>3 DEF StartAnalysis, Enqueue, record
  <2>2. Asked' \subseteq Asked
    BY <1>3, StartAnalysisStep DEF Book!Forget
  <2>. QED BY <2>1, <2>2, AgreementsStay
<1>4. ASSUME NEW c \in CaseIds, Approve(c) \/ \E u \in Residents : Verify(c, u)
      PROVE  AgreementInv'
  BY <1>4, ConsentAgreed
<1>5. ASSUME NEW c \in CaseIds, NEW u \in Residents, Follow(c, u) \/ Unfollow(c, u)
      PROVE  AgreementInv'
  <2>1. UNCHANGED <<obs, released, agreed, jobs, runners>>
    BY <1>5 DEF Follow, Unfollow
  <2>2. Asked' = Asked
    BY <2>1 DEF Asked, Requests
  <2>. QED BY <2>1, <2>2, AgreementsStay
<1>6. ASSUME NEW w \in Runners,
             \/ \E q \in DOMAIN jobs : Claim(w, q)
             \/ ReadForAnalysis(w) \/ RecordAnalysis(w) \/ CheckDecision(w)
             \/ Settle(w) \/ Crash(w)
      PROVE  AgreementInv'
  BY <1>6, WorkAgreed
<1>7. ASSUME NEW w \in Runners, RecordDecision(w) PROVE AgreementInv'
  BY <1>7, RecordDecisionAgreed
<1>8. CASE UNCHANGED vars
  <2>1. UNCHANGED <<obs, released, agreed, jobs, runners>>
    BY <1>8 DEF vars
  <2>2. Asked' = Asked
    BY <2>1 DEF Asked, Requests
  <2>. QED BY <2>1, <2>2, AgreementsStay
<1>. QED BY <1>1, <1>2, <1>3, <1>4, <1>5, <1>6, <1>7, <1>8 DEF Next

(* Agreements and the decisions that may still come, in every state.         *)
THEOREM AgreementInvariance == ASSUME CaseLinkingAssumption PROVE Spec => []AgreementInv
<1>1. Init => AgreementInv
  BY DEF Init, AgreementInv, AgreementTypes, ReleasesOk, DecisionsOk
<1>2. CaseLinkingInv /\ AgreementInv /\ [Next]_vars => AgreementInv'
  BY NextAgreed
<1>. QED BY <1>1, <1>2, CaseLinkingInvariance, PTL DEF Spec

(* Others are shown a photo only while its author agrees to it, for any      *)
(* residents, observations and runners: a decision that waited, is retried   *)
(* or runs twice never releases one that was edited or taken back since.     *)
THEOREM PhotosAreConsented == ASSUME CaseLinkingAssumption PROVE Spec => []PhotosAreAgreed
<1>1. AgreementInv => PhotosAreAgreed
  BY DEF AgreementInv, ReleasesOk, PhotosAreAgreed
<1>. QED BY <1>1, AgreementInvariance, PTL

(* Observations, cases, jobs and runners stay of their types.                *)
THEOREM TypeCorrect == ASSUME CaseLinkingAssumption PROVE Spec => []TypeOK
<1>1. CaseLinkingInv /\ AgreementInv => TypeOK
  <2>1. SUFFICES ASSUME RecordTypes, JobTypes, AgreementTypes PROVE TypeOK
    BY DEF CaseLinkingInv, RecordOk, AgreementInv
  <2>. HIDE DEF Observation, Incident, Request
  <2>2. \A o \in DOMAIN obs : o \in Observations /\ obs[o] \in Observation
    BY <2>1 DEF RecordTypes
  <2>3. \A q \in DOMAIN jobs :
           q \in Request /\ jobs[q] \in [status : {"live", "completed"}, owner : Runners \cup {None}]
    BY <2>1 DEF JobTypes, JobRecord
  <2>4. \A w \in Runners : runners[w].pc \in {"idle", "claimed", "thinking", "done", "raised"}
    BY <2>1 DEF JobTypes, RunnerRecord
  <2>. QED BY <2>1, <2>2, <2>3, <2>4 DEF TypeOK, RecordTypes, JobTypes, AgreementTypes
<1>. QED BY <1>1, CaseLinkingInvariance, AgreementInvariance, PTL
===============================================================================

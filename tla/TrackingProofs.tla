---------------------------- MODULE TrackingProofs ----------------------------
(***************************************************************************)
(* Proofs about Tracking for any runners, notes, answers and bounds:       *)
(* its types, that the record of a ticket is consistent however polls and  *)
(* the demo control overlap, that polling is not given up, and that it     *)
(* takes a fault to begin a second chain of polls.                         *)
(*                                                                         *)
(* The invariant has two halves that share no variable: what is recorded   *)
(* about the ticket, and the jobs with their runners.                      *)
(***************************************************************************)
EXTENDS Tracking, FiniteSetTheorems, SequenceTheorems, TLAPS

JobRecord ==
    [status : {"absent", "pending", "running", "completed", "failed"},
     checks : 0 .. MaxChecks - 1, runs : 0 .. MaxRetries, leased : BOOLEAN]

RunnerRecord ==
    [pc : {"idle", "claimed", "polled", "recorded", "erred"}, job : JobIds \cup {0}, seen : Reading]

RecordedOk == HistoryIsNews /\ ResolutionIsResidents

(* A busy runner has a job that is running under its lease, or that it has   *)
(* settled without knowing.                                                  *)
RunnerOk(w) ==
    LET job == jobs[runners[w].job]
    IN  /\ runners[w].pc = "idle" <=> runners[w].job = 0
        /\ runners[w].pc \in {"claimed", "polled", "recorded"} => job.status = "running" /\ job.leased
        /\ runners[w].pc = "erred" => (job.status = "running" /\ job.leased) \/ job.status = "completed"

(* And nobody else has it.                                                   *)
Exclusive ==
    \A v, w \in Runners : v # w /\ runners[v].job # 0 => runners[v].job # runners[w].job

(* j carries the pursuit on: it is still to record, it has failed for good,  *)
(* or it is the last of its chain.                                           *)
Pursues(j) ==
    \/ jobs[j].status = "failed"
    \/ jobs[j].status \in {"pending", "running", "completed"} /\ jobs[j].checks + 1 = MaxChecks
    \/ Live(j) /\ \A w \in Runners : runners[w].job = j => runners[w].pc # "recorded"

Pursued == ticket.reading.status # "CLOSED" /\ recorder = "poll" => \E j \in JobIds : Pursues(j)

RecordedRunners == {w \in Runners : runners[w].pc = "recorded"}

(* Runners that are about to bring a completed job back.                     *)
Undoing == {w \in Runners : runners[w].pc = "erred" /\ jobs[runners[w].job].status = "completed"}

(* A chain that may come back counts as well.                                *)
ChainsOk ==
    Cardinality(LiveJobs) + Cardinality(Undoing) <= 1 + faults + Cardinality(RecordedRunners)

RunnersOk == (\A w \in Runners : RunnerOk(w)) /\ Exclusive

TrackingInv == TypeOK /\ RecordedOk /\ RunnersOk /\ Pursued /\ ChainsOk

-------------------------------------------------------------------------------
(* What is recorded *)

(* The history kept is of its type, ends with what was appended, and repeats *)
(* nothing, whether or not its beginning is dropped.                         *)
LEMMA LatestOk ==
    ASSUME TrackingAssumption, NEW h \in Seq(Reading), Len(h) <= MaxHistory, NEW s \in Reading,
           \A i \in 1 .. Len(h) - 1 : h[i] # h[i + 1],
           h # <<>> => h[Len(h)] # s
    PROVE  LET l == Latest(Append(h, s))
           IN  /\ l \in Seq(Reading) /\ Len(l) <= MaxHistory
               /\ l # <<>> /\ l[Len(l)] = s
               /\ \A i \in 1 .. Len(l) - 1 : l[i] # l[i + 1]
<1>. DEFINE a == Append(h, s)
            n == Len(h) + 1
<1>1. /\ a \in Seq(Reading) /\ Len(a) = n /\ a[n] = s /\ n \in Nat \ {0}
      /\ \A i \in 1 .. Len(h) : a[i] = h[i]
  BY AppendProperties, LenProperties
<1>2. \A i \in 1 .. n - 1 : a[i] # a[i + 1]
  <2>1. SUFFICES ASSUME NEW i \in 1 .. n - 1 PROVE a[i] # a[i + 1]
    OBVIOUS
  <2>2. a[i] = h[i] /\ Len(h) \in Nat
    BY <1>1, LenProperties
  <2>3. CASE i = Len(h)
    BY <1>1, <2>2, <2>3, EmptySeq
  <2>4. CASE i # Len(h)
    BY <1>1, <2>2, <2>4
  <2>. QED BY <2>3, <2>4
<1>. HIDE DEF a
<1>3. CASE n > MaxHistory
  <2>. DEFINE l == SubSeq(a, n - MaxHistory + 1, n)
  <2>1. MaxHistory \in Nat \ {0}
    BY DEF TrackingAssumption
  <2>2. n - MaxHistory + 1 \in 1 .. n + 1 /\ n \in 0 .. n
    BY <1>1, <1>3, <2>1
  <2>3. /\ l \in Seq(Reading) /\ Len(l) = MaxHistory
        /\ \A i \in 1 .. MaxHistory : l[i] = a[n - MaxHistory + i]
    <3>. DEFINE m == n - MaxHistory + 1
    <3>1. /\ m \in 1 .. n + 1 /\ n \in m - 1 .. n /\ n - m + 1 = MaxHistory
          /\ \A i \in 1 .. MaxHistory : m + i - 1 = n - MaxHistory + i
      BY <1>1, <1>3, <2>1
    <3>. HIDE DEF m
    <3>2. /\ SubSeq(a, m, n) \in Seq(Reading) /\ Len(SubSeq(a, m, n)) = n - m + 1
          /\ \A i \in 1 .. n - m + 1 : SubSeq(a, m, n)[i] = a[m + i - 1]
      BY <1>1, <3>1, SubSeqProperties
    <3>3. l = SubSeq(a, m, n)
      BY DEF m
    <3>. HIDE DEF l
    <3>. QED BY <3>1, <3>2, <3>3
  <2>. HIDE DEF l
  <2>4. l # <<>> /\ l[Len(l)] = s
    <3>1. MaxHistory \in 1 .. MaxHistory /\ n - MaxHistory + MaxHistory = n
      BY <1>1, <2>1
    <3>2. l[MaxHistory] = a[n]
      BY <2>3, <3>1
    <3>3. l # <<>>
      BY <2>1, <2>3, EmptySeq
    <3>. QED BY <1>1, <2>3, <3>2, <3>3
  <2>5. \A i \in 1 .. Len(l) - 1 : l[i] # l[i + 1]
    <3>1. SUFFICES ASSUME NEW i \in 1 .. MaxHistory - 1 PROVE l[i] # l[i + 1]
      BY <2>3
    <3>2. l[i] = a[n - MaxHistory + i] /\ l[i + 1] = a[(n - MaxHistory + i) + 1]
      <4>1. i \in 1 .. MaxHistory /\ i + 1 \in 1 .. MaxHistory
        BY <2>1
      <4>2. n - MaxHistory + (i + 1) = (n - MaxHistory + i) + 1
        BY <2>1, <1>1
      <4>. QED BY <2>3, <4>1, <4>2
    <3>3. n - MaxHistory + i \in 1 .. n - 1
      BY <2>1, <1>1, <1>3
    <3>. QED BY <3>2, <3>3, <1>2
  <2>6. Latest(a) = l
    BY <1>1, <1>3 DEF Latest, l
  <2>. QED BY <2>1, <2>3, <2>4, <2>5, <2>6 DEF a
<1>4. CASE ~(n > MaxHistory)
  <2>1. Latest(a) = a
    BY <1>1, <1>4 DEF Latest
  <2>2. a # <<>>
    BY <1>1, EmptySeq
  <2>. QED BY <1>1, <1>2, <1>4, <2>1, <2>2 DEF a, TrackingAssumption
<1>. QED BY <1>3, <1>4, <1>1 DEF TrackingAssumption

(* Whoever records a reading, and however late, record, incident and history *)
(* agree afterwards and the residents' word stands.                          *)
LEMMA RecordStatusOk ==
    ASSUME TrackingAssumption, TypeOK, RecordedOk, NEW reading \in Reading,
           NEW who \in {"poll", "demo"}, RecordStatus(reading, who), UNCHANGED submission
    PROVE  /\ RecordedOk'
           /\ incident' \in [agency : Statuses \cup {"UNKNOWN"},
                             resolution : Answers \cup {"UNVERIFIED", "VERIFICATION_REQUESTED"}]
           /\ ticket'.reading = reading
           /\ ticket'.history \in Seq(Reading) /\ Len(ticket'.history) <= MaxHistory
           /\ recorder' = who /\ answered' = answered
<1>. DEFINE history == IF IsNews(reading) THEN Latest(Append(ticket.history, reading))
                       ELSE ticket.history
<1>1. /\ ticket' = [reading |-> reading, history |-> history]
      /\ incident' = [agency |-> reading.status, resolution |-> ResolutionAfter(reading.status)]
      /\ recorder' = who /\ answered' = answered
  BY DEF RecordStatus
<1>2. /\ history \in Seq(Reading) /\ Len(history) <= MaxHistory
      /\ history # <<>> => history[Len(history)] = reading
      /\ \A i \in 1 .. Len(history) - 1 : history[i] # history[i + 1]
  <2>1. /\ ticket.history \in Seq(Reading) /\ Len(ticket.history) <= MaxHistory
        /\ ticket.history # <<>> => ticket.history[Len(ticket.history)] = ticket.reading
        /\ \A i \in 1 .. Len(ticket.history) - 1 : ticket.history[i] # ticket.history[i + 1]
    BY DEF TypeOK, RecordedOk, HistoryIsNews
  <2>2. CASE IsNews(reading)
    <3>1. ticket.history # <<>> => ticket.history[Len(ticket.history)] # reading
      BY <2>1, <2>2 DEF IsNews
    <3>2. LET l == Latest(Append(ticket.history, reading))
          IN  /\ l \in Seq(Reading) /\ Len(l) <= MaxHistory
              /\ l # <<>> /\ l[Len(l)] = reading
              /\ \A i \in 1 .. Len(l) - 1 : l[i] # l[i + 1]
      BY <2>1, <3>1, LatestOk
    <3>3. history = Latest(Append(ticket.history, reading))
      BY <2>2
    <3>. HIDE DEF history
    <3>. QED BY <3>2, <3>3
  <2>3. CASE ~IsNews(reading)
    BY <2>1, <2>3 DEF IsNews
  <2>. QED BY <2>2, <2>3
<1>. HIDE DEF history
<1>3. /\ ticket'.reading = reading /\ ticket'.history = history
      /\ incident'.agency = reading.status
      /\ incident'.resolution = ResolutionAfter(reading.status)
  BY <1>1
<1>4. HistoryIsNews'
  BY <1>2, <1>3 DEF HistoryIsNews
<1>5. /\ ResolutionAfter(reading.status) \in Answers \cup {"UNVERIFIED", "VERIFICATION_REQUESTED"}
      /\ ResolutionIsResidents'
  BY <1>1, <1>3 DEF ResolutionAfter, TypeOK, RecordedOk, ResolutionIsResidents, TrackingAssumption
<1>6. incident' \in [agency : Statuses \cup {"UNKNOWN"},
                     resolution : Answers \cup {"UNVERIFIED", "VERIFICATION_REQUESTED"}]
  BY <1>1, <1>5 DEF Reading
<1>. QED BY <1>1, <1>2, <1>3, <1>4, <1>5, <1>6 DEF RecordedOk

-------------------------------------------------------------------------------
(* Counting *)

(* Sets that differ in one element at most differ by one at most.            *)
LEMMA OneMore ==
    ASSUME NEW A, NEW B, NEW x, IsFiniteSet(A), IsFiniteSet(B),
           \A y : y # x => (y \in A <=> y \in B)
    PROVE  /\ Cardinality(A) \in Nat /\ Cardinality(B) \in Nat
           /\ (x \in A <=> x \in B) => Cardinality(B) = Cardinality(A)
           /\ x \notin A /\ x \in B => Cardinality(B) = Cardinality(A) + 1
           /\ x \in A /\ x \notin B => Cardinality(A) = Cardinality(B) + 1
<1>1. CASE x \in A <=> x \in B
  <2>1. A = B
    BY <1>1
  <2>. QED BY <1>1, <2>1, FS_CardinalityType
<1>2. CASE x \notin A /\ x \in B
  <2>1. B = A \cup {x}
    BY <1>2
  <2>. QED BY <1>2, <2>1, FS_AddElement, FS_CardinalityType
<1>3. CASE x \in A /\ x \notin B
  <2>1. A = B \cup {x}
    BY <1>3
  <2>. QED BY <1>3, <2>1, FS_AddElement, FS_CardinalityType
<1>. QED BY <1>1, <1>2, <1>3

(* There are finitely many jobs and runners.                                 *)
LEMMA FiniteSets ==
    ASSUME TrackingAssumption
    PROVE  /\ IsFiniteSet(LiveJobs) /\ IsFiniteSet(LiveJobs')
           /\ IsFiniteSet(RecordedRunners) /\ IsFiniteSet(RecordedRunners')
           /\ IsFiniteSet(Undoing) /\ IsFiniteSet(Undoing')
<1>1. IsFiniteSet(JobIds)
  BY FS_Interval DEF TrackingAssumption, JobIds
<1>2. LiveJobs \subseteq JobIds /\ LiveJobs' \subseteq JobIds
  BY DEF LiveJobs
<1>3. /\ RecordedRunners \subseteq Runners /\ RecordedRunners' \subseteq Runners
      /\ Undoing \subseteq Runners /\ Undoing' \subseteq Runners
  BY DEF RecordedRunners, Undoing
<1>. QED BY <1>1, <1>2, <1>3, FS_Subset DEF TrackingAssumption

-------------------------------------------------------------------------------
(* The jobs and their runners *)

One(holds) == IF holds THEN 1 ELSE 0

(* How much a step adds to the chains beyond what it adds to their bound.    *)
LEMMA ChainsMove ==
    ASSUME TrackingAssumption, TypeOK, ChainsOk, faults' \in Nat,
           NEW w \in Runners, NEW j \in JobIds,
           \A v \in Runners \ {w} : runners'[v] = runners[v],
           \A i \in JobIds \ {j} : jobs'[i] = jobs[i],
           \A v \in Runners \ {w} : runners[v].pc = "erred" => runners[v].job # j /\ runners[v].job \in JobIds,
           LET before == One(j \in LiveJobs) + One(w \in Undoing) - One(w \in RecordedRunners)
               after == One(j \in LiveJobs') + One(w \in Undoing') - One(w \in RecordedRunners')
           IN  after - before <= faults' - faults
    PROVE  ChainsOk'
<1>1. /\ \A i : i # j => (i \in LiveJobs <=> i \in LiveJobs')
      /\ \A v : v # w => (v \in RecordedRunners <=> v \in RecordedRunners')
      /\ \A v : v # w => (v \in Undoing <=> v \in Undoing')
  BY DEF LiveJobs, Live, RecordedRunners, Undoing
<1>. DEFINE L == Cardinality(LiveJobs)
            R == Cardinality(RecordedRunners)
            U == Cardinality(Undoing)
            LL == Cardinality(LiveJobs')
            RR == Cardinality(RecordedRunners')
            UU == Cardinality(Undoing')
<1>2. L \in Nat /\ LL \in Nat /\ LL = L + One(j \in LiveJobs') - One(j \in LiveJobs)
  BY <1>1, FiniteSets, OneMore DEF One
<1>3. R \in Nat /\ RR \in Nat /\ RR = R + One(w \in RecordedRunners') - One(w \in RecordedRunners)
  BY <1>1, FiniteSets, OneMore DEF One
<1>4. U \in Nat /\ UU \in Nat /\ UU = U + One(w \in Undoing') - One(w \in Undoing)
  BY <1>1, FiniteSets, OneMore DEF One
<1>5. faults \in Nat /\ L + U <= 1 + faults + R
  BY DEF TypeOK, ChainsOk
<1>6. /\ One(j \in LiveJobs') \in Int /\ One(j \in LiveJobs) \in Int
      /\ One(w \in RecordedRunners') \in Int /\ One(w \in RecordedRunners) \in Int
      /\ One(w \in Undoing') \in Int /\ One(w \in Undoing) \in Int
  BY DEF One
<1>7. LL + UU <= 1 + faults' + RR
  BY <1>2, <1>3, <1>4, <1>5, <1>6
<1>. QED BY <1>7 DEF ChainsOk

(* The records of jobs and runners in the terms of the proofs.               *)
LEMMA RecordTypes ==
    ASSUME TrackingAssumption, TypeOK
    PROVE  /\ jobs \in [JobIds -> JobRecord] /\ runners \in [Runners -> RunnerRecord]
           /\ 0 \notin JobIds /\ MaxRetries \in Nat \ {0} /\ MaxChecks \in Nat \ {0}
           /\ \A j \in JobIds : jobs[j].checks \in Nat /\ jobs[j].checks + 1 <= MaxChecks
<1>1. 0 \notin JobIds /\ MaxRetries \in Nat \ {0} /\ MaxChecks \in Nat \ {0}
  BY DEF JobIds, TrackingAssumption
<1>2. jobs \in [JobIds -> JobRecord] /\ runners \in [Runners -> RunnerRecord]
  BY DEF TypeOK, JobRecord, RunnerRecord
<1>3. ASSUME NEW j \in JobIds
      PROVE  jobs[j].checks \in Nat /\ jobs[j].checks + 1 <= MaxChecks
  <2>1. jobs[j] \in JobRecord
    BY <1>2
  <2>2. jobs[j].checks \in 0 .. MaxChecks - 1
    BY <2>1 DEF JobRecord
  <2>. QED
    BY <1>1, <2>2
<1>. QED
  BY <1>1, <1>2, <1>3

(* A step of runner w on job j, which nobody else has: w becomes q and the   *)
(* job r.                                                                    *)
RunnerMove(w, j, q, r) ==
    /\ q \in RunnerRecord /\ r \in JobRecord
    /\ runners' = [runners EXCEPT ![w] = q] /\ jobs' = [jobs EXCEPT ![j] = r]
    /\ \A v \in Runners \ {w} : runners[v].job # j
    /\ q.job \in {0, j} /\ (q.pc = "idle" <=> q.job = 0)
    /\ q.pc \in {"claimed", "polled", "recorded"} => r.status = "running" /\ r.leased
    /\ q.pc = "erred" => (r.status = "running" /\ r.leased) \/ r.status = "completed"

(* It keeps the types, and every job with its runner.                        *)
LEMMA RunnerMoves ==
    ASSUME TrackingAssumption, TypeOK, RunnersOk,
           NEW w \in Runners, NEW j \in JobIds, NEW q, NEW r, RunnerMove(w, j, q, r)
    PROVE  /\ jobs' \in [JobIds -> JobRecord] /\ runners' \in [Runners -> RunnerRecord]
           /\ runners'[w] = q /\ jobs'[j] = r
           /\ \A v \in Runners \ {w} : runners'[v] = runners[v]
           /\ \A i \in JobIds \ {j} : jobs'[i] = jobs[i]
           /\ RunnersOk'
           /\ \A v \in Runners \ {w} :
                 runners[v].pc = "erred" => runners[v].job # j /\ runners[v].job \in JobIds
<1>. USE DEF RunnerMove
<1>1. /\ jobs \in [JobIds -> JobRecord] /\ runners \in [Runners -> RunnerRecord]
      /\ 0 \notin JobIds /\ q.pc # "idle" => q.job = j
  BY RecordTypes
<1>2. \A v \in Runners : runners[v].job \in JobIds \cup {0} /\ RunnerOk(v)
  BY <1>1 DEF RunnerRecord, RunnersOk
<1>. HIDE DEF JobRecord, RunnerRecord
<1>3. /\ jobs' \in [JobIds -> JobRecord] /\ runners' \in [Runners -> RunnerRecord]
      /\ runners'[w] = q /\ jobs'[j] = r
      /\ \A v \in Runners \ {w} : runners'[v] = runners[v]
      /\ \A i \in JobIds \ {j} : jobs'[i] = jobs[i]
  BY <1>1
<1>4. RunnerOk(w)'
  BY <1>1, <1>3 DEF RunnerOk
<1>5. \A v \in Runners \ {w} : RunnerOk(v)'
  <2>1. SUFFICES ASSUME NEW v \in Runners \ {w} PROVE RunnerOk(v)'
    OBVIOUS
  <2>2. /\ runners'[v] = runners[v] /\ RunnerOk(v)
        /\ runners[v].job # 0 => jobs'[runners[v].job] = jobs[runners[v].job]
    BY <1>2, <1>3
  <2>. QED BY <2>2, <1>2 DEF RunnerOk
<1>6. Exclusive'
  BY <1>1, <1>3 DEF RunnersOk, Exclusive
<1>7. \A v \in Runners \ {w} :
          runners[v].pc = "erred" => runners[v].job # j /\ runners[v].job \in JobIds
  BY <1>2 DEF RunnerOk
<1>. QED BY <1>3, <1>4, <1>5, <1>6, <1>7 DEF RunnersOk

(* Such a step does not end the pursuit unless it is on the job that pursues.*)
LEMMA PursuitMoves ==
    ASSUME TrackingAssumption, TypeOK, Pursued, UNCHANGED <<ticket, recorder>>,
           NEW w \in Runners, NEW j \in JobIds,
           \A v \in Runners \ {w} : runners'[v] = runners[v],
           \A i \in JobIds \ {j} : jobs'[i] = jobs[i],
           runners'[w].job \in {0, j}, Pursues(j) => Pursues(j)'
    PROVE  Pursued'
<1>1. SUFFICES ASSUME ticket.reading.status # "CLOSED", recorder = "poll"
               PROVE  \E i \in JobIds : Pursues(i)'
  BY DEF Pursued
<1>2. PICK i \in JobIds : Pursues(i)
  BY <1>1 DEF Pursued
<1>3. CASE i = j
  BY <1>2, <1>3
<1>4. CASE i # j
  <2>1. runners'[w].job # i
    BY <1>4, RecordTypes
  <2>. QED BY <1>2, <1>4, <2>1 DEF Pursues, Live
<1>. QED BY <1>3, <1>4

(* What is recorded stays consistent when nothing is recorded.               *)
LEMMA RecordedStays ==
    ASSUME RecordedOk, UNCHANGED <<incident, ticket, answered, submission>>
    PROVE  RecordedOk'
  BY DEF RecordedOk, HistoryIsNews, ResolutionIsResidents

(* A job's share of the chains, given its runner.                            *)
Share(pc, status) ==
    One(status \in {"pending", "running"}) + One(pc = "erred" /\ status = "completed")
        - One(pc = "recorded")

(* What a step of a runner that records nothing has to show: that the job    *)
(* pursues the ticket if it did before, and that it adds no chain without a  *)
(* fault.                                                                    *)
LEMMA RunnerStepOk ==
    ASSUME TrackingAssumption, TrackingInv,
           NEW w \in Runners, NEW j \in JobIds, NEW q, NEW r, RunnerMove(w, j, q, r),
           runners[w].job \in {0, j},
           UNCHANGED <<world, incident, ticket, answered, recorder>>,
           faults' \in 0 .. MaxFaults,
           Pursues(j) => \/ r.status = "failed"
                         \/ r.status # "absent" /\ r.checks + 1 = MaxChecks
                         \/ r.status \in {"pending", "running"} /\ q.pc # "recorded",
           Share(q.pc, r.status) - Share(runners[w].pc, jobs[j].status) <= faults' - faults
    PROVE  TrackingInv'
<1>1. TypeOK /\ RecordedOk /\ RunnersOk /\ Pursued /\ ChainsOk
  BY DEF TrackingInv
<1>2. /\ jobs' \in [JobIds -> JobRecord] /\ runners' \in [Runners -> RunnerRecord]
      /\ runners'[w] = q /\ jobs'[j] = r
      /\ \A v \in Runners \ {w} : runners'[v] = runners[v]
      /\ \A i \in JobIds \ {j} : jobs'[i] = jobs[i]
      /\ RunnersOk'
      /\ \A v \in Runners \ {w} :
            runners[v].pc = "erred" => runners[v].job # j /\ runners[v].job \in JobIds
  BY <1>1, RunnerMoves
<1>3. TypeOK'
  BY <1>1, <1>2 DEF TypeOK, JobRecord, RunnerRecord, world
<1>4. RecordedOk'
  BY <1>1, RecordedStays DEF world
<1>5. Pursued'
  <2>1. Pursues(j) => Pursues(j)'
    BY <1>2 DEF Pursues, Live, JobRecord, RunnerMove
  <2>2. runners'[w].job \in {0, j}
    BY <1>2 DEF RunnerMove
  <2>. QED BY <1>1, <1>2, <2>1, <2>2, PursuitMoves
<1>6. ChainsOk'
  <2>1. runners[w].pc = "idle" <=> runners[w].job = 0
    BY <1>1 DEF RunnersOk, RunnerOk
  <2>2. /\ j \in LiveJobs <=> jobs[j].status \in {"pending", "running"}
        /\ j \in LiveJobs' <=> r.status \in {"pending", "running"}
        /\ w \in RecordedRunners <=> runners[w].pc = "recorded"
        /\ w \in RecordedRunners' <=> q.pc = "recorded"
    BY <1>2 DEF LiveJobs, Live, RecordedRunners
  <2>3. w \in Undoing <=> runners[w].pc = "erred" /\ jobs[j].status = "completed"
    BY <2>1 DEF Undoing
  <2>4. w \in Undoing' <=> q.pc = "erred" /\ r.status = "completed"
    <3>1. q.pc = "erred" => q.job = j
      BY DEF RunnerMove
    <3>. QED BY <1>2, <3>1 DEF Undoing
  <2>5. One(j \in LiveJobs) + One(w \in Undoing) - One(w \in RecordedRunners)
            = Share(runners[w].pc, jobs[j].status)
    BY <2>2, <2>3 DEF One, Share
  <2>6. One(j \in LiveJobs') + One(w \in Undoing') - One(w \in RecordedRunners')
            = Share(q.pc, r.status)
    BY <2>2, <2>4 DEF One, Share
  <2>7. faults' \in Nat
    BY DEF TrackingAssumption
  <2>. QED BY <1>1, <1>2, <2>5, <2>6, <2>7, ChainsMove
<1>. QED BY <1>2, <1>3, <1>4, <1>5, <1>6 DEF TrackingInv

(* The job of a busy runner is nobody else's.                                *)
LEMMA BusyRunner ==
    ASSUME TrackingAssumption, TrackingInv, NEW w \in Runners, runners[w].pc # "idle"
    PROVE  /\ runners[w].job \in JobIds /\ runners[w] \in RunnerRecord
           /\ jobs[runners[w].job] \in JobRecord
           /\ \A v \in Runners \ {w} : runners[v].job # runners[w].job
           /\ RunnerOk(w)
<1>1. RunnerOk(w) /\ Exclusive /\ runners[w] \in RunnerRecord /\ runners[w].job # 0
  BY RecordTypes DEF TrackingInv, RunnersOk, RunnerOk
<1>2. runners[w].job \in JobIds
  BY <1>1 DEF RunnerRecord
<1>. QED BY <1>1, <1>2, RecordTypes DEF Exclusive, TrackingInv

(* A fault is counted.                                                       *)
LEMMA FaultCounts ==
    ASSUME TrackingAssumption, TypeOK, Fault
    PROVE  faults' \in 0 .. MaxFaults /\ faults' = faults + 1 /\ faults \in Nat
  BY DEF TypeOK, Fault, TrackingAssumption

(* A claimed job is its runner's alone, since nobody has a job without its   *)
(* lease.                                                                    *)
LEMMA ClaimInv ==
    ASSUME TrackingAssumption, TrackingInv, NEW w \in Runners, NEW j \in JobIds, Claim(w, j)
    PROVE  TrackingInv'
<1>. DEFINE q == [IdleRunner EXCEPT !.pc = "claimed", !.job = j]
            r == Claimed(jobs[j])
<1>1. /\ TypeOK /\ jobs[j] \in JobRecord /\ \A v \in Runners : RunnerOk(v)
      /\ runners[w].pc = "idle" /\ runners[w].job = 0 /\ faults \in 0 .. MaxFaults
      /\ jobs[j].status \in {"pending", "running"} /\ ~jobs[j].leased
      /\ UNCHANGED <<world, incident, ticket, answered, recorder, faults>>
  <2>1. TypeOK /\ \A v \in Runners : RunnerOk(v)
    BY DEF TrackingInv, RunnersOk
  <2>2. jobs[j] \in JobRecord /\ faults \in 0 .. MaxFaults
    BY <2>1, RecordTypes DEF TypeOK
  <2>3. /\ runners[w].pc = "idle" /\ jobs[j].status \in {"pending", "running"} /\ ~jobs[j].leased
        /\ UNCHANGED <<world, incident, ticket, answered, recorder, faults>>
    BY DEF Claim, Live
  <2>. QED BY <2>1, <2>2, <2>3 DEF RunnerOk
<1>2. q \in RunnerRecord /\ q.pc = "claimed" /\ q.job = j
  BY DEF IdleRunner, RunnerRecord, FirstReading, Reading, Statuses
<1>3. r \in JobRecord /\ r.status = "running" /\ r.leased /\ r.checks = jobs[j].checks
  <2>. DEFINE again == IF jobs[j].runs < MaxRetries THEN jobs[j].runs + 1 ELSE jobs[j].runs
  <2>1. again \in 0 .. MaxRetries
    BY <1>1, RecordTypes DEF JobRecord
  <2>2. r = [jobs[j] EXCEPT !.status = "running", !.leased = TRUE, !.runs = again]
    BY DEF Claimed
  <2>. HIDE DEF again
  <2>. QED BY <1>1, <2>1, <2>2 DEF JobRecord
<1>4. \A v \in Runners : runners[v].job # j
  BY <1>1, RecordTypes DEF RunnerOk, TypeOK
<1>. HIDE DEF JobRecord, RunnerRecord
<1>5. runners' = [runners EXCEPT ![w] = q] /\ jobs' = [jobs EXCEPT ![j] = r]
  <2>1. runners' = [runners EXCEPT ![w] = q]
    BY DEF Claim
  <2>2. jobs' = [jobs EXCEPT ![j] = r]
    BY DEF Claim
  <2>. QED BY <2>1, <2>2
<1>. HIDE DEF q, r
<1>8. RunnerMove(w, j, q, r)
  BY <1>1, <1>2, <1>3, <1>4, <1>5 DEF RunnerMove
<1>6. Pursues(j) => r.checks + 1 = MaxChecks \/ q.pc # "recorded"
  BY <1>2
<1>7. Share(q.pc, r.status) - Share(runners[w].pc, jobs[j].status) <= faults' - faults
  BY <1>1, <1>2, <1>3 DEF Share, One
<1>. QED BY <1>1, <1>2, <1>3, <1>6, <1>7, <1>8, RunnerStepOk

(* A runner goes to its next step and its job stays as it is.                *)
LEMMA GotoInv ==
    ASSUME TrackingAssumption, TrackingInv, NEW w \in Runners,
           NEW pc \in {"idle", "polled", "erred"}, NEW seen \in Reading, NEW q \in RunnerRecord,
           runners[w].pc # "idle", runners' = [runners EXCEPT ![w] = q],
           q.pc = pc, q.job = IF pc = "idle" THEN 0 ELSE runners[w].job,
           pc = "polled" => runners[w].pc = "claimed",
           pc = "erred" => jobs[runners[w].job].status = "running",
           UNCHANGED <<world, incident, ticket, jobs, answered, recorder>>,
           \/ UNCHANGED faults /\ runners[w].pc # "recorded" /\ pc # "idle"
           \/ Fault
    PROVE  TrackingInv'
<1>. DEFINE j == runners[w].job
            r == jobs[j]
<1>1. /\ TypeOK /\ j \in JobIds /\ r \in JobRecord /\ RunnerOk(w)
      /\ \A v \in Runners \ {w} : runners[v].job # j
      /\ 0 \notin JobIds
  BY BusyRunner, RecordTypes DEF TrackingInv
<1>2. jobs' = [jobs EXCEPT ![j] = r]
  BY <1>1 DEF TypeOK
<1>3. RunnerMove(w, j, q, r)
  <2>1. pc = "polled" => r.status = "running" /\ r.leased
    BY <1>1 DEF RunnerOk
  <2>2. pc = "erred" => r.status = "running" /\ r.leased
    BY <1>1, BusyRunner DEF RunnerOk, RunnerRecord
  <2>3. q.job \in {0, j} /\ (q.pc = "idle" <=> q.job = 0)
    BY <1>1
  <2>. HIDE DEF r
  <2>. QED BY <1>1, <1>2, <2>1, <2>2, <2>3 DEF RunnerMove
<1>4. Pursues(j) => \/ r.status = "failed"
                    \/ r.status # "absent" /\ r.checks + 1 = MaxChecks
                    \/ r.status \in {"pending", "running"} /\ q.pc # "recorded"
  BY DEF Pursues, Live
<1>5. faults' \in 0 .. MaxFaults
  BY <1>1, FaultCounts DEF TypeOK
<1>6. Share(q.pc, r.status) - Share(runners[w].pc, jobs[j].status) <= faults' - faults
  <2>1. CASE Fault
    BY <2>1, <1>1, FaultCounts DEF Share, One, RunnerOk
  <2>2. CASE UNCHANGED faults /\ runners[w].pc # "recorded" /\ pc # "idle"
    BY <2>2, <1>1 DEF Share, One, TypeOK, RunnerOk
  <2>. QED BY <2>1, <2>2
<1>. QED BY <1>1, <1>3, <1>4, <1>5, <1>6, RunnerStepOk

(* The runner's next step, as Goto writes it, is a runner.                   *)
LEMMA GotoRecord ==
    ASSUME TrackingAssumption, TypeOK, NEW w \in Runners,
           NEW pc \in {"idle", "claimed", "polled", "recorded", "erred"}
    PROVE  LET q == [runners[w] EXCEPT !.pc = pc, !.seen = FirstReading]
           IN  q \in RunnerRecord /\ q.pc = pc /\ q.job = runners[w].job
<1>1. runners[w] \in RunnerRecord
  BY RecordTypes
<1>. QED BY <1>1 DEF RunnerRecord, FirstReading, Reading, Statuses

(* What the portal answers, or that it does not, is only remembered.         *)
LEMMA PollInv ==
    ASSUME TrackingAssumption, TrackingInv, NEW w \in Runners, Poll(w)
    PROVE  TrackingInv'
<1>1. /\ runners[w].pc = "claimed" /\ TypeOK /\ runners[w] \in RunnerRecord
      /\ UNCHANGED <<world, incident, ticket, jobs, answered, recorder>>
      /\ UNCHANGED faults /\ jobs[runners[w].job].status = "running"
  BY BusyRunner DEF Poll, TrackingInv, RunnerOk
<1>2. CASE runners' = [runners EXCEPT ![w] = [@ EXCEPT !.pc = "polled", !.seen = portal.shows]]
  <2>. DEFINE q == [runners[w] EXCEPT !.pc = "polled", !.seen = portal.shows]
  <2>1. q \in RunnerRecord /\ q.pc = "polled" /\ q.job = runners[w].job
    BY <1>1 DEF RunnerRecord, TypeOK
  <2>2. runners' = [runners EXCEPT ![w] = q]
    BY <1>2
  <2>3. portal.shows \in Reading
    BY <1>1 DEF TypeOK
  <2>. HIDE DEF q
  <2>. QED BY <1>1, <2>1, <2>2, <2>3, GotoInv
<1>3. CASE Goto(w, "erred")
  <2>. DEFINE q == [runners[w] EXCEPT !.pc = "erred", !.seen = FirstReading]
  <2>1. q \in RunnerRecord /\ q.pc = "erred" /\ q.job = runners[w].job
    BY <1>1, GotoRecord
  <2>2. runners' = [runners EXCEPT ![w] = q]
    BY <1>3 DEF Goto
  <2>3. FirstReading \in Reading
    BY DEF FirstReading, Reading, Statuses
  <2>. HIDE DEF q
  <2>. QED BY <1>1, <2>1, <2>2, <2>3, GotoInv
<1>. QED BY <1>2, <1>3 DEF Poll

(* A transaction that fails leaves the job to be run again.                  *)
LEMMA RecordFailsInv ==
    ASSUME TrackingAssumption, TrackingInv, NEW w \in Runners, RecordFails(w)
    PROVE  TrackingInv'
<1>. DEFINE q == [runners[w] EXCEPT !.pc = "erred", !.seen = FirstReading]
<1>1. /\ runners[w].pc = "polled" /\ TypeOK
      /\ UNCHANGED <<world, incident, ticket, jobs, answered, recorder>>
      /\ UNCHANGED faults /\ jobs[runners[w].job].status = "running"
  BY BusyRunner DEF RecordFails, TrackingInv, RunnerOk
<1>2. q \in RunnerRecord /\ q.pc = "erred" /\ q.job = runners[w].job
  BY <1>1, GotoRecord
<1>3. runners' = [runners EXCEPT ![w] = q]
  BY DEF RecordFails, Goto
<1>4. FirstReading \in Reading
  BY DEF FirstReading, Reading, Statuses
<1>. HIDE DEF q
<1>. QED BY <1>1, <1>2, <1>3, <1>4, GotoInv

(* A runner that dies after recording leaves a live job and a live successor:*)
(* the chain more is the fault's.                                            *)
LEMMA CrashInv ==
    ASSUME TrackingAssumption, TrackingInv, NEW w \in Runners, Crash(w)
    PROVE  TrackingInv'
<1>. DEFINE q == IdleRunner
<1>1. /\ runners[w].pc # "idle" /\ Fault
      /\ UNCHANGED <<world, incident, ticket, jobs, answered, recorder>>
      /\ runners' = [runners EXCEPT ![w] = q]
  BY DEF Crash
<1>2. q \in RunnerRecord /\ q.pc = "idle" /\ q.job = 0 /\ FirstReading \in Reading
  BY DEF IdleRunner, RunnerRecord, FirstReading, Reading, Statuses
<1>. HIDE DEF q
<1>. QED BY <1>1, <1>2, GotoInv

(* A settled job ends its chain's share, whether or not the runner learns.   *)
LEMMA SettleInv ==
    ASSUME TrackingAssumption, TrackingInv, NEW w \in Runners, Settle(w)
    PROVE  TrackingInv'
<1>. DEFINE j == runners[w].job
            r == Completed(jobs[j])
            lost == [runners[w] EXCEPT !.pc = "erred", !.seen = FirstReading]
<1>1. /\ runners[w].pc = "recorded" /\ TypeOK /\ faults \in 0 .. MaxFaults
      /\ UNCHANGED <<world, incident, ticket, answered, recorder>>
      /\ j \in JobIds /\ jobs[j] \in JobRecord /\ jobs[j].status = "running"
      /\ \A v \in Runners \ {w} : runners[v].job # j
  BY BusyRunner DEF Settle, TrackingInv, RunnerOk, TypeOK
<1>2. r \in JobRecord /\ r.status = "completed" /\ r.checks = jobs[j].checks
  BY <1>1 DEF Completed, JobRecord
<1>3. Pursues(j) => r.checks + 1 = MaxChecks
  BY <1>1, <1>2 DEF Pursues
<1>4. lost \in RunnerRecord /\ lost.pc = "erred" /\ lost.job = j
  BY <1>1, GotoRecord
<1>5. IdleRunner \in RunnerRecord /\ IdleRunner.pc = "idle" /\ IdleRunner.job = 0
      /\ FirstReading \in Reading
  BY DEF IdleRunner, RunnerRecord, FirstReading, Reading, Statuses
<1>6. CASE /\ jobs' = [jobs EXCEPT ![j] = Completed(@)]
           /\ runners' = [runners EXCEPT ![w] = IdleRunner] /\ UNCHANGED faults
  <2>1. RunnerMove(w, j, IdleRunner, r)
    <3>. HIDE DEF r
    <3>1. jobs' = [jobs EXCEPT ![j] = r]
      BY <1>6 DEF r
    <3>. QED BY <1>1, <1>2, <1>5, <1>6, <3>1 DEF RunnerMove
  <2>2. Share(IdleRunner.pc, r.status) - Share(runners[w].pc, jobs[j].status) <= faults' - faults
    BY <1>1, <1>2, <1>5, <1>6 DEF Share, One
  <2>. HIDE DEF r
  <2>. QED BY <1>1, <1>2, <1>3, <1>5, <1>6, <2>1, <2>2, RunnerStepOk
<1>7. CASE Goto(w, "erred") /\ Fault /\ UNCHANGED jobs
  <2>1. runners' = [runners EXCEPT ![w] = lost]
    BY <1>7 DEF Goto
  <2>. HIDE DEF lost
  <2>. QED BY <1>1, <1>4, <1>5, <1>7, <2>1, GotoInv
<1>8. CASE Goto(w, "erred") /\ Fault /\ jobs' = [jobs EXCEPT ![j] = Completed(@)]
  <2>1. runners' = [runners EXCEPT ![w] = lost] /\ jobs' = [jobs EXCEPT ![j] = r]
    BY <1>8 DEF Goto
  <2>2. faults' = faults + 1 /\ faults' \in 0 .. MaxFaults
    BY <1>1, <1>8, FaultCounts
  <2>. HIDE DEF r, lost
  <2>3. RunnerMove(w, j, lost, r)
    BY <1>1, <1>2, <1>4, <2>1, RecordTypes DEF RunnerMove
  <2>4. Share(lost.pc, r.status) - Share(runners[w].pc, jobs[j].status) <= faults' - faults
    BY <1>1, <1>2, <1>4, <2>2 DEF Share, One
  <2>. QED BY <1>1, <1>2, <1>3, <1>4, <2>2, <2>3, <2>4, RunnerStepOk
<1>. QED BY <1>6, <1>7, <1>8 DEF Settle

(* A job that raised waits again or has failed for good; one that was        *)
(* settled without its runner knowing comes back.                            *)
LEMMA SettleFailureInv ==
    ASSUME TrackingAssumption, TrackingInv, NEW w \in Runners, SettleFailure(w)
    PROVE  TrackingInv'
<1>. DEFINE j == runners[w].job
            r == [jobs[j] EXCEPT !.status = IF Retried(jobs[j]) THEN "pending" ELSE "failed",
                                 !.leased = FALSE]
<1>1. /\ runners[w].pc = "erred" /\ TypeOK /\ faults \in 0 .. MaxFaults
      /\ UNCHANGED <<world, incident, ticket, answered, recorder, faults>>
      /\ j \in JobIds /\ jobs[j] \in JobRecord /\ jobs[j].status \in {"running", "completed"}
      /\ \A v \in Runners \ {w} : runners[v].job # j
      /\ runners' = [runners EXCEPT ![w] = IdleRunner]
  BY BusyRunner DEF SettleFailure, TrackingInv, RunnerOk, TypeOK
<1>2. r \in JobRecord /\ r.status \in {"pending", "failed"} /\ r.checks = jobs[j].checks
  BY <1>1 DEF JobRecord
<1>3. jobs' = [jobs EXCEPT ![j] = r]
  <2>1. jobs' = [jobs EXCEPT ![j].status = IF Retried(jobs[j]) THEN "pending" ELSE "failed",
                             ![j].leased = FALSE]
    BY DEF SettleFailure
  <2>. QED BY <1>1, <2>1 DEF TypeOK
<1>. HIDE DEF r
<1>4. IdleRunner \in RunnerRecord /\ IdleRunner.pc = "idle" /\ IdleRunner.job = 0
  BY DEF IdleRunner, RunnerRecord, FirstReading, Reading, Statuses
<1>5. RunnerMove(w, j, IdleRunner, r)
  BY <1>1, <1>2, <1>3, <1>4 DEF RunnerMove
<1>6. Share(IdleRunner.pc, r.status) - Share(runners[w].pc, jobs[j].status) <= faults' - faults
  BY <1>1, <1>2, <1>4 DEF Share, One
<1>. QED BY <1>1, <1>2, <1>4, <1>5, <1>6, RunnerStepOk

(* There is a first job among those that are not made yet.                   *)
LEMMA FirstFresh ==
    ASSUME TrackingAssumption, Fresh # {}
    PROVE  LET k == CHOOSE k \in Fresh : \A i \in Fresh : k <= i IN k \in Fresh
<1>. DEFINE Below(n) == 0 .. n
            T == {Below(n) : n \in Fresh}
            R == StrictSubsetOrdering(Nat)
<1>1. Fresh \subseteq Nat
  BY DEF Fresh, JobIds
<1>2. IsWellFoundedOn(R, FiniteSubsetsOf(Nat))
  BY FS_StrictSubsetOrderingWellFounded
<1>3. T # {} /\ T \subseteq FiniteSubsetsOf(Nat)
  <2>1. ASSUME NEW n \in Fresh PROVE Below(n) \in FiniteSubsetsOf(Nat)
    <3>1. n \in Nat /\ IsFiniteSet(0 .. n)
      BY <1>1, FS_Interval
    <3>. QED BY <3>1 DEF FiniteSubsetsOf
  <2>. QED BY <2>1
<1>. HIDE DEF R, T
<1>4. PICK t \in T : \A u \in T : <<u, t>> \notin R
  BY <1>2, <1>3, WFMin
<1>5. PICK k \in Fresh : t = Below(k)
  BY <1>4 DEF T
<1>6. \A i \in Fresh : k <= i
  <2>1. SUFFICES ASSUME NEW i \in Fresh, i < k PROVE FALSE
    BY <1>1
  <2>2. Below(i) \in T
    BY DEF T
  <2>3. /\ Below(i) \subseteq Below(k) /\ Below(i) # Below(k)
        /\ Below(i) \subseteq Nat /\ Below(k) \subseteq Nat
    <3>1. k \in Below(k) /\ k \notin Below(i)
      BY <1>1, <2>1
    <3>. QED BY <1>1, <2>1, <3>1
  <2>4. <<Below(i), Below(k)>> \in R
    BY <2>3 DEF R, StrictSubsetOrdering
  <2>. QED BY <1>4, <1>5, <2>2, <2>4
<1>. QED BY <1>5, <1>6

(* Nobody has a job that is not made yet.                                    *)
LEMMA FreshIsFree ==
    ASSUME TrackingAssumption, TypeOK, RunnersOk, NEW k \in Fresh
    PROVE  k \in JobIds /\ jobs[k].status = "absent" /\ \A v \in Runners : runners[v].job # k
<1>1. k \in JobIds /\ jobs[k].status = "absent" /\ 0 \notin JobIds
  BY RecordTypes DEF Fresh
<1>2. ASSUME NEW v \in Runners, runners[v].job = k PROVE FALSE
  <2>1. RunnerOk(v) /\ runners[v] \in RunnerRecord
    BY RecordTypes DEF RunnersOk
  <2>2. runners[v].pc \in {"claimed", "polled", "recorded", "erred"}
    BY <1>1, <1>2, <2>1 DEF RunnerOk, RunnerRecord
  <2>. QED BY <1>1, <1>2, <2>1, <2>2 DEF RunnerOk
<1>. QED BY <1>1, <1>2

(* The status is recorded and the next poll is made in one transaction, or   *)
(* it was the last one.  When the runner does not learn of it, the chain     *)
(* that its retry begins is the fault's.                                     *)
LEMMA RecordInv ==
    ASSUME TrackingAssumption, TrackingInv, NEW w \in Runners, Record(w)
    PROVE  TrackingInv'
<1>. DEFINE j == runners[w].job
            reading == runners[w].seen
            status == reading.status
            pc == IF faults' = faults THEN "recorded" ELSE "erred"
            q == [runners[w] EXCEPT !.pc = pc, !.seen = FirstReading]
<1>1. /\ TypeOK /\ RecordedOk /\ RunnersOk /\ ChainsOk /\ faults \in 0 .. MaxFaults
      /\ faults \in Nat
      /\ runners[w].pc = "polled" /\ runners[w] \in RunnerRecord
      /\ j \in JobIds /\ jobs[j] \in JobRecord
      /\ jobs[j].status = "running" /\ jobs[j].leased
      /\ \A v \in Runners \ {w} : runners[v].job # j
      /\ \A v \in Runners : RunnerOk(v)
      /\ jobs \in [JobIds -> JobRecord] /\ runners \in [Runners -> RunnerRecord]
  <2>1. TypeOK /\ RecordedOk /\ RunnersOk /\ ChainsOk /\ faults \in 0 .. MaxFaults
    BY DEF TrackingInv, TypeOK
  <2>2. runners[w].pc = "polled"
    BY DEF Record
  <2>3. /\ j \in JobIds /\ runners[w] \in RunnerRecord /\ jobs[j] \in JobRecord
        /\ \A v \in Runners \ {w} : runners[v].job # j /\ RunnerOk(w)
    BY <2>2, BusyRunner
  <2>4. /\ faults \in Nat /\ \A v \in Runners : RunnerOk(v)
        /\ jobs \in [JobIds -> JobRecord] /\ runners \in [Runners -> RunnerRecord]
    BY <2>1, RecordTypes DEF TrackingAssumption, RunnersOk
  <2>5. jobs[j].status = "running" /\ jobs[j].leased
    BY <2>2, <2>4 DEF RunnerOk
  <2>. QED BY <2>1, <2>2, <2>3, <2>4, <2>5
<1>2. /\ RecordStatus(reading, "poll") /\ UNCHANGED world
      /\ \/ WantsNext(status, j) /\ Fresh # {}
            /\ LET k == CHOOSE k \in Fresh : \A i \in Fresh : k <= i
               IN  jobs' = [jobs EXCEPT ![k] = [FirstJob EXCEPT !.checks = jobs[j].checks + 1]]
         \/ ~WantsNext(status, j) /\ UNCHANGED jobs
      /\ (Goto(w, "recorded") /\ UNCHANGED faults) \/ (Goto(w, "erred") /\ Fault)
  <2>. USE DEF Record
  <2>1. RecordStatus(reading, "poll") /\ UNCHANGED world
    OBVIOUS
  <2>2. (Goto(w, "recorded") /\ UNCHANGED faults) \/ (Goto(w, "erred") /\ Fault)
    OBVIOUS
  <2>3. \/ WantsNext(status, j) /\ Fresh # {}
           /\ LET k == CHOOSE k \in Fresh : \A i \in Fresh : k <= i
              IN  jobs' = [jobs EXCEPT ![k] = [FirstJob EXCEPT !.checks = jobs[j].checks + 1]]
        \/ ~WantsNext(status, j) /\ UNCHANGED jobs
    OBVIOUS
  <2>. QED BY <2>1, <2>2, <2>3
<1>3. reading \in Reading /\ UNCHANGED <<portal, operators, submission>>
  BY <1>1, <1>2 DEF RunnerRecord, world
<1>4. /\ RecordedOk'
      /\ incident' \in [agency : Statuses \cup {"UNKNOWN"},
                        resolution : Answers \cup {"UNVERIFIED", "VERIFICATION_REQUESTED"}]
      /\ ticket'.reading = reading
      /\ ticket'.history \in Seq(Reading) /\ Len(ticket'.history) <= MaxHistory
      /\ recorder' = "poll" /\ answered' = answered
  BY <1>1, <1>2, <1>3, RecordStatusOk
<1>5. /\ runners' = [runners EXCEPT ![w] = q] /\ faults' \in 0 .. MaxFaults /\ faults' \in Nat
      /\ (q.pc = "recorded" /\ faults' = faults) \/ (q.pc = "erred" /\ faults' = faults + 1)
      /\ q.job = j /\ q \in RunnerRecord
  <2>0. q \in RunnerRecord /\ q.pc = pc /\ q.job = j
    BY <1>1, GotoRecord
  <2>1. CASE Goto(w, "recorded") /\ UNCHANGED faults
    <3>1. pc = "recorded" /\ runners' = [runners EXCEPT ![w] = q]
      BY <2>1 DEF Goto
    <3>. QED BY <1>1, <2>0, <2>1, <3>1
  <2>2. CASE Goto(w, "erred") /\ Fault
    <3>1. faults' = faults + 1 /\ faults' \in 0 .. MaxFaults /\ faults' \in Nat
      BY <1>1, <2>2, FaultCounts DEF TrackingAssumption
    <3>2. pc = "erred"
      BY <1>1, <3>1
    <3>3. runners' = [runners EXCEPT ![w] = q]
      BY <2>2, <3>2 DEF Goto
    <3>. QED BY <1>1, <2>0, <3>1, <3>2, <3>3
  <2>. QED BY <1>2, <2>1, <2>2
<1>. HIDE DEF q, pc, JobRecord, RunnerRecord
<1>6. /\ runners' \in [Runners -> RunnerRecord] /\ runners'[w] = q
      /\ \A v \in Runners \ {w} : runners'[v] = runners[v]
  BY <1>1, <1>5
<1>7. /\ w \notin RecordedRunners /\ (w \in RecordedRunners' <=> q.pc = "recorded")
      /\ w \notin Undoing
  BY <1>1, <1>5, <1>6 DEF RecordedRunners, Undoing
<1>8. ASSUME jobs' \in [JobIds -> JobRecord], RunnersOk', Pursued', ChainsOk'
      PROVE  TrackingInv'
  <2>1. TypeOK'
    BY <1>1, <1>3, <1>4, <1>5, <1>6, <1>8 DEF TypeOK, JobRecord, RunnerRecord
  <2>. QED BY <1>4, <1>8, <2>1 DEF TrackingInv
<1>9. CASE ~WantsNext(status, j) /\ UNCHANGED jobs
  <2>. DEFINE r == jobs[j]
  <2>1. RunnerMove(w, j, q, r)
    <3>1. jobs' = [jobs EXCEPT ![j] = r]
      BY <1>1, <1>9
    <3>. HIDE DEF r
    <3>2. r \in JobRecord /\ r.status = "running" /\ r.leased
      BY <1>1 DEF r
    <3>. QED BY <1>1, <1>5, <3>1, <3>2, RecordTypes DEF RunnerMove
  <2>2. /\ jobs' \in [JobIds -> JobRecord] /\ RunnersOk'
        /\ \A v \in Runners \ {w} :
              runners[v].pc = "erred" => runners[v].job # j /\ runners[v].job \in JobIds
    BY <1>1, <2>1, RunnerMoves
  <2>3. Pursued'
    <3>1. status # "CLOSED" => jobs[j].checks + 1 = MaxChecks
      BY <1>1, <1>9, RecordTypes DEF WantsNext
    <3>2. PICK i \in JobIds : i = j
      BY <1>1
    <3>3. status # "CLOSED" => Pursues(i)'
      BY <1>1, <1>9, <3>1, <3>2 DEF Pursues
    <3>. QED BY <1>4, <3>3 DEF Pursued
  <2>4. j \in LiveJobs /\ j \in LiveJobs' /\ w \notin Undoing'
    BY <1>1, <1>5, <1>6, <1>9 DEF LiveJobs, Live, Undoing
  <2>5. LET before == One(j \in LiveJobs) + One(w \in Undoing) - One(w \in RecordedRunners)
            after == One(j \in LiveJobs') + One(w \in Undoing') - One(w \in RecordedRunners')
        IN  after - before <= faults' - faults
    <3>1. /\ One(j \in LiveJobs) = 1 /\ One(j \in LiveJobs') = 1
          /\ One(w \in Undoing) = 0 /\ One(w \in Undoing') = 0 /\ One(w \in RecordedRunners) = 0
      BY <1>7, <2>4 DEF One
    <3>2. One(w \in RecordedRunners') = IF q.pc = "recorded" THEN 1 ELSE 0
      BY <1>7 DEF One
    <3>3. q.pc = "erred" => q.pc # "recorded"
      OBVIOUS
    <3>. QED BY <1>1, <1>5, <3>1, <3>2, <3>3
  <2>6. ChainsOk'
    BY <1>1, <1>5, <1>6, <1>9, <2>2, <2>5, ChainsMove
  <2>. QED BY <1>8, <2>2, <2>3, <2>6
<1>10. CASE WantsNext(status, j) /\ Fresh # {}
            /\ LET k == CHOOSE k \in Fresh : \A i \in Fresh : k <= i
               IN  jobs' = [jobs EXCEPT ![k] = [FirstJob EXCEPT !.checks = jobs[j].checks + 1]]
  <2>. DEFINE next == [FirstJob EXCEPT !.checks = jobs[j].checks + 1]
  <2>1. PICK k \in Fresh : jobs' = [jobs EXCEPT ![k] = next]
    BY <1>10, FirstFresh
  <2>2. k \in JobIds /\ jobs[k].status = "absent" /\ \A v \in Runners : runners[v].job # k
    BY <1>1, <2>1, FreshIsFree
  <2>3. next \in JobRecord /\ next.status = "pending" /\ next.checks = jobs[j].checks + 1
    <3>1. jobs[j].checks \in Nat /\ jobs[j].checks + 1 < MaxChecks
      BY <1>1, <1>10, RecordTypes DEF WantsNext
    <3>2. AbsentJob \in JobRecord
      BY RecordTypes DEF AbsentJob, JobRecord, TrackingInv
    <3>3. FirstJob \in JobRecord /\ FirstJob.status = "pending"
      BY <3>2 DEF FirstJob, JobRecord
    <3>. QED BY <3>1, <3>3, RecordTypes DEF JobRecord
  <2>. HIDE DEF next
  <2>4. /\ jobs' \in [JobIds -> JobRecord] /\ jobs'[k] = next
        /\ \A i \in JobIds \ {k} : jobs'[i] = jobs[i] /\ j # k
    BY <1>1, <2>1, <2>2, <2>3
  <2>5. \A v \in Runners : runners'[v].job # k /\ runners[v].job \in JobIds \cup {0}
    BY <1>1, <1>5, <1>6, <2>2 DEF RunnerRecord
  <2>6. RunnersOk'
    <3>1. RunnerOk(w)'
      <4>1. jobs'[j].status = "running" /\ jobs'[j].leased /\ j # 0
        BY <1>1, <2>2, <2>4, RecordTypes
      <4>. QED BY <1>5, <1>6, <4>1 DEF RunnerOk
    <3>2. ASSUME NEW v \in Runners \ {w} PROVE RunnerOk(v)'
      <4>1. /\ runners'[v] = runners[v] /\ RunnerOk(v) /\ runners[v].job # k
            /\ runners[v].job # 0 => jobs'[runners[v].job] = jobs[runners[v].job]
        BY <1>1, <1>6, <2>2, <2>4, <2>5
      <4>. QED BY <4>1 DEF RunnerOk
    <3>3. Exclusive'
      <4>1. \A v \in Runners : runners'[v].job = runners[v].job
        BY <1>5, <1>6
      <4>. QED BY <1>1, <4>1 DEF Exclusive, RunnersOk
    <3>. QED BY <3>1, <3>2, <3>3 DEF RunnersOk
  <2>7. Pursued'
    <3>1. Pursues(k)'
      BY <2>3, <2>4, <2>5 DEF Pursues, Live
    <3>. QED BY <2>2, <3>1 DEF Pursued
  <2>8. k \notin LiveJobs /\ k \in LiveJobs' /\ w \notin Undoing'
    <3>1. k \notin LiveJobs /\ k \in LiveJobs'
      BY <2>2, <2>3, <2>4 DEF LiveJobs, Live
    <3>2. w \notin Undoing'
      BY <1>1, <1>5, <1>6, <2>2, <2>4 DEF Undoing
    <3>. QED BY <3>1, <3>2
  <2>9. LET before == One(k \in LiveJobs) + One(w \in Undoing) - One(w \in RecordedRunners)
            after == One(k \in LiveJobs') + One(w \in Undoing') - One(w \in RecordedRunners')
        IN  after - before <= faults' - faults
    <3>1. /\ One(k \in LiveJobs) = 0 /\ One(k \in LiveJobs') = 1
          /\ One(w \in Undoing) = 0 /\ One(w \in Undoing') = 0 /\ One(w \in RecordedRunners) = 0
      BY <1>7, <2>8 DEF One
    <3>2. One(w \in RecordedRunners') = IF q.pc = "recorded" THEN 1 ELSE 0
      BY <1>7 DEF One
    <3>3. q.pc = "erred" => q.pc # "recorded"
      OBVIOUS
    <3>. QED BY <1>1, <1>5, <3>1, <3>2, <3>3
  <2>10. \A v \in Runners \ {w} :
            runners[v].pc = "erred" => runners[v].job # k /\ runners[v].job \in JobIds
    BY <1>1, <2>2, <2>5 DEF RunnerOk
  <2>11. ChainsOk'
    BY <1>1, <1>5, <1>6, <2>2, <2>4, <2>9, <2>10, ChainsMove
  <2>. QED BY <1>8, <2>4, <2>6, <2>7, <2>11
<1>. QED BY <1>2, <1>9, <1>10

(* A lease that ran out was nobody's; only the lease is gone.                *)
LEMMA ExpireLeaseInv ==
    ASSUME TrackingAssumption, TrackingInv, NEW j \in JobIds, ExpireLease(j)
    PROVE  TrackingInv'
<1>. DEFINE r == [jobs[j] EXCEPT !.leased = FALSE]
<1>1. /\ TypeOK /\ RecordedOk /\ RunnersOk /\ Pursued /\ ChainsOk
      /\ jobs \in [JobIds -> JobRecord] /\ runners \in [Runners -> RunnerRecord]
  BY RecordTypes DEF TrackingInv
<1>2. /\ \A v \in Runners : runners[v].job # j
      /\ jobs' = [jobs EXCEPT ![j] = r]
      /\ UNCHANGED <<world, incident, ticket, runners, answered, recorder, faults>>
  <2>1. jobs' = [jobs EXCEPT ![j].leased = FALSE]
    BY DEF ExpireLease
  <2>. QED BY <1>1, <2>1 DEF ExpireLease
<1>3. /\ jobs[j] \in JobRecord /\ r \in JobRecord
      /\ r.status = jobs[j].status /\ r.checks = jobs[j].checks
  BY <1>1 DEF JobRecord
<1>. HIDE DEF r, JobRecord, RunnerRecord
<1>4. /\ jobs' \in [JobIds -> JobRecord] /\ jobs'[j] = r
      /\ \A i \in JobIds \ {j} : jobs'[i] = jobs[i]
  BY <1>1, <1>2, <1>3
<1>5. \A i \in JobIds : jobs'[i].status = jobs[i].status /\ jobs'[i].checks = jobs[i].checks
  BY <1>3, <1>4
<1>6. \A v \in Runners : runners[v].job \in JobIds \cup {0}
  BY <1>1 DEF RunnerRecord
<1>7. TypeOK'
  BY <1>1, <1>2, <1>4 DEF TypeOK, world, JobRecord
<1>8. RecordedOk'
  BY <1>1, <1>2, RecordedStays DEF world
<1>9. RunnersOk'
  <2>1. ASSUME NEW v \in Runners PROVE RunnerOk(v)'
    <3>1. RunnerOk(v) /\ runners' = runners /\ runners[v].job # j
      BY <1>1, <1>2 DEF RunnersOk
    <3>2. runners[v].job # 0 => jobs'[runners[v].job] = jobs[runners[v].job]
      BY <1>4, <1>6, <3>1
    <3>. QED BY <3>1, <3>2 DEF RunnerOk
  <2>2. Exclusive'
    BY <1>1, <1>2 DEF RunnersOk, Exclusive
  <2>. QED BY <2>1, <2>2 DEF RunnersOk
<1>10. Pursued'
  <2>1. \A i \in JobIds : Pursues(i) => Pursues(i)'
    BY <1>2, <1>5 DEF Pursues, Live
  <2>. QED BY <1>1, <1>2, <2>1 DEF Pursued
<1>11. ChainsOk'
  <2>1. LiveJobs' = LiveJobs
    BY <1>5 DEF LiveJobs, Live
  <2>2. RecordedRunners' = RecordedRunners
    BY <1>2 DEF RecordedRunners
  <2>3. Undoing' = Undoing
    <3>1. ASSUME NEW v \in Runners, runners[v].pc = "erred"
          PROVE  jobs'[runners[v].job].status = jobs[runners[v].job].status
      BY <1>1, <1>5, <1>6, <3>1 DEF RunnersOk, RunnerOk
    <3>. QED BY <1>2, <3>1 DEF Undoing
  <2>. QED BY <1>1, <1>2, <2>1, <2>2, <2>3 DEF ChainsOk
<1>. QED BY <1>7, <1>8, <1>9, <1>10, <1>11 DEF TrackingInv

-------------------------------------------------------------------------------
(* Everybody else *)

(* The agency, the demo control and residents have no part in the jobs; the  *)
(* demo's word is not a poll's.                                              *)
LEMMA OthersMove ==
    ASSUME RunnersOk, ChainsOk, Pursued, UNCHANGED memory,
           UNCHANGED <<ticket, recorder>> \/ recorder' = "demo"
    PROVE  RunnersOk' /\ ChainsOk' /\ Pursued'
<1>1. jobs' = jobs /\ runners' = runners /\ faults' = faults
  BY DEF memory
<1>2. RunnersOk'
  BY <1>1 DEF RunnersOk, RunnerOk, Exclusive
<1>3. ChainsOk'
  BY <1>1 DEF ChainsOk, LiveJobs, Live, Undoing, RecordedRunners
<1>4. \A j \in JobIds : Pursues(j) => Pursues(j)'
  BY <1>1 DEF Pursues, Live
<1>5. Pursued'
  BY <1>4 DEF Pursued
<1>. QED BY <1>2, <1>3, <1>5

(* The agency changes only what the portal shows.                            *)
LEMMA AgencyMovesInv ==
    ASSUME TrackingAssumption, TrackingInv, NEW reading \in Answer, AgencyMoves(reading)
    PROVE  TrackingInv'
<1>1. TypeOK'
  BY DEF TrackingInv, AgencyMoves, Answer, TypeOK, memory, TrackingAssumption
<1>2. RecordedOk'
  BY RecordedStays DEF TrackingInv, AgencyMoves
<1>3. RunnersOk' /\ ChainsOk' /\ Pursued'
  BY OthersMove DEF TrackingInv, AgencyMoves
<1>. QED BY <1>1, <1>2, <1>3 DEF TrackingInv

(* The demo control first changes what the portal shows.                     *)
LEMMA DemoSetsInv ==
    ASSUME TrackingAssumption, TrackingInv, NEW reading \in Answer, NEW o \in Operators,
           DemoSets(o, reading)
    PROVE  TrackingInv'
<1>1. TypeOK'
  <2>1. /\ TypeOK /\ reading \in Reading
        /\ UNCHANGED <<memory, incident, ticket, submission, answered, recorder>>
    BY DEF TrackingInv, DemoSets, Answer
  <2>2. portal' \in [shows : Reading, changes : 0 .. MaxChanges]
    BY <2>1 DEF DemoSets, TypeOK, TrackingAssumption
  <2>3. operators' \in [Operators -> [pc : {"new", "set", "done"}, seen : Reading]]
    BY <2>1 DEF DemoSets, TypeOK
  <2>. QED BY <2>1, <2>2, <2>3 DEF TypeOK, memory
<1>2. RecordedOk'
  BY RecordedStays DEF TrackingInv, DemoSets
<1>3. RunnersOk' /\ ChainsOk' /\ Pursued'
  BY OthersMove DEF TrackingInv, DemoSets
<1>. QED BY <1>1, <1>2, <1>3 DEF TrackingInv

(* And records it afterwards, whatever was recorded in between.              *)
LEMMA DemoRecordsInv ==
    ASSUME TrackingAssumption, TrackingInv, NEW o \in Operators, DemoRecords(o)
    PROVE  TrackingInv'
<1>. DEFINE reading == operators[o].seen
<1>1. /\ TypeOK /\ RecordedOk /\ RunnersOk /\ ChainsOk /\ Pursued
      /\ RecordStatus(reading, "demo") /\ UNCHANGED <<memory, portal, submission>>
      /\ operators' = [operators EXCEPT ![o].pc = "done"]
  BY DEF TrackingInv, DemoRecords
<1>2. reading \in Reading
  BY <1>1 DEF TypeOK
<1>3. /\ RecordedOk'
      /\ incident' \in [agency : Statuses \cup {"UNKNOWN"},
                        resolution : Answers \cup {"UNVERIFIED", "VERIFICATION_REQUESTED"}]
      /\ ticket'.reading = reading
      /\ ticket'.history \in Seq(Reading) /\ Len(ticket'.history) <= MaxHistory
      /\ recorder' = "demo" /\ answered' = answered
  BY <1>1, <1>2, RecordStatusOk
<1>4. operators' \in [Operators -> [pc : {"new", "set", "done"}, seen : Reading]]
  BY <1>1 DEF TypeOK
<1>5. TypeOK'
  BY <1>1, <1>2, <1>3, <1>4 DEF TypeOK, memory
<1>6. RunnersOk' /\ ChainsOk' /\ Pursued'
  BY <1>1, <1>3, OthersMove
<1>. QED BY <1>3, <1>5, <1>6 DEF TrackingInv

(* The job that sent the report ends, and may take the agency status with it.*)
LEMMA SubmissionInv ==
    ASSUME TrackingAssumption, TrackingInv, SubmissionSettles \/ SubmissionUnknown
    PROVE  TrackingInv'
<1>1. /\ TypeOK /\ RecordedOk /\ submission = "running" /\ submission' = "over"
      /\ UNCHANGED <<memory, portal, ticket, operators, answered, recorder>>
      /\ incident' = incident \/ incident' = [incident EXCEPT !.agency = "UNKNOWN"]
  BY DEF TrackingInv, SubmissionSettles, SubmissionUnknown
<1>2. /\ incident' \in [agency : Statuses \cup {"UNKNOWN"},
                        resolution : Answers \cup {"UNVERIFIED", "VERIFICATION_REQUESTED"}]
      /\ incident'.agency \in {incident.agency, "UNKNOWN"}
      /\ incident'.resolution = incident.resolution
  BY <1>1 DEF TypeOK
<1>3. TypeOK'
  BY <1>1, <1>2 DEF TypeOK, memory
<1>4. HistoryIsNews' /\ ResolutionIsResidents'
  BY <1>1, <1>2 DEF RecordedOk, HistoryIsNews, ResolutionIsResidents
<1>5. RunnersOk' /\ ChainsOk' /\ Pursued'
  BY <1>1, OthersMove DEF TrackingInv
<1>. QED BY <1>3, <1>4, <1>5 DEF TrackingInv, RecordedOk

(* A resident's answer is the resolution from then on.                       *)
LEMMA VerifyInv ==
    ASSUME TrackingAssumption, TrackingInv, NEW answer \in Answers, Verify(answer)
    PROVE  TrackingInv'
<1>1. /\ TypeOK /\ RecordedOk /\ UNCHANGED <<memory, world, ticket, recorder>>
      /\ incident' = [incident EXCEPT !.resolution = answer] /\ answered' = answer
  BY DEF TrackingInv, Verify
<1>2. /\ incident' \in [agency : Statuses \cup {"UNKNOWN"},
                        resolution : Answers \cup {"UNVERIFIED", "VERIFICATION_REQUESTED"}]
      /\ incident'.agency = incident.agency /\ incident'.resolution = answer
  BY <1>1 DEF TypeOK
<1>3. TypeOK'
  BY <1>1, <1>2 DEF TypeOK, memory, world
<1>4. HistoryIsNews'
  BY <1>1, <1>2 DEF RecordedOk, HistoryIsNews, world
<1>5. ResolutionIsResidents'
  BY <1>1, <1>2 DEF ResolutionIsResidents, TrackingAssumption
<1>6. RunnersOk' /\ ChainsOk' /\ Pursued'
  BY <1>1, <1>2, OthersMove DEF TrackingInv
<1>. QED BY <1>3, <1>4, <1>5, <1>6 DEF TrackingInv, RecordedOk

-------------------------------------------------------------------------------
(* The invariant *)

(* The first check waits when the ticket is stored.                          *)
LEMMA InitInv ==
    ASSUME TrackingAssumption, Init
    PROVE  TrackingInv
<1>. USE DEF Init
<1>1. TypeOK
  <2>1. 1 \in JobIds /\ 0 \notin JobIds
    BY DEF JobIds, TrackingAssumption
  <2>2. AbsentJob \in JobRecord
    BY DEF AbsentJob, JobRecord, TrackingAssumption
  <2>3. FirstJob \in JobRecord
    BY <2>2 DEF FirstJob, JobRecord
  <2>4. jobs \in [JobIds -> JobRecord]
    BY <2>2, <2>3
  <2>5. IdleRunner \in RunnerRecord
    BY DEF IdleRunner, RunnerRecord, FirstReading, Reading, Statuses
  <2>6. runners \in [Runners -> RunnerRecord]
    BY <2>5
  <2>7. ticket.history \in Seq(Reading) /\ Len(ticket.history) <= MaxHistory
    BY EmptySeq DEF TrackingAssumption
  <2>8. FirstReading \in Reading
    BY DEF FirstReading, Reading, Statuses
  <2>9. /\ portal \in [shows : Reading, changes : 0 .. MaxChanges]
        /\ incident \in [agency : Statuses \cup {"UNKNOWN"},
                         resolution : Answers \cup {"UNVERIFIED", "VERIFICATION_REQUESTED"}]
        /\ ticket.reading \in Reading /\ submission \in {"running", "over"}
        /\ operators \in [Operators -> [pc : {"new", "set", "done"}, seen : Reading]]
        /\ faults \in 0 .. MaxFaults
        /\ answered \in Answers \cup {"none"} /\ recorder \in {"poll", "demo"}
    BY <2>8 DEF Statuses, TrackingAssumption
  <2>. QED BY <2>4, <2>6, <2>7, <2>9 DEF TypeOK, JobRecord, RunnerRecord
<1>2. RecordedOk
  <2>1. Len(ticket.history) = 0 /\ ticket.history = <<>>
    BY EmptySeq
  <2>2. HistoryIsNews
    BY <2>1 DEF HistoryIsNews, FirstReading
  <2>. QED BY <2>2 DEF RecordedOk, ResolutionIsResidents
<1>3. \A w \in Runners : runners[w].pc = "idle" /\ runners[w].job = 0
  BY DEF IdleRunner
<1>4. RunnersOk
  BY <1>3 DEF RunnersOk, RunnerOk, Exclusive
<1>5. /\ 1 \in JobIds /\ jobs[1].status = "pending"
      /\ \A j \in JobIds \ {1} : jobs[j].status = "absent"
  BY DEF FirstJob, AbsentJob, JobIds, TrackingAssumption
<1>6. Pursued
  <2>1. Pursues(1)
    BY <1>3, <1>5 DEF Pursues, Live
  <2>. QED BY <1>5, <2>1 DEF Pursued
<1>7. ChainsOk
  <2>1. LiveJobs = {1} /\ RecordedRunners = {} /\ Undoing = {}
    BY <1>3, <1>5 DEF LiveJobs, Live, RecordedRunners, Undoing
  <2>2. Cardinality(LiveJobs) = 1 /\ Cardinality(RecordedRunners) = 0 /\ Cardinality(Undoing) = 0
    BY <2>1, FS_Singleton, FS_EmptySet
  <2>. QED BY <2>2 DEF ChainsOk
<1>. QED BY <1>1, <1>2, <1>4, <1>6, <1>7 DEF TrackingInv

(* Every step keeps it.                                                      *)
LEMMA NextInv ==
    ASSUME TrackingAssumption, TrackingInv, [Next]_vars
    PROVE  TrackingInv'
<1>1. CASE UNCHANGED vars
  <2>1. UNCHANGED <<memory, world, incident, ticket, answered, recorder>>
    BY <1>1 DEF vars, memory, world
  <2>2. TypeOK'
    BY <2>1 DEF TypeOK, TrackingInv, memory, world
  <2>. QED BY <2>1, <2>2, RecordedStays, OthersMove DEF TrackingInv, world
<1>2. ASSUME NEW w \in Runners, RunnerStep(w) \/ Crash(w) PROVE TrackingInv'
  BY <1>2, ClaimInv, PollInv, RecordInv, RecordFailsInv, SettleInv, SettleFailureInv, CrashInv
     DEF RunnerStep
<1>3. ASSUME NEW j \in JobIds, ExpireLease(j) PROVE TrackingInv'
  BY <1>3, ExpireLeaseInv
<1>4. ASSUME NEW reading \in Answer,
             AgencyMoves(reading) \/ \E o \in Operators : DemoSets(o, reading)
      PROVE  TrackingInv'
  BY <1>4, AgencyMovesInv, DemoSetsInv
<1>5. ASSUME NEW o \in Operators, DemoRecords(o) PROVE TrackingInv'
  BY <1>5, DemoRecordsInv
<1>6. ASSUME NEW answer \in Answers, Verify(answer) PROVE TrackingInv'
  BY <1>6, VerifyInv
<1>7. ASSUME SubmissionSettles \/ SubmissionUnknown PROVE TrackingInv'
  BY <1>7, SubmissionInv
<1>. QED BY <1>1, <1>2, <1>3, <1>4, <1>5, <1>6, <1>7 DEF Next

(* What is recorded, the jobs and their runners, in every reachable state.   *)
THEOREM TrackingInvariance == ASSUME TrackingAssumption PROVE Spec => []TrackingInv
<1>1. Init => TrackingInv
  BY InitInv
<1>2. TrackingInv /\ [Next]_vars => TrackingInv'
  BY NextInv
<1>. QED BY <1>1, <1>2, PTL DEF Spec

(* Portal, record, jobs and runners stay of their types.                     *)
THEOREM TypeCorrect == ASSUME TrackingAssumption PROVE Spec => []TypeOK
<1>1. TrackingInv => TypeOK
  BY DEF TrackingInv
<1>. QED BY <1>1, TrackingInvariance, PTL

(* Each crash or lost answer can fork the polling of a ticket once, and only *)
(* a fault can: there is otherwise one job that polls.                       *)
THEOREM ChainsNeedFaults == ASSUME TrackingAssumption PROVE Spec => []OneChainPerFault
<1>1. TrackingInv => OneChainPerFault
  <2>1. SUFFICES ASSUME TrackingInv PROVE OneChainPerFault
    OBVIOUS
  <2>2. /\ IsFiniteSet(LiveJobs) /\ IsFiniteSet(Undoing) /\ IsFiniteSet(RecordedRunners)
        /\ faults \in Nat
    BY <2>1, FiniteSets DEF TrackingInv, TypeOK, TrackingAssumption
  <2>3. /\ Cardinality(LiveJobs) \in Nat /\ Cardinality(Undoing) \in Nat
        /\ Cardinality(RecordedRunners) \in Nat
    BY <2>2, FS_CardinalityType
  <2>4. Cardinality(LiveJobs) <= 1 + faults + Cardinality(RecordedRunners)
    BY <2>1, <2>2, <2>3 DEF TrackingInv, ChainsOk
  <2>. QED BY <2>4 DEF OneChainPerFault, RecordedRunners
<1>. QED BY <1>1, TrackingInvariance, PTL

(* Unless a poll has recorded the ticket as closed, a check is to come, one  *)
(* has failed for good, or the chain has reached its length, however polls,  *)
(* retries, second chains and an unsettled submission overlap.               *)
THEOREM PursuitGoesOn == ASSUME TrackingAssumption PROVE Spec => []StatusIsPursued
<1>1. TrackingInv => StatusIsPursued
  <2>1. SUFFICES ASSUME TrackingInv, ticket.reading.status # "CLOSED", recorder = "poll"
                 PROVE  \/ LiveJobs # {}
                        \/ \E j \in JobIds : jobs[j].status = "failed"
                        \/ \E j \in JobIds :
                              jobs[j].status = "completed" /\ jobs[j].checks + 1 = MaxChecks
    BY DEF StatusIsPursued
  <2>2. PICK j \in JobIds : Pursues(j)
    BY <2>1 DEF TrackingInv, Pursued
  <2>3. CASE Live(j)
    BY <2>3 DEF LiveJobs
  <2>4. CASE ~Live(j)
    BY <2>2, <2>4 DEF Pursues, Live
  <2>. QED BY <2>3, <2>4
<1>. QED BY <1>1, TrackingInvariance, PTL

(* The history ends with what the ticket says and records no reading twice   *)
(* in a row, whoever records and however late; the incident says the same,   *)
(* or UNKNOWN once the job that sent the report is over.                     *)
THEOREM HistoryIsConsistent == ASSUME TrackingAssumption PROVE Spec => []HistoryIsNews
<1>1. TrackingInv => HistoryIsNews
  BY DEF TrackingInv, RecordedOk
<1>. QED BY <1>1, TrackingInvariance, PTL

(* No status the agency reports takes back what a resident answered.         *)
THEOREM ResidentsHaveTheWord == ASSUME TrackingAssumption PROVE Spec => []ResolutionIsResidents
<1>1. TrackingInv => ResolutionIsResidents
  BY DEF TrackingInv, RecordedOk
<1>. QED BY <1>1, TrackingInvariance, PTL
===============================================================================

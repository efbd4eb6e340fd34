------------------------------ MODULE StoreProofs -----------------------------
(***************************************************************************)
(* Proofs about Store for any commands, records and limit: its types, that *)
(* one revision has one writer, that what an open command holds is         *)
(* current as long as the revision has not moved, and that commands which  *)
(* write are atomic.                                                       *)
(***************************************************************************)
EXTENDS Store, TLAPS

(* A command that has not begun has read nothing.                            *)
NewIsEmpty ==
    \A t \in Txns : txns[t].pc = "new" =>
        /\ txns[t].reads = {}
        /\ \A k \in Records : txns[t].cache[k] = Unread

(* The revision never falls below the one a command noted, and is above the  *)
(* one it has committed on.                                                  *)
GuardsArePast ==
    \A t \in Txns :
        /\ Open(t) => txns[t].guard <= revision
        /\ TookEffect(t) => txns[t].guard < revision

(* While the revision has not moved, everything the database has answered to *)
(* a command is what it would answer now.                                    *)
ReadsAreCurrent ==
    \A t \in Txns : Open(t) /\ Unchanged(t) =>
        \A r \in txns[t].reads : r[2] = items[r[1]]

StoreInv ==
    TypeOK /\ NewIsEmpty /\ GuardsArePast /\ ReadsAreCurrent
    /\ OneWriterPerRevision /\ CacheIsCurrent

-------------------------------------------------------------------------------
(* The steps by their effect on one command                                  *)

(* The command changes what it holds in memory, and nothing else moves.      *)
Holds(t, x) ==
    /\ txns' = [txns EXCEPT ![t] = x]
    /\ UNCHANGED <<items, revision>>

(* What an open command may hold next: one more answer of the database, or   *)
(* another buffered write.                                                   *)
GoesOn(t, x) ==
    /\ Open(t)
    /\ x \in TxnRecord
    /\ x.pc = "open"
    /\ x.guard = txns[t].guard
    /\ \A k \in Records : x.cache[k] \in {txns[t].cache[k], items[k]}
    /\ \A r \in x.reads : r \in txns[t].reads \/ r[2] = items[r[1]]

(* A command is over, and has had no effect.                                 *)
Gone(t, x) ==
    /\ Open(t)
    /\ x \in TxnRecord
    /\ x.pc \in {"failed", "read"}

(* A command notes the revision.                                             *)
Begins(t, x) ==
    /\ txns[t].pc = "new"
    /\ x = [txns[t] EXCEPT !.pc = "open", !.guard = revision]

(* A command's writes land; its call returns or raises.                      *)
Lands(t, x) ==
    /\ Open(t)
    /\ Unchanged(t)
    /\ items' = Applied(t)
    /\ revision' = revision + 1
    /\ x \in {[txns[t] EXCEPT !.pc = "landed"], [txns[t] EXCEPT !.pc = "lost"]}
    /\ txns' = [txns EXCEPT ![t] = x]

(* A fresh command is a record of its type.                                  *)
LEMMA NewTxnType == NewTxn \in TxnRecord
BY DEF NewTxn, TxnRecord, Values

(* Every step of the store has one of these effects.                         *)
LEMMA StepEffects ==
    ASSUME TypeOK, Next
    PROVE  \E t \in Txns : \E x :
              \/ Holds(t, x) /\ (Begins(t, x) \/ GoesOn(t, x) \/ Gone(t, x))
              \/ Lands(t, x)
<1>. PICK t \in Txns : \/ Guard(t) \/ Commit(t) \/ Abort(t) \/ CommitNothing(t)
                       \/ \E k \in Records : Get(t, k) \/ ListItem(t, k) \/ Put(t, k) \/ Delete(t, k)
  BY DEF Next
<1>t. txns[t] \in TxnRecord /\ txns \in [Txns -> TxnRecord]
  BY DEF TypeOK
<1>i. items \in [Records -> Values] /\ revision \in Nat
  BY DEF TypeOK
<1>f. txns[t].cache \in [Records -> Values \cup {Unread}] /\ txns[t].guard \in Nat
      /\ txns[t].pending \in [Records -> Values \cup {Unread}]
      /\ txns[t].reads \in SUBSET (Records \X Values)
  BY <1>t DEF TxnRecord
<1>1. CASE Guard(t)
  <2>. DEFINE x == [txns[t] EXCEPT !.pc = "open", !.guard = revision]
  <2>1. txns' = [txns EXCEPT ![t] = x]
    BY <1>1, <1>t DEF Guard, TxnRecord
  <2>. QED BY <2>1, <1>1 DEF Guard, Holds, Begins
<1>2. CASE Commit(t)
  <2>1. PICK x \in {[txns[t] EXCEPT !.pc = "landed"], [txns[t] EXCEPT !.pc = "lost"]} :
          txns' = [txns EXCEPT ![t] = x]
    BY <1>2, <1>t DEF Commit, TxnRecord
  <2>2. revision' = revision + 1
    BY <1>2 DEF Commit, NextRevision, Unchanged
  <2>. QED BY <2>1, <2>2, <1>2 DEF Commit, Lands
<1>3. CASE Abort(t) \/ CommitNothing(t)
  <2>1. PICK p \in {"failed", "read"} : Forget(t, p) /\ Open(t) /\ UNCHANGED <<items, revision>>
    BY <1>3 DEF Abort, CommitNothing
  <2>. DEFINE x == [NewTxn EXCEPT !.pc = p]
  <2>2. x \in TxnRecord /\ x.pc = p
    BY NewTxnType DEF TxnRecord
  <2>3. Holds(t, x)
    BY <2>1 DEF Forget, Holds
  <2>. QED BY <2>1, <2>2, <2>3 DEF Gone
<1>4. ASSUME NEW k \in Records, Get(t, k) \/ ListItem(t, k)
      PROVE  \E x : Holds(t, x) /\ GoesOn(t, x)
  <2>. DEFINE seen == txns[t].reads \cup {<<k, items[k]>>}
  <2>1. seen \in SUBSET (Records \X Values) /\ items[k] \in Values
    BY <1>f, <1>i
  <2>2. \A r \in seen : r \in txns[t].reads \/ r[2] = items[r[1]]
    OBVIOUS
  <2>3. CASE Get(t, k)
    <3>. DEFINE x == [txns[t] EXCEPT !.cache = [@ EXCEPT ![k] = items[k]], !.reads = seen]
    <3>1. txns' = [txns EXCEPT ![t] = x]
      BY <2>3, <1>t DEF Get, TxnRecord
    <3>2. x \in TxnRecord /\ x.pc = txns[t].pc /\ x.guard = txns[t].guard /\ x.reads = seen
          /\ x.cache = [txns[t].cache EXCEPT ![k] = items[k]]
      BY <1>t, <2>1 DEF TxnRecord
    <3>3. \A j \in Records : x.cache[j] \in {txns[t].cache[j], items[j]}
      BY <3>2, <1>f
    <3>. HIDE DEF x
    <3>4. GoesOn(t, x)
      BY <3>2, <3>3, <2>2, <2>3 DEF Get, GoesOn, Open
    <3>. QED BY <3>1, <3>4, <2>3 DEF Get, Holds
  <2>4. CASE ListItem(t, k)
    <3>. DEFINE x == [txns[t] EXCEPT !.reads = seen]
    <3>1. txns' = [txns EXCEPT ![t] = x]
      BY <2>4, <1>t DEF ListItem, TxnRecord
    <3>2. x \in TxnRecord /\ x.pc = txns[t].pc /\ x.guard = txns[t].guard /\ x.reads = seen
          /\ x.cache = txns[t].cache
      BY <1>t, <2>1 DEF TxnRecord
    <3>. HIDE DEF x
    <3>4. GoesOn(t, x)
      BY <3>2, <2>2, <2>4 DEF ListItem, GoesOn, Open
    <3>. QED BY <3>1, <3>4, <2>4 DEF ListItem, Holds
  <2>. QED BY <1>4, <2>3, <2>4
<1>5. ASSUME NEW k \in Records, Put(t, k) \/ Delete(t, k)
      PROVE  \E x : Holds(t, x) /\ GoesOn(t, x)
  <2>1. PICK v \in Values : Buffer(t, k, v)
    BY <1>5 DEF Put, Delete, Values
  <2>. DEFINE x == [txns[t] EXCEPT !.pending = [@ EXCEPT ![k] = v]]
  <2>2. txns' = [txns EXCEPT ![t] = x]
    BY <2>1, <1>t DEF Buffer, TxnRecord
  <2>3. x \in TxnRecord /\ x.pc = txns[t].pc /\ x.guard = txns[t].guard
        /\ x.reads = txns[t].reads /\ x.cache = txns[t].cache
    BY <1>t DEF TxnRecord
  <2>. HIDE DEF x
  <2>4. GoesOn(t, x)
    BY <2>3, <2>1 DEF Buffer, GoesOn, Open
  <2>. QED BY <2>2, <2>4, <2>1 DEF Buffer, Holds
<1>. QED BY <1>1, <1>2, <1>3, <1>4, <1>5

-------------------------------------------------------------------------------
(* The invariant                                                             *)

(* A store with no command begun satisfies the invariant.                    *)
LEMMA InitInv ==
    ASSUME StoreAssumption, Init
    PROVE  StoreInv
<1>1. NewTxn \in TxnRecord
  BY NewTxnType
<1>2. TypeOK
  BY <1>1 DEF Init, TypeOK, Values
<1>3. \A t \in Txns : txns[t].pc = "new" /\ txns[t].reads = {}
                      /\ \A k \in Records : txns[t].cache[k] = Unread
  BY DEF Init, NewTxn
<1>. QED BY <1>2, <1>3 DEF StoreInv, NewIsEmpty, GuardsArePast, ReadsAreCurrent,
                           OneWriterPerRevision, CacheIsCurrent, Open, TookEffect

(* A step in the memory of one command keeps it.                             *)
LEMMA HoldsInv ==
    ASSUME StoreInv, NEW t \in Txns, NEW x, Holds(t, x),
           Begins(t, x) \/ GoesOn(t, x) \/ Gone(t, x)
    PROVE  StoreInv'
<1>t. /\ txns \in [Txns -> TxnRecord] /\ txns' = [txns EXCEPT ![t] = x]
      /\ items' = items /\ revision' = revision /\ revision \in Nat
  BY DEF StoreInv, TypeOK, Holds
<1>x. txns'[t] = x /\ \A u \in Txns \ {t} : txns'[u] = txns[u]
  BY <1>t
<1>b. ASSUME Begins(t, x)
      PROVE  /\ x \in TxnRecord /\ x.pc = "open" /\ x.guard = revision
             /\ x.reads = {} /\ \A k \in Records : x.cache[k] = Unread
  <2>1. txns[t].reads = {} /\ \A k \in Records : txns[t].cache[k] = Unread
    BY <1>b DEF Begins, StoreInv, NewIsEmpty
  <2>2. txns[t] \in TxnRecord /\ x = [txns[t] EXCEPT !.pc = "open", !.guard = revision]
    BY <1>t, <1>b DEF Begins
  <2>. QED BY <2>1, <2>2, <1>t DEF TxnRecord
<1>1. TypeOK'
  <2>1. x \in TxnRecord
    BY <1>b DEF GoesOn, Gone
  <2>. QED BY <2>1, <1>t DEF StoreInv, TypeOK
<1>n. x.pc # "new" /\ x.pc \notin {"landed", "lost"}
  BY <1>b DEF GoesOn, Gone
<1>o. \A u \in Txns : TookEffect(u)' => TookEffect(u) /\ u # t
  BY <1>n, <1>x DEF TookEffect
<1>2. NewIsEmpty'
  BY <1>n, <1>x DEF StoreInv, NewIsEmpty
<1>3. GuardsArePast'
  <2>. SUFFICES ASSUME NEW u \in Txns
                PROVE  /\ Open(u)' => txns'[u].guard <= revision'
                       /\ TookEffect(u)' => txns'[u].guard < revision'
    BY DEF GuardsArePast
  <2>1. CASE u # t
    BY <2>1, <1>x, <1>t DEF StoreInv, GuardsArePast, Open, TookEffect
  <2>2. CASE u = t
    BY <2>2, <1>x, <1>t, <1>b, <1>o DEF StoreInv, GuardsArePast, Open, GoesOn, Gone
  <2>. QED BY <2>1, <2>2
<1>4. ReadsAreCurrent'
  <2>. SUFFICES ASSUME NEW u \in Txns, Open(u)', Unchanged(u)', NEW r \in txns'[u].reads
                PROVE  r[2] = items'[r[1]]
    BY DEF ReadsAreCurrent
  <2>1. CASE u # t
    BY <2>1, <1>x, <1>t DEF StoreInv, ReadsAreCurrent, Open, Unchanged
  <2>2. CASE u = t
    BY <2>2, <1>x, <1>t, <1>b DEF StoreInv, ReadsAreCurrent, Open, Unchanged, GoesOn, Gone
  <2>. QED BY <2>1, <2>2
<1>5. OneWriterPerRevision'
  <2>. SUFFICES ASSUME NEW u \in Txns, NEW v \in Txns, TookEffect(u)', TookEffect(v)', u # v
                PROVE  txns'[u].guard # txns'[v].guard
    BY DEF OneWriterPerRevision
  <2>1. TookEffect(u) /\ TookEffect(v) /\ u # t /\ v # t
    BY <1>o
  <2>. QED BY <2>1, <1>x DEF StoreInv, OneWriterPerRevision
<1>6. CacheIsCurrent'
  <2>. SUFFICES ASSUME NEW u \in Txns, Open(u)', Unchanged(u)', NEW k \in Records
                PROVE  txns'[u].cache[k] \in {Unread, items'[k]}
    BY DEF CacheIsCurrent
  <2>1. CASE u # t
    BY <2>1, <1>x, <1>t DEF StoreInv, CacheIsCurrent, Open, Unchanged
  <2>2. CASE u = t
    BY <2>2, <1>x, <1>t, <1>b DEF StoreInv, CacheIsCurrent, Open, Unchanged, GoesOn, Gone
  <2>. QED BY <2>1, <2>2
<1>. QED BY <1>1, <1>2, <1>3, <1>4, <1>5, <1>6 DEF StoreInv

(* The writes of a command that land keep it: they make every other open     *)
(* command's guard old.                                                      *)
LEMMA LandsInv ==
    ASSUME StoreInv, NEW t \in Txns, NEW x, Lands(t, x)
    PROVE  StoreInv'
<1>t. /\ txns \in [Txns -> TxnRecord] /\ txns' = [txns EXCEPT ![t] = x]
      /\ revision' = revision + 1 /\ revision \in Nat /\ txns[t] \in TxnRecord
  BY DEF StoreInv, TypeOK, Lands
<1>x. txns'[t] = x /\ \A u \in Txns \ {t} : txns'[u] = txns[u]
  BY <1>t
<1>y. x \in TxnRecord /\ x.pc \in {"landed", "lost"} /\ x.guard = revision
  BY <1>t DEF Lands, Unchanged, TxnRecord
<1>g. \A u \in Txns : txns[u].guard \in Nat
  BY <1>t DEF TxnRecord
<1>1. TypeOK'
  <2>1. items' \in [Records -> Values]
    <3>1. items \in [Records -> Values] /\ txns[t].pending \in [Records -> Values \cup {Unread}]
      BY <1>t DEF StoreInv, TypeOK, TxnRecord
    <3>. QED BY <3>1 DEF Lands, Applied, Written
  <2>2. revision' \in Nat
    BY <1>t
  <2>. QED BY <2>1, <2>2, <1>t, <1>y DEF TypeOK
<1>o. \A u \in Txns : Open(u)' => u # t /\ Open(u)
  BY <1>x, <1>y DEF Open
<1>u. \A u \in Txns : Open(u)' => ~Unchanged(u)'
  BY <1>o, <1>x, <1>t, <1>g DEF StoreInv, GuardsArePast, Unchanged
<1>2. NewIsEmpty'
  BY <1>x, <1>y DEF StoreInv, NewIsEmpty
<1>3. GuardsArePast'
  <2>. SUFFICES ASSUME NEW u \in Txns
                PROVE  /\ Open(u)' => txns'[u].guard <= revision'
                       /\ TookEffect(u)' => txns'[u].guard < revision'
    BY DEF GuardsArePast
  <2>1. CASE u # t
    BY <2>1, <1>x, <1>t, <1>g DEF StoreInv, GuardsArePast, Open, TookEffect
  <2>2. CASE u = t
    BY <2>2, <1>x, <1>t, <1>y, <1>o
  <2>. QED BY <2>1, <2>2
<1>4. ReadsAreCurrent' /\ CacheIsCurrent'
  BY <1>u DEF ReadsAreCurrent, CacheIsCurrent
<1>5. OneWriterPerRevision'
  <2>. SUFFICES ASSUME NEW u \in Txns, NEW v \in Txns, TookEffect(u)', TookEffect(v)', u # v
                PROVE  txns'[u].guard # txns'[v].guard
    BY DEF OneWriterPerRevision
  <2>1. \A w \in Txns \ {t} : TookEffect(w)' => TookEffect(w) /\ txns'[w].guard < revision
    BY <1>x DEF StoreInv, GuardsArePast, TookEffect
  <2>2. txns'[t].guard = revision
    BY <1>x, <1>y
  <2>3. CASE u = t \/ v = t
    BY <2>1, <2>2, <2>3, <1>t
  <2>4. CASE u # t /\ v # t
    BY <2>1, <2>4, <1>x DEF StoreInv, OneWriterPerRevision
  <2>. QED BY <2>3, <2>4
<1>. QED BY <1>1, <1>2, <1>3, <1>4, <1>5 DEF StoreInv

(* The invariant is inductive.                                               *)
LEMMA NextInv ==
    ASSUME StoreInv, [Next]_vars
    PROVE  StoreInv'
<1>1. CASE Next
  <2>1. PICK t \in Txns : \E x : \/ Holds(t, x) /\ (Begins(t, x) \/ GoesOn(t, x) \/ Gone(t, x))
                                 \/ Lands(t, x)
    BY <1>1, StepEffects DEF StoreInv
  <2>. QED BY <2>1, HoldsInv, LandsInv
<1>2. CASE UNCHANGED vars
  BY <1>2 DEF vars, StoreInv, TypeOK, NewIsEmpty, GuardsArePast, ReadsAreCurrent,
              OneWriterPerRevision, CacheIsCurrent, Open, Unchanged, TookEffect
<1>. QED BY <1>1, <1>2

(* The invariant holds in every state the store can be in.                   *)
THEOREM StoreInvariance == ASSUME StoreAssumption PROVE Spec => []StoreInv
<1>1. Init => StoreInv
  BY InitInv
<1>2. StoreInv /\ [Next]_vars => StoreInv'
  BY NextInv
<1>. QED BY <1>1, <1>2, PTL DEF Spec

(* Items, revision and what commands hold keep their types.                  *)
THEOREM TypeCorrect == ASSUME StoreAssumption PROVE Spec => []TypeOK
<1>1. StoreInv => TypeOK
  BY DEF StoreInv
<1>. QED BY <1>1, StoreInvariance, PTL

(* No two commands succeed on the same revision.                             *)
THEOREM WritersAreAlone == ASSUME StoreAssumption PROVE Spec => []OneWriterPerRevision
<1>1. StoreInv => OneWriterPerRevision
  BY DEF StoreInv
<1>. QED BY <1>1, StoreInvariance, PTL

(* What an open command has cached is current until the revision moves.      *)
THEOREM CachesAreCurrent == ASSUME StoreAssumption PROVE Spec => []CacheIsCurrent
<1>1. StoreInv => CacheIsCurrent
  BY DEF StoreInv
<1>. QED BY <1>1, StoreInvariance, PTL

-------------------------------------------------------------------------------
(* Commands that write are atomic                                            *)

(* What a command has done, as AtomicStore records it.                       *)
Done(t) ==
    IF TookEffect(t)
    THEN [reads |-> txns[t].reads, writes |-> [k \in Written(t) |-> txns[t].pending[k]]]
    ELSE Unread

(* A store with no command begun is an atomic store with none done.          *)
LEMMA InitRefines ==
    ASSUME Init
    PROVE  Serial!Init
<1>1. items \in [Records -> Values]
  BY DEF Init, Values
<1>2. \A t \in Txns : ~TookEffect(t)
  BY DEF Init, NewTxn, TookEffect
<1>. QED BY <1>1, <1>2 DEF Serial!Init

(* A step in the memory of one command is none of the atomic store.          *)
LEMMA HoldsRefines ==
    ASSUME StoreInv, NEW t \in Txns, NEW x, Holds(t, x),
           Begins(t, x) \/ GoesOn(t, x) \/ Gone(t, x)
    PROVE  UNCHANGED Serial!vars
<1>t. /\ txns \in [Txns -> TxnRecord] /\ txns' = [txns EXCEPT ![t] = x] /\ items' = items
      /\ txns[t] \in TxnRecord /\ revision \in Nat
  BY DEF StoreInv, TypeOK, Holds
<1>1. ~TookEffect(t) /\ ~TookEffect(t)'
  <2>1. txns[t].pc \in {"new", "open"}
    BY DEF Begins, GoesOn, Gone, Open
  <2>2. x.pc \in {"open", "failed", "read"}
    BY <1>t DEF Begins, GoesOn, Gone, TxnRecord
  <2>. QED BY <2>1, <2>2, <1>t DEF TookEffect
<1>2. \A u \in Txns : Done(u)' = Done(u)
  <2>. SUFFICES ASSUME NEW u \in Txns PROVE Done(u)' = Done(u)
    OBVIOUS
  <2>1. CASE u = t
    BY <2>1, <1>1 DEF Done
  <2>2. CASE u # t
    <3>1. txns'[u] = txns[u]
      BY <2>2, <1>t
    <3>. QED BY <3>1 DEF Done, TookEffect, Written
  <2>. QED BY <2>1, <2>2
<1>. QED BY <1>2, <1>t DEF Serial!vars, Done

(* The landing of a command's writes is its step of the atomic store: what   *)
(* it has read is what is there.                                             *)
LEMMA LandsRefines ==
    ASSUME StoreAssumption, StoreInv, NEW t \in Txns, NEW x, Lands(t, x)
    PROVE  Serial!Next
<1>t. /\ txns \in [Txns -> TxnRecord] /\ txns' = [txns EXCEPT ![t] = x]
      /\ txns[t] \in TxnRecord /\ items \in [Records -> Values]
  BY DEF StoreInv, TypeOK, Lands
<1>x. txns'[t] = x /\ \A u \in Txns \ {t} : txns'[u] = txns[u]
  BY <1>t
<1>r. /\ txns[t].reads \in SUBSET (Records \X Values)
      /\ txns[t].pending \in [Records -> Values \cup {Unread}]
  BY <1>t DEF TxnRecord
<1>y. /\ x.pc \in {"landed", "lost"} /\ x.reads = txns[t].reads /\ x.pending = txns[t].pending
  BY <1>t DEF Lands, TxnRecord
<1>. DEFINE K == {r[1] : r \in txns[t].reads}
            W == Written(t)
            new == [k \in W |-> txns[t].pending[k]]
<1>1. W \in SUBSET Records /\ new \in [W -> Values] /\ K \in SUBSET Records
  BY <1>r DEF Written
<1>2. txns[t].reads = {<<k, items[k]>> : k \in K}
  <2>1. \A r \in txns[t].reads : r \in Records \X Values /\ r[2] = items[r[1]]
    BY <1>r DEF Lands, StoreInv, ReadsAreCurrent
  <2>. QED BY <2>1
<1>3. ~TookEffect(t) /\ TookEffect(t)' /\ Written(t)' = W
  BY <1>x, <1>y DEF Lands, Open, TookEffect, Written
<1>4. Done(t) = Unread
  BY <1>3 DEF Done
<1>5. Done(t)' = [reads |-> txns[t].reads, writes |-> new]
  BY <1>3, <1>x, <1>y DEF Done
<1>6. Done(t)' # Unread
  <2>1. [reads |-> txns[t].reads, writes |-> new] \in
          [reads : SUBSET (Records \X Values), writes : UNION {[A -> Values] : A \in SUBSET Records}]
    BY <1>1, <1>r
  <2>. QED BY <2>1, <1>5 DEF StoreAssumption
<1>7. \A u \in Txns \ {t} : Done(u)' = Done(u)
  BY <1>x DEF Done, TookEffect, Written
<1>. DEFINE done == [u \in Txns |-> Done(u)]
<1>8. done' = [done EXCEPT ![t] = [reads  |-> {<<k, items[k]>> : k \in K}, writes |-> new]]
  BY <1>2, <1>5, <1>7
<1>9. items' = [k \in Records |-> IF k \in W THEN new[k] ELSE items[k]]
  BY DEF Lands, Applied
<1>10. \E A, B \in SUBSET Records : \E f \in [B -> Values] : Serial!Take(t, A, B, f)
  <2>1. PICK A : A = K
    OBVIOUS
  <2>2. PICK B : B = W
    OBVIOUS
  <2>3. PICK f : f = new
    OBVIOUS
  <2>. HIDE DEF K, W, new
  <2>4. A \in SUBSET Records /\ B \in SUBSET Records /\ f \in [B -> Values]
    BY <1>1, <2>1, <2>2, <2>3
  <2>5. Serial!Take(t, A, B, f)
    <3>1. f = [k \in B |-> f[k]]
      BY <2>4
    <3>2. done' = [done EXCEPT ![t] = [reads  |-> {<<k, items[k]>> : k \in A},
                                       writes |-> [k \in B |-> f[k]]]]
      BY <1>8, <2>1, <2>3, <3>1
    <3>3. items' = [k \in Records |-> IF k \in B THEN f[k] ELSE items[k]]
      BY <1>9, <2>2, <2>3
    <3>. QED BY <3>2, <3>3 DEF Serial!Take, Done
  <2>. QED BY <2>4, <2>5
<1>11. done[t] = Unread /\ done'[t] # Unread
  BY <1>4, <1>6
<1>. QED BY <1>10, <1>11 DEF Serial!Next, Done

(* Commands that write, each with its reads item by item and a commit that   *)
(* may raise after it has taken effect, implement the atomic store.          *)
THEOREM StoreIsAtomic == ASSUME StoreAssumption PROVE Spec => ImplementsAtomicStore
<1>1. Init => Serial!Init
  BY InitRefines
<1>2. StoreInv /\ [Next]_vars => [Serial!Next]_(Serial!vars)
  <2>. SUFFICES ASSUME StoreInv, [Next]_vars PROVE [Serial!Next]_(Serial!vars)
    OBVIOUS
  <2>1. CASE Next
    <3>1. PICK t \in Txns : \E x : \/ Holds(t, x) /\ (Begins(t, x) \/ GoesOn(t, x) \/ Gone(t, x))
                                   \/ Lands(t, x)
      BY <2>1, StepEffects DEF StoreInv
    <3>. QED BY <3>1, HoldsRefines, LandsRefines
  <2>2. CASE UNCHANGED vars
    BY <2>2 DEF vars, Serial!vars, TookEffect, Written
  <2>. QED BY <2>1, <2>2
<1>. QED BY <1>1, <1>2, StoreInvariance, PTL DEF Spec, Serial!Spec, ImplementsAtomicStore
===============================================================================

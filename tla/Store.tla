--------------------------------- MODULE Store --------------------------------
(***************************************************************************)
(* The record store on DynamoDB: DynamoStore and DynamoTransaction of      *)
(* services/agents/aws_storage.py, one workspace.                          *)
(*                                                                         *)
(* A transaction holds no lock.  It notes the workspace revision before    *)
(* its first operation, reads item by item while others commit, buffers    *)
(* its writes, and writes them in one conditional call that also advances  *)
(* the revision.                                                           *)
(***************************************************************************)
EXTENDS Naturals, FiniteSets

CONSTANTS
    Txns,      \* the commands; a record written by t has the value t
    Records,   \* record keys of the workspace
    Missing,   \* the value of a record that is not there
    Unread,    \* not in the cache, or not among the buffered writes
    MaxWrites  \* 99, the records one conditional write can hold

Values == Txns \cup {Missing}

ASSUME StoreAssumption ==
    /\ Missing \notin Txns
    /\ Unread \notin Values
    /\ Unread \notin [reads  : SUBSET (Records \X Values),
                     writes : UNION {[K -> Values] : K \in SUBSET Records}]
    /\ MaxWrites \in Nat

VARIABLES
    items,    \* the stored records
    revision, \* the "!revision" item
    txns      \* what each transaction holds in memory

vars == <<items, revision, txns>>

(* pc: how far the command is; guard: the revision noted; cache, pending: as *)
(* in the code; reads: history of every value the database has answered.     *)
TxnRecord ==
    [pc      : {"new", "open", "landed", "lost", "failed", "read"},
     guard   : Nat,
     cache   : [Records -> Values \cup {Unread}],
     pending : [Records -> Values \cup {Unread}],
     reads   : SUBSET (Records \X Values)]

TypeOK ==
    /\ items \in [Records -> Values]
    /\ revision \in Nat
    /\ txns \in [Txns -> TxnRecord]

NewTxn == [pc |-> "new", guard |-> 0, cache |-> [k \in Records |-> Unread],
           pending |-> [k \in Records |-> Unread], reads |-> {}]

Init ==
    /\ items = [k \in Records |-> Missing]
    /\ revision = 0
    /\ txns = [t \in Txns |-> NewTxn]

-------------------------------------------------------------------------------

Open(t) == txns[t].pc = "open"

Written(t) == {k \in Records : txns[t].pending[k] # Unread}

(* _guard: the first operation notes the revision before it reads anything.  *)
Guard(t) ==
    /\ txns[t].pc = "new"
    /\ txns' = [txns EXCEPT ![t].pc = "open", ![t].guard = revision]
    /\ UNCHANGED <<items, revision>>

(* get: a buffered write or the cached copy is answered without a call; else *)
(* one consistent read, whatever others have committed since the guard.      *)
Get(t, k) ==
    /\ Open(t)
    /\ k \notin Written(t)
    /\ txns[t].cache[k] = Unread
    /\ txns' = [txns EXCEPT ![t].cache[k] = items[k],
                            ![t].reads = @ \cup {<<k, items[k]>>}]
    /\ UNCHANGED <<items, revision>>

(* list: a query neither uses nor fills the cache, a buffered write hides    *)
(* what it answers, and others may commit between two of its items.          *)
ListItem(t, k) ==
    /\ Open(t)
    /\ k \notin Written(t)
    /\ txns' = [txns EXCEPT ![t].reads = @ \cup {<<k, items[k]>>}]
    /\ UNCHANGED <<items, revision>>

Buffer(t, k, v) ==
    /\ Open(t)
    /\ txns' = [txns EXCEPT ![t].pending[k] = v]
    /\ UNCHANGED <<items, revision>>

Put(t, k) == Buffer(t, k, t)

Delete(t, k) == Buffer(t, k, Missing)

(* Mutant of Unchanged: no condition on the revision.                        *)
UnchangedOrNot(t) == revision >= txns[t].guard

(* The condition of the conditional write.                                   *)
Unchanged(t) == revision = txns[t].guard

(* Mutant of NextRevision: the guard item is checked but not advanced.       *)
SameRevision(t) == txns[t].guard

NextRevision(t) == txns[t].guard + 1

Applied(t) == [k \in Records |-> IF k \in Written(t) THEN txns[t].pending[k] ELSE items[k]]

(* A buffer within the limit is written as a whole and the revision moves.   *)
(* The call may raise all the same (a lost answer): the command then reports *)
(* a failure of what has taken effect.                                       *)
Commit(t) ==
    /\ Open(t)
    /\ Written(t) # {}
    /\ Cardinality(Written(t)) <= MaxWrites
    /\ Unchanged(t)
    /\ items' = Applied(t)
    /\ revision' = NextRevision(t)
    /\ \/ txns' = [txns EXCEPT ![t].pc = "landed"]
       \/ txns' = [txns EXCEPT ![t].pc = "lost"]

(* The command ends and what it held in memory goes with it.                 *)
Forget(t, pc) == txns' = [txns EXCEPT ![t] = [NewTxn EXCEPT !.pc = pc]]

(* ConcurrentUpdate, the ValueError of an oversized command, a transport     *)
(* error before the write, or an exception raised by the command's own code. *)
Abort(t) ==
    /\ Open(t)
    /\ Forget(t, "failed")
    /\ UNCHANGED <<items, revision>>

(* Nothing to write: commit returns without asking the database.             *)
CommitNothing(t) ==
    /\ Open(t)
    /\ Written(t) = {}
    /\ Forget(t, "read")
    /\ UNCHANGED <<items, revision>>

Next ==
    \E t \in Txns :
        \/ Guard(t) \/ Commit(t) \/ Abort(t) \/ CommitNothing(t)
        \/ \E k \in Records : Get(t, k) \/ ListItem(t, k) \/ Put(t, k) \/ Delete(t, k)

Spec == Init /\ [][Next]_vars

-------------------------------------------------------------------------------
(* Properties *)

TookEffect(t) == txns[t].pc \in {"landed", "lost"}

(* Commands that write are serializable: what a command has read, item by    *)
(* item, while others committed, is the state it then changes in one step,   *)
(* and a command refused or cut off changes nothing.                         *)
Serial == INSTANCE AtomicStore WITH
    Pending <- Unread,
    done <- [t \in Txns |->
                IF TookEffect(t)
                THEN [reads  |-> txns[t].reads,
                      writes |-> [k \in Written(t) |-> txns[t].pending[k]]]
                ELSE Unread]

ImplementsAtomicStore == Serial!Spec

(* No two commands succeed on the same revision: one of two that read the    *)
(* same state is refused, also when the answer of the first was lost.        *)
OneWriterPerRevision ==
    \A t, u \in Txns : TookEffect(t) /\ TookEffect(u) /\ t # u => txns[t].guard # txns[u].guard

(* A command still open on the current revision holds no stale value: the    *)
(* cache answers what a fresh read would.                                    *)
CacheIsCurrent ==
    \A t \in Txns : Open(t) /\ Unchanged(t) =>
        \A k \in Records : txns[t].cache[k] \in {Unread, items[k]}
===============================================================================

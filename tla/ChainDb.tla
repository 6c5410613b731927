-------------------------------- MODULE ChainDb --------------------------------
(***************************************************************************)
(* Locks and database transactions: the pool's and the chain's lock, the   *)
(* transactions and batches of BlockchainLMDB, and the gate that lets      *)
(* do_resize change the size of the memory map (lmdb/db_lmdb.cpp), as the  *)
(* node's threads use them.                                                *)
(*                                                                         *)
(* A thread runs one operation after the other:                            *)
(*   - a read without the chain lock, as check_fee does;                   *)
(*   - a read under the chain lock in a read transaction of its own, as    *)
(*     get_short_chain_history does;                                       *)
(*   - create_block_template's pass over the pool: the pool's lock, then   *)
(*     the chain's for each transaction;                                   *)
(*   - Blockchain::add_new_block: the pool's lock, then the chain's, then  *)
(*     a write transaction for a block of the main chain, or a switch to   *)
(*     another chain: pops, then the batch of HardFork's reorganisation;   *)
(*   - core::update_checkpoints: the chain's lock, a batch, and for a      *)
(*     checkpoint the chain does not match, a rollback.                    *)
(*                                                                         *)
(* LMDB itself is external: a write transaction is visible to others and   *)
(* durable once it is committed.                                           *)
(***************************************************************************)
EXTENDS Integers, FiniteSets

CONSTANTS
  Thread, NoThread,
  Conflicts,    \* heights of checkpoints that do not match the chain
  WordSize,     \* 2^64
  MaxHeight,    \* bound
  MaxResizes    \* bound

ASSUME ThreadAssumption == NoThread \notin Thread /\ IsFiniteSet(Thread)

ASSUME HeightAssumption ==
  /\ WordSize \in Nat /\ MaxHeight \in Nat /\ MaxResizes \in Nat
  /\ MaxHeight + 2 < WordSize
  /\ Conflicts \subseteq 1..MaxHeight

VARIABLES
  job, pc,    \* thread -> the operation it runs, and where it is in it
  poolLock, chainLock, gate,   \* holder of the lock
  active,     \* num_active_txns
  rtxn,       \* threads whose LMDB read transaction is active (m_rf_txn)
  write,      \* m_write_txn is set
  writer,     \* m_writer
  batch,      \* m_batch_active
  updating,   \* m_checkpoints_updating
  height,     \* m_height, of the object in memory
  committed,  \* height the database would have after a crash
  point, target,   \* check_against_checkpoints: last checkpoint, rollback_height
  resizes

txns == <<active, rtxn, write, writer, batch>>

heights == <<height, committed, point, target>>

vars == <<job, pc, poolLock, chainLock, gate, txns, updating, heights, resizes>>

Runs(t, j, l) == job[t] = j /\ pc[t] = l

Goto(t, l) == pc' = [pc EXCEPT ![t] = l] /\ UNCHANGED job

Start(t, j, l) == job' = [job EXCEPT ![t] = j] /\ pc' = [pc EXCEPT ![t] = l]

Idle(t) == Start(t, "none", "idle")

\* The thread that owns the write transaction reads through it.
OwnsWrite(t) == write /\ writer = t

----------------------------------------------------------------------------
(***************************************************************************)
(* A read without the chain lock.  TXN_PREFIX_RDONLY first renews the LMDB *)
(* transaction and then counts it, in the constructor of mdb_txn_safe.     *)
(***************************************************************************)
ReadBegin(t) ==
  /\ Runs(t, "none", "idle")
  /\ IF OwnsWrite(t) THEN Start(t, "fee", "nested") /\ rtxn' = rtxn
                     ELSE Start(t, "fee", "begun") /\ rtxn' = rtxn \cup {t}
  /\ UNCHANGED <<poolLock, chainLock, gate, active, write, writer, batch, updating, heights, resizes>>

\* mdb_txn_safe::mdb_txn_safe
ReadCount(t) ==
  /\ Runs(t, "fee", "begun") /\ gate = NoThread
  /\ Goto(t, "reading")
  /\ active' = active + 1
  /\ UNCHANGED <<poolLock, chainLock, gate, rtxn, write, writer, batch, updating, heights, resizes>>

\* mdb_txn_safe::~mdb_txn_safe
ReadEnd(t) ==
  /\ Runs(t, "fee", "reading") \/ Runs(t, "fee", "nested")
  /\ Idle(t)
  /\ IF pc[t] = "reading" THEN rtxn' = rtxn \ {t} /\ active' = active - 1
                          ELSE UNCHANGED <<rtxn, active>>
  /\ UNCHANGED <<poolLock, chainLock, gate, write, writer, batch, updating, heights, resizes>>

\* block_txn_start(true): reads after it find m_rf_txn set and are not counted.
ReadTxnStart(t) == rtxn' = IF OwnsWrite(t) THEN rtxn ELSE rtxn \cup {t}

\* block_txn_stop after it
ReadTxnStop(t) == rtxn' = rtxn \ {t}

HistoryBegin(t) ==
  /\ Runs(t, "none", "idle") /\ chainLock = NoThread
  /\ Start(t, "history", "reading_blocks")
  /\ chainLock' = t
  /\ ReadTxnStart(t)
  /\ UNCHANGED <<poolLock, gate, active, write, writer, batch, updating, heights, resizes>>

HistoryEnd(t) ==
  /\ job[t] = "history"
  /\ Idle(t)
  /\ chainLock' = NoThread
  /\ ReadTxnStop(t)
  /\ UNCHANGED <<poolLock, gate, active, write, writer, batch, updating, heights, resizes>>

----------------------------------------------------------------------------
(***************************************************************************)
(* do_resize, which add_block and batch_start call when the map is nearly  *)
(* full, with the chain lock held.                                         *)
(***************************************************************************)
AboutToWrite(t) ==
  \/ Runs(t, "add", "checked") /\ ~batch
  \/ pc[t] = "batch_start" /\ ~batch /\ ~write

PreventNewTxns(t) ==
  /\ AboutToWrite(t) /\ resizes < MaxResizes
  /\ gate = NoThread
  /\ Goto(t, "gated")
  /\ gate' = t
  /\ resizes' = resizes + 1
  /\ UNCHANGED <<poolLock, chainLock, txns, updating, heights>>

\* Past the test of m_write_txn, which would throw.
WaitNoActiveTxns(t) ==
  /\ pc[t] = "gated" /\ ~write /\ active = 0
  /\ Goto(t, "mapping")
  /\ UNCHANGED <<poolLock, chainLock, gate, txns, updating, heights, resizes>>

\* Mutant: the gate stays shut.
AllowNewTxnsNever(t) ==
  /\ pc[t] = "mapping"
  /\ Goto(t, "resized")
  /\ UNCHANGED <<poolLock, chainLock, gate, txns, updating, heights, resizes>>

\* mdb_env_set_mapsize is done.
AllowNewTxns(t) ==
  /\ pc[t] = "mapping"
  /\ Goto(t, "resized")
  /\ gate' = NoThread
  /\ UNCHANGED <<poolLock, chainLock, txns, updating, heights, resizes>>

----------------------------------------------------------------------------
(***************************************************************************)
(* create_block_template and add_new_block.                                *)
(***************************************************************************)
LockPool(t) ==
  /\ Runs(t, "none", "idle") /\ poolLock = NoThread
  /\ \E j \in {"template", "add", "switch"} : Start(t, j, "pool_locked")
  /\ poolLock' = t
  /\ UNCHANGED <<chainLock, gate, txns, updating, heights, resizes>>

LockChain(t) ==
  /\ pc[t] = "pool_locked" /\ chainLock = NoThread
  /\ Goto(t, "validating")
  /\ chainLock' = t
  /\ IF job[t] = "template" THEN UNCHANGED rtxn ELSE ReadTxnStart(t)
  /\ UNCHANGED <<poolLock, gate, active, write, writer, batch, updating, heights, resizes>>

Release(t) == poolLock' = NoThread /\ chainLock' = NoThread /\ Idle(t)

\* Mutant: a block is refused by an early return that leaves the read transaction.
RefusedKept(t) ==
  /\ pc[t] = "validating"
  /\ Release(t)
  /\ UNCHANGED <<gate, txns, updating, heights, resizes>>

\* The transactions of a template are checked, or the block is refused.
Refused(t) ==
  /\ pc[t] = "validating"
  /\ Release(t)
  /\ ReadTxnStop(t)
  /\ UNCHANGED <<gate, active, write, writer, batch, updating, heights, resizes>>

Validated(t) ==
  /\ pc[t] = "validating" /\ job[t] \in {"add", "switch"}
  /\ Goto(t, "checked")
  /\ ReadTxnStop(t)
  /\ UNCHANGED <<poolLock, chainLock, gate, active, write, writer, batch, updating, heights, resizes>>

\* block_txn_start(false): with a batch active there is nothing to start.
WriteTxnStart(t) ==
  IF batch THEN UNCHANGED <<active, write, writer>>
           ELSE ~write /\ writer' = t /\ write' = TRUE /\ active' = active + 1

\* block_txn_stop and block_txn_abort after it
WriteTxnStop(t) ==
  IF OwnsWrite(t)
  THEN IF batch THEN UNCHANGED <<write, active, rtxn>>
                ELSE write' = FALSE /\ active' = active - 1 /\ UNCHANGED rtxn
  ELSE ReadTxnStop(t) /\ UNCHANGED <<write, active>>

\* What a commit of a height leaves in the database.
Commit(h) == committed' = IF batch THEN committed ELSE h

AddBegin(t) ==
  /\ Runs(t, "add", "checked") \/ Runs(t, "add", "resized")
  /\ height < MaxHeight /\ gate = NoThread
  /\ Goto(t, "adding")
  /\ WriteTxnStart(t)
  /\ UNCHANGED <<poolLock, chainLock, gate, rtxn, batch, updating, heights, resizes>>

\* Mutant: the transaction is aborted and m_height raised all the same.
AddCommitLost(t) ==
  /\ pc[t] = "adding"
  /\ WriteTxnStop(t)
  /\ Goto(t, "added")
  /\ UNCHANGED <<poolLock, chainLock, gate, writer, batch, updating, heights, resizes>>

\* BlockchainDB::add_block
AddCommit(t) ==
  /\ pc[t] = "adding"
  /\ WriteTxnStop(t)
  /\ Commit(height + 1)
  /\ Goto(t, "added")
  /\ UNCHANGED <<poolLock, chainLock, gate, writer, batch, updating, height, point, target, resizes>>

\* BlockchainLMDB::add_block after it
AddDone(t) ==
  /\ pc[t] = "added"
  /\ height' = height + 1
  /\ Release(t)
  /\ UNCHANGED <<gate, txns, updating, committed, point, target, resizes>>

\* Mutant: m_height is raised although the transaction is aborted.
AddAbortRaised(t) ==
  /\ pc[t] = "adding"
  /\ WriteTxnStop(t)
  /\ height' = height + 1
  /\ Release(t)
  /\ UNCHANGED <<gate, writer, batch, updating, committed, point, target, resizes>>

\* An exception: block_txn_abort
AddAbort(t) ==
  /\ pc[t] = "adding"
  /\ WriteTxnStop(t)
  /\ Release(t)
  /\ UNCHANGED <<gate, writer, batch, updating, heights, resizes>>

(***************************************************************************)
(* BlockchainLMDB::pop_block, in a switch and in a rollback.               *)
(***************************************************************************)
PopBegin(t) ==
  /\ \/ Runs(t, "switch", "checked") /\ height > 1
     \/ Runs(t, "points", "rollback") /\ height # target
  /\ gate = NoThread
  /\ Goto(t, "popping")
  /\ WriteTxnStart(t)
  /\ UNCHANGED <<poolLock, chainLock, gate, rtxn, batch, updating, heights, resizes>>

PopCommit(t) ==
  /\ pc[t] = "popping"
  /\ WriteTxnStop(t)
  /\ Commit(height - 1)
  /\ Goto(t, "popped")
  /\ UNCHANGED <<poolLock, chainLock, gate, writer, batch, updating, height, point, target, resizes>>

\* The transactions of the block, if it has any, go back to the pool.
PopDone(t) ==
  /\ pc[t] = "popped"
  /\ height' = height - 1
  /\ IF job[t] = "switch" THEN Goto(t, "checked")
                          ELSE \E l \in {"rollback", "return_txs"} : Goto(t, l)
  /\ UNCHANGED <<poolLock, chainLock, gate, txns, updating, committed, point, target, resizes>>

\* tx_memory_pool::add_tx takes the pool's lock and releases it.
ReturnTxs(t) ==
  /\ pc[t] = "return_txs" /\ poolLock = NoThread
  /\ Goto(t, "rollback")
  /\ UNCHANGED <<poolLock, chainLock, gate, txns, updating, heights, resizes>>

----------------------------------------------------------------------------
(***************************************************************************)
(* Batches: update_checkpoints and check_against_checkpoints, and the      *)
(* reorganisation of the hard forks at the end of a switch.                *)
(***************************************************************************)
UpdateCheckpoints(t) ==
  /\ Runs(t, "none", "idle") /\ ~updating /\ chainLock = NoThread
  /\ Start(t, "points", "batch_start")
  /\ updating' = TRUE
  /\ chainLock' = t
  /\ point' = 0
  /\ UNCHANGED <<poolLock, gate, txns, height, committed, target, resizes>>

ReorganizeForks(t) ==
  /\ Runs(t, "switch", "checked")
  /\ Goto(t, "batch_start")
  /\ UNCHANGED <<poolLock, chainLock, gate, txns, updating, heights, resizes>>

BatchStart(t) ==
  /\ \/ pc[t] = "batch_start"
     \/ pc[t] = "resized" /\ job[t] # "add"
  /\ ~batch /\ ~write /\ gate = NoThread
  /\ Goto(t, "in_batch")
  /\ writer' = t /\ write' = TRUE /\ batch' = TRUE /\ active' = active + 1
  /\ UNCHANGED <<poolLock, chainLock, gate, rtxn, updating, heights, resizes>>

\* The exception leaves the switch, and the locks with it.
BatchStartThrows(t) ==
  /\ Runs(t, "switch", "batch_start")
  /\ batch \/ write
  /\ Release(t)
  /\ UNCHANGED <<gate, txns, updating, heights, resizes>>

PointsLeft == {c \in Conflicts : c > point /\ c < height}

\* Mutant: the batch is not stopped.
BatchStopSkipped(t) ==
  /\ pc[t] = "in_batch" /\ (job[t] = "points" => PointsLeft = {})
  /\ updating' = IF job[t] = "points" THEN FALSE ELSE updating
  /\ Release(t)
  /\ UNCHANGED <<gate, txns, heights, resizes>>

\* batch_stop, and the return from the operation
BatchStop(t) ==
  /\ pc[t] = "in_batch" /\ (job[t] = "points" => PointsLeft = {})
  /\ committed' = height
  /\ write' = FALSE /\ batch' = FALSE /\ active' = active - 1
  /\ updating' = IF job[t] = "points" THEN FALSE ELSE updating
  /\ chainLock' = NoThread
  /\ poolLock' = IF job[t] = "switch" THEN NoThread ELSE poolLock
  /\ Idle(t)
  /\ UNCHANGED <<gate, rtxn, writer, height, point, target, resizes>>

\* pt.first - 2, an unsigned number
RollbackHeight(c) == (c - 2) % WordSize

\* The next checkpoint the chain does not match.  A height above the chain's ends
\* rollback_blockchain_switching at once.
Conflict(t) ==
  /\ Runs(t, "points", "in_batch")
  /\ \E c \in PointsLeft :
       /\ \A d \in PointsLeft : c <= d
       /\ point' = c
       /\ target' = RollbackHeight(c)
       /\ Goto(t, IF RollbackHeight(c) > height THEN "in_batch" ELSE "rollback")
  /\ UNCHANGED <<poolLock, chainLock, gate, txns, updating, height, committed, resizes>>

\* reorganize_from_chain_height: at height zero it returns; otherwise it starts a
\* batch, which throws as one is active.  The exception releases the chain lock and
\* leaves the batch and m_checkpoints_updating.
RolledBack(t) ==
  /\ Runs(t, "points", "rollback") /\ height = target
  /\ IF target = 0 THEN Goto(t, "in_batch") /\ UNCHANGED chainLock
                   ELSE Idle(t) /\ chainLock' = NoThread
  /\ UNCHANGED <<poolLock, gate, txns, updating, heights, resizes>>

----------------------------------------------------------------------------
Init ==
  /\ job = [t \in Thread |-> "none"] /\ pc = [t \in Thread |-> "idle"]
  /\ poolLock = NoThread /\ chainLock = NoThread /\ gate = NoThread
  /\ active = 0 /\ rtxn = {} /\ write = FALSE /\ writer = NoThread /\ batch = FALSE
  /\ updating = FALSE
  /\ height = 1 /\ committed = 1 /\ point = 0 /\ target = 0
  /\ resizes = 0

Read(t) == ReadBegin(t) \/ ReadCount(t) \/ ReadEnd(t) \/ HistoryBegin(t) \/ HistoryEnd(t)

Resize(t) == PreventNewTxns(t) \/ WaitNoActiveTxns(t) \/ AllowNewTxns(t)

AddNewBlock(t) ==
  \/ LockPool(t) \/ LockChain(t) \/ Refused(t) \/ Validated(t)
  \/ AddBegin(t) \/ AddCommit(t) \/ AddDone(t) \/ AddAbort(t)
  \/ PopBegin(t) \/ PopCommit(t) \/ PopDone(t) \/ ReturnTxs(t)

Batches(t) ==
  \/ UpdateCheckpoints(t) \/ ReorganizeForks(t) \/ BatchStart(t) \/ BatchStartThrows(t)
  \/ BatchStop(t) \/ Conflict(t) \/ RolledBack(t)

Next == \E t \in Thread : Read(t) \/ Resize(t) \/ AddNewBlock(t) \/ Batches(t)

Spec == Init /\ [][Next]_vars

\* The steps a thread takes without waiting for another, and the gate's and the
\* counter's loops, which spin until they succeed.
Progress(t) ==
  \/ ReadCount(t) \/ ReadEnd(t) \/ HistoryEnd(t) \/ WaitNoActiveTxns(t) \/ AllowNewTxns(t)

FairSpec == Spec /\ \A t \in Thread : WF_vars(Progress(t))

----------------------------------------------------------------------------
(***************************************************************************)
(* Properties.                                                             *)
(***************************************************************************)
Jobs == {"none", "fee", "history", "template", "add", "switch", "points"}

Labels ==
  {"idle", "begun", "reading", "nested", "reading_blocks", "gated", "mapping", "resized",
   "pool_locked", "validating", "checked", "adding", "added", "popping", "popped",
   "rollback", "return_txs", "batch_start", "in_batch"}

\* The variables have their types: no height and no count falls below zero.
TypeOK ==
  /\ job \in [Thread -> Jobs] /\ pc \in [Thread -> Labels]
  /\ {poolLock, chainLock, gate, writer} \subseteq Thread \cup {NoThread}
  /\ active \in Nat /\ rtxn \subseteq Thread
  /\ {write, batch, updating} \subseteq BOOLEAN
  /\ {height, committed, point, target, resizes} \subseteq Nat

Counted == {t \in Thread : pc[t] = "reading"}

\* mdb_txn_safe: num_active_txns is the number of counted reads plus one for the
\* write transaction, so the wait of do_resize waits for exactly those.
CountExact == active = Cardinality(Counted) + (IF write THEN 1 ELSE 0)

\* do_resize: while the map changes no counted read and no write transaction runs, and
\* a thread with an LMDB read transaction is one that began it and now spins at the
\* gate: it does not touch the map until the gate opens.
MapChangeExcludes ==
  \A t \in Thread :
    pc[t] = "mapping" =>
      /\ gate = t /\ Counted = {} /\ ~write
      /\ \A u \in rtxn : pc[u] = "begun"

\* do_resize never finds a write transaction: the exception that would leave the gate
\* shut for ever is not reached.
ResizeNeverThrows == gate # NoThread => ~write /\ ~batch

\* A batch outlives the operation that started it only when the rollback of a
\* checkpoint threw: then no checkpoint update ever runs again either.
BatchLeftByRollback ==
  (batch /\ chainLock = NoThread) =>
    /\ updating
    /\ point \in Conflicts /\ target = RollbackHeight(point) /\ target > 0

\* Between operations, with no batch left behind, the database holds every block the
\* node counts: a crash then loses nothing.
Durable == (chainLock = NoThread /\ ~batch) => committed = height

\* check_fee reads m_height without a lock and then the block below it: outside a
\* batch that block is in the database, except after pop_block has committed and
\* before it lowers m_height.
HeightReadable ==
  height > committed => batch \/ (chainLock # NoThread /\ pc[chainLock] = "popped")

\* The pool's lock comes before the chain's "to avoid deadlock": no thread that has the
\* chain's lock waits for the pool's while its holder waits for the chain's.
NoLockCycle ==
  ~ \E t, u \in Thread :
      /\ pc[t] = "return_txs" /\ poolLock = u
      /\ pc[u] = "pool_locked" /\ chainLock = t

\* do_resize: the gate that was shut opens again, as every counted transaction ends.
GateReopens == gate # NoThread ~> gate = NoThread
=============================================================================

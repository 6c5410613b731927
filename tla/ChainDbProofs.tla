----------------------------- MODULE ChainDbProofs -----------------------------
(***************************************************************************)
(* Proofs about ChainDb, for every finite set of threads, every set of     *)
(* conflicting checkpoints and any number of resizes.                      *)
(***************************************************************************)
EXTENDS ChainDb, FiniteSetTheorems, TLAPS

(***************************************************************************)
(* The inductive invariant.  The count of transactions is exact by itself; *)
(* that nothing runs while the map changes also needs who holds which      *)
(* lock, which part of an operation runs inside a write transaction, and   *)
(* that the thread at the gate is the one that holds the chain's lock.     *)
(***************************************************************************)
\* Where a thread has the chain's lock.
Locked ==
  {"reading_blocks", "gated", "mapping", "resized", "validating", "checked", "adding",
   "added", "popping", "popped", "rollback", "return_txs", "batch_start", "in_batch"}

Locks == \A t \in Thread : pc[t] \in Locked => chainLock = t

Places ==
  \A t \in Thread :
    /\ job[t] = "none" => pc[t] = "idle"
    /\ job[t] = "fee" => pc[t] \in {"begun", "reading", "nested"}
    /\ job[t] = "history" => pc[t] = "reading_blocks"
    /\ job[t] = "template" => pc[t] \in {"pool_locked", "validating"}
    /\ job[t] = "add" =>
         pc[t] \in {"pool_locked", "validating", "checked", "gated", "mapping", "resized",
                    "adding", "added"}
    /\ job[t] = "switch" =>
         pc[t] \in {"pool_locked", "validating", "checked", "popping", "popped",
                    "batch_start", "gated", "mapping", "resized", "in_batch"}
    /\ job[t] = "points" =>
         pc[t] \in {"batch_start", "gated", "mapping", "resized", "in_batch", "rollback",
                    "popping", "popped", "return_txs"}

Gates ==
  \A t \in Thread :
    /\ pc[t] \in {"gated", "mapping"} <=> gate = t
    /\ gate = t => ~write /\ ~batch
    /\ pc[t] = "mapping" => \A u \in Thread : pc[u] # "reading"

Reads == \A t \in rtxn : pc[t] \in {"begun", "reading", "reading_blocks", "validating"}

Writes ==
  /\ batch => write
  /\ (write /\ ~batch) => \E t \in Thread : chainLock = t /\ pc[t] \in {"adding", "popping"}
  /\ \A t \in Thread :
       /\ (pc[t] \in {"adding", "popping"} /\ ~batch) => write /\ writer = t
       /\ pc[t] \in {"in_batch", "rollback", "return_txs"} => batch
       /\ (job[t] = "points" /\ pc[t] \in {"popping", "popped"}) => batch

\* TypeOK but for the count, which is a number as it is exact, and the heights.
Types ==
  /\ job \in [Thread -> Jobs] /\ pc \in [Thread -> Labels]
  /\ poolLock \in Thread \cup {NoThread} /\ chainLock \in Thread \cup {NoThread}
  /\ gate \in Thread \cup {NoThread} /\ writer \in Thread \cup {NoThread}
  /\ rtxn \subseteq Thread
  /\ write \in BOOLEAN /\ batch \in BOOLEAN /\ updating \in BOOLEAN

IInv == Types /\ Locks /\ Places /\ Gates /\ Reads /\ Writes /\ CountExact

----------------------------------------------------------------------------
\* The number of counted reads is a number, zero when there is none and only then.
LEMMA CountedType ==
  /\ IsFiniteSet(Counted) /\ Cardinality(Counted) \in Nat
  /\ Cardinality(Counted) = 0 <=> Counted = {}
<1>1. IsFiniteSet(Counted)
  BY ThreadAssumption, FS_Subset DEF Counted
<1> QED BY <1>1, FS_CardinalityType, FS_EmptySet

\* The steps of a read preserve the invariant.
LEMMA ReadStep ==
  ASSUME IInv, NEW t \in Thread, Read(t)
  PROVE  IInv'
<1> USE ThreadAssumption DEF IInv, Types, Goto, Start, Idle, Runs
<1>1. CASE ReadBegin(t)
  <2>1. (Types /\ Locks /\ Places)'
    BY <1>1 DEF ReadBegin, OwnsWrite, Jobs, Labels, Locks, Locked, Places
  <2>2. (Gates /\ Reads /\ Writes)'
    BY <1>1 DEF ReadBegin, OwnsWrite, Gates, Reads, Writes, Locks, Locked, Places
  <2>3. Counted' = Counted
    BY <1>1 DEF ReadBegin, OwnsWrite, Counted, Places
  <2>4. CountExact'
    BY <1>1, <2>3 DEF ReadBegin, OwnsWrite, CountExact
  <2> QED BY <2>1, <2>2, <2>4
<1>2. CASE ReadCount(t)
  <2>1. (Types /\ Locks /\ Places)'
    BY <1>2 DEF ReadCount, Jobs, Labels, Locks, Locked, Places
  <2>2. (Gates /\ Reads /\ Writes)'
    BY <1>2 DEF ReadCount, Gates, Reads, Writes, Locks, Locked, Places
  <2>3. Counted' = Counted \cup {t} /\ t \notin Counted
    BY <1>2 DEF ReadCount, Counted
  <2>4. Cardinality(Counted') = Cardinality(Counted) + 1
    BY Zenon, <2>3, CountedType, FS_AddElement
  <2>5. CountExact'
    BY <1>2, <2>4, CountedType DEF ReadCount, CountExact
  <2> QED BY <2>1, <2>2, <2>5
<1>3. CASE ReadEnd(t)
  <2>1. (Types /\ Locks /\ Places)'
    BY <1>3 DEF ReadEnd, Jobs, Labels, Locks, Locked, Places
  <2>2. (Gates /\ Reads /\ Writes)'
    BY <1>3 DEF ReadEnd, Gates, Reads, Writes, Locks, Locked, Places
  <2>3. CASE pc[t] = "reading"
    <3>1. Counted' = Counted \ {t} /\ t \in Counted
      BY <1>3, <2>3 DEF ReadEnd, Counted
    <3>2. Cardinality(Counted') = Cardinality(Counted) - 1
      BY Zenon, <3>1, CountedType, FS_RemoveElement
    <3>3. CountExact'
      BY <1>3, <2>3, <3>2, CountedType DEF ReadEnd, CountExact
    <3> QED BY <2>1, <2>2, <3>3
  <2>4. CASE pc[t] # "reading"
    <3>1. CountExact'
      BY Zenon, <1>3, <2>4 DEF ReadEnd, CountExact, Counted
    <3> QED BY <2>1, <2>2, <3>1
  <2> QED BY <2>3, <2>4, <1>3 DEF ReadEnd
<1>4. CASE HistoryBegin(t)
  <2>1. (Types /\ Locks /\ Places)'
    BY <1>4 DEF HistoryBegin, ReadTxnStart, OwnsWrite, Jobs, Labels, Locks, Locked, Places
  <2>2. (Gates /\ Reads /\ Writes)'
    BY <1>4 DEF HistoryBegin, ReadTxnStart, OwnsWrite, Gates, Reads, Writes, Locks, Locked, Places
  <2>3. Counted' = Counted
    BY <1>4 DEF HistoryBegin, ReadTxnStart, OwnsWrite, Counted, Places
  <2>4. CountExact'
    BY <1>4, <2>3 DEF HistoryBegin, ReadTxnStart, OwnsWrite, CountExact
  <2> QED BY <2>1, <2>2, <2>4
<1>5. CASE HistoryEnd(t)
  <2>1. (Types /\ Locks /\ Places)'
    BY <1>5 DEF HistoryEnd, ReadTxnStop, Jobs, Labels, Locks, Locked, Places
  <2>2. (Gates /\ Reads /\ Writes)'
    BY <1>5 DEF HistoryEnd, ReadTxnStop, Gates, Reads, Writes, Locks, Locked, Places
  <2>3. Counted' = Counted
    BY <1>5 DEF HistoryEnd, ReadTxnStop, Counted, Places
  <2>4. CountExact'
    BY <1>5, <2>3 DEF HistoryEnd, ReadTxnStop, CountExact
  <2> QED BY <2>1, <2>2, <2>4
<1> QED BY <1>1, <1>2, <1>3, <1>4, <1>5 DEF Read

\* The steps of do_resize preserve the invariant.
LEMMA ResizeStep ==
  ASSUME IInv, NEW t \in Thread, Resize(t)
  PROVE  IInv'
<1> USE ThreadAssumption DEF IInv, Types, Goto, Start, Idle, Runs
<1>1. CASE PreventNewTxns(t)
  <2>1. (Types /\ Locks /\ Places)'
    BY <1>1 DEF PreventNewTxns, txns, AboutToWrite, Jobs, Labels, Locks, Locked, Places
  <2>2. (Gates /\ Reads /\ Writes)'
    BY <1>1 DEF PreventNewTxns, txns, AboutToWrite, Gates, Reads, Writes, Locks, Locked, Places
  <2>3. Counted' = Counted
    BY <1>1 DEF PreventNewTxns, txns, AboutToWrite, Counted, Places
  <2>4. CountExact'
    BY <1>1, <2>3 DEF PreventNewTxns, txns, AboutToWrite, CountExact
  <2> QED BY <2>1, <2>2, <2>4
<1>2. CASE WaitNoActiveTxns(t)
  <2>1. (Types /\ Locks /\ Places)'
    BY <1>2 DEF WaitNoActiveTxns, txns, Jobs, Labels, Locks, Locked, Places
  <2>2. Counted = {}
    BY <1>2, CountedType DEF WaitNoActiveTxns, txns, CountExact
  <2>3. (Gates /\ Reads /\ Writes)'
    BY <1>2, <2>2 DEF WaitNoActiveTxns, txns, Gates, Reads, Writes, Locks, Locked, Counted
  <2>4. Counted' = Counted
    BY <1>2 DEF WaitNoActiveTxns, txns, Counted, Places
  <2>5. CountExact'
    BY <1>2, <2>4 DEF WaitNoActiveTxns, txns, CountExact
  <2> QED BY <2>1, <2>3, <2>5
<1>3. CASE AllowNewTxns(t)
  <2>1. (Types /\ Locks /\ Places)'
    BY <1>3 DEF AllowNewTxns, txns, Jobs, Labels, Locks, Locked, Places
  <2>2. (Gates /\ Reads /\ Writes)'
    BY <1>3 DEF AllowNewTxns, txns, Gates, Reads, Writes, Locks, Locked, Places
  <2>3. Counted' = Counted
    BY <1>3 DEF AllowNewTxns, txns, Counted, Places
  <2>4. CountExact'
    BY Zenon, <1>3, <2>3 DEF AllowNewTxns, txns, CountExact
  <2> QED BY <2>1, <2>2, <2>4
<1> QED BY <1>1, <1>2, <1>3 DEF Resize

\* The steps of create_block_template, add_new_block and pop_block preserve the invariant.
LEMMA AddNewBlockStep ==
  ASSUME IInv, NEW t \in Thread, AddNewBlock(t)
  PROVE  IInv'
<1> USE ThreadAssumption DEF IInv, Types, Goto, Start, Idle, Runs
<1>1. CASE LockPool(t)
  <2>1. (Types /\ Locks /\ Places)'
    BY <1>1 DEF LockPool, txns, Jobs, Labels, Locks, Locked, Places
  <2>2. (Gates /\ Reads /\ Writes)'
    BY <1>1 DEF LockPool, txns, Gates, Reads, Writes, Locks, Locked, Places
  <2>3. Counted' = Counted
    BY <1>1 DEF LockPool, txns, Counted, Places
  <2>4. CountExact'
    BY <1>1, <2>3 DEF LockPool, txns, CountExact
  <2> QED BY <2>1, <2>2, <2>4
<1>2. CASE LockChain(t)
  <2>1. (Types /\ Locks /\ Places)'
    BY <1>2 DEF LockChain, ReadTxnStart, OwnsWrite, Jobs, Labels, Locks, Locked, Places
  <2>2. (Gates /\ Reads /\ Writes)'
    BY <1>2 DEF LockChain, ReadTxnStart, OwnsWrite, Gates, Reads, Writes, Locks, Locked, Places
  <2>3. Counted' = Counted
    BY <1>2 DEF LockChain, ReadTxnStart, OwnsWrite, Counted, Places
  <2>4. CountExact'
    BY <1>2, <2>3 DEF LockChain, ReadTxnStart, OwnsWrite, CountExact
  <2> QED BY <2>1, <2>2, <2>4
<1>3. CASE Refused(t)
  <2>1. (Types /\ Locks /\ Places)'
    BY <1>3 DEF Refused, ReadTxnStop, Release, Jobs, Labels, Locks, Locked, Places
  <2>2. (Gates /\ Reads /\ Writes)'
    BY <1>3 DEF Refused, ReadTxnStop, Release, Gates, Reads, Writes, Locks, Locked, Places
  <2>3. Counted' = Counted
    BY <1>3 DEF Refused, ReadTxnStop, Release, Counted, Places
  <2>4. CountExact'
    BY <1>3, <2>3 DEF Refused, ReadTxnStop, Release, CountExact
  <2> QED BY <2>1, <2>2, <2>4
<1>4. CASE Validated(t)
  <2>1. (Types /\ Locks /\ Places)'
    BY <1>4 DEF Validated, ReadTxnStop, Jobs, Labels, Locks, Locked, Places
  <2>2. (Gates /\ Reads /\ Writes)'
    BY <1>4 DEF Validated, ReadTxnStop, Gates, Reads, Writes, Locks, Locked, Places
  <2>3. Counted' = Counted
    BY <1>4 DEF Validated, ReadTxnStop, Counted, Places
  <2>4. CountExact'
    BY <1>4, <2>3 DEF Validated, ReadTxnStop, CountExact
  <2> QED BY <2>1, <2>2, <2>4
<1>5. CASE AddBegin(t)
  <2>1. (Types /\ Locks /\ Places)'
    <3>1. write' \in BOOLEAN
      BY Zenon, <1>5 DEF AddBegin, WriteTxnStart
    <3>2. Types'
      BY <1>5, <3>1 DEF AddBegin, WriteTxnStart, Jobs, Labels
    <3>3. (Locks /\ Places)'
      BY <1>5 DEF AddBegin, WriteTxnStart, Locks, Locked, Places
    <3> QED BY <3>2, <3>3
  <2>2. (Gates /\ Reads /\ Writes)'
    BY <1>5 DEF AddBegin, WriteTxnStart, Gates, Reads, Writes, Locks, Locked, Places
  <2>3. Counted' = Counted
    BY <1>5 DEF AddBegin, WriteTxnStart, Counted
  <2>4. CountExact'
    BY <1>5, <2>3, CountedType DEF AddBegin, WriteTxnStart, CountExact, Writes
  <2> QED BY <2>1, <2>2, <2>4
<1>6. CASE AddCommit(t)
  <2>1. (Types /\ Locks /\ Places)'
    <3>1. write' \in BOOLEAN /\ rtxn' \subseteq Thread
      BY Zenon, <1>6 DEF AddCommit, WriteTxnStop, OwnsWrite, ReadTxnStop
    <3>2. Types'
      BY <1>6, <3>1 DEF AddCommit, WriteTxnStop, OwnsWrite, ReadTxnStop, Jobs, Labels
    <3>3. (Locks /\ Places)'
      BY <1>6 DEF AddCommit, WriteTxnStop, OwnsWrite, ReadTxnStop, Locks, Locked, Places
    <3> QED BY <3>2, <3>3
  <2>2. (Gates /\ Reads /\ Writes)'
    BY <1>6 DEF AddCommit, WriteTxnStop, OwnsWrite, ReadTxnStop, Gates, Reads, Writes, Locks, Locked, Places
  <2>3. Counted' = Counted
    BY <1>6 DEF AddCommit, WriteTxnStop, OwnsWrite, ReadTxnStop, Counted
  <2>4. CountExact'
    BY <1>6, <2>3, CountedType DEF AddCommit, WriteTxnStop, OwnsWrite, ReadTxnStop, CountExact, Writes
  <2> QED BY <2>1, <2>2, <2>4
<1>7. CASE AddDone(t)
  <2>1. (Types /\ Locks /\ Places)'
    BY <1>7 DEF AddDone, txns, Release, Jobs, Labels, Locks, Locked, Places
  <2>2. (Gates /\ Reads /\ Writes)'
    BY <1>7 DEF AddDone, txns, Release, Gates, Reads, Writes, Locks, Locked, Places
  <2>3. Counted' = Counted
    BY <1>7 DEF AddDone, txns, Release, Counted, Places
  <2>4. CountExact'
    BY <1>7, <2>3 DEF AddDone, txns, Release, CountExact
  <2> QED BY <2>1, <2>2, <2>4
<1>8. CASE AddAbort(t)
  <2>1. (Types /\ Locks /\ Places)'
    <3>1. write' \in BOOLEAN /\ rtxn' \subseteq Thread
      BY Zenon, <1>8 DEF AddAbort, Release, WriteTxnStop, OwnsWrite, ReadTxnStop
    <3>2. Types'
      BY <1>8, <3>1 DEF AddAbort, Release, WriteTxnStop, OwnsWrite, ReadTxnStop, Jobs, Labels
    <3>3. (Locks /\ Places)'
      BY <1>8 DEF AddAbort, Release, WriteTxnStop, OwnsWrite, ReadTxnStop, Locks, Locked, Places
    <3> QED BY <3>2, <3>3
  <2>2. (Gates /\ Reads /\ Writes)'
    BY <1>8 DEF AddAbort, Release, WriteTxnStop, OwnsWrite, ReadTxnStop, Gates, Reads, Writes, Locks, Locked, Places
  <2>3. Counted' = Counted
    BY <1>8 DEF AddAbort, Release, WriteTxnStop, OwnsWrite, ReadTxnStop, Counted
  <2>4. CountExact'
    BY <1>8, <2>3, CountedType DEF AddAbort, Release, WriteTxnStop, OwnsWrite, ReadTxnStop, CountExact, Writes
  <2> QED BY <2>1, <2>2, <2>4
<1>9. CASE PopBegin(t)
  <2>1. (Types /\ Locks /\ Places)'
    <3>1. write' \in BOOLEAN
      BY Zenon, <1>9 DEF PopBegin, WriteTxnStart
    <3>2. Types'
      BY <1>9, <3>1 DEF PopBegin, WriteTxnStart, Jobs, Labels
    <3>3. (Locks /\ Places)'
      BY <1>9 DEF PopBegin, WriteTxnStart, Locks, Locked, Places
    <3> QED BY <3>2, <3>3
  <2>2. (Gates /\ Reads /\ Writes)'
    BY <1>9 DEF PopBegin, WriteTxnStart, Gates, Reads, Writes, Locks, Locked, Places
  <2>3. Counted' = Counted
    BY <1>9 DEF PopBegin, WriteTxnStart, Counted
  <2>4. CountExact'
    BY <1>9, <2>3, CountedType DEF PopBegin, WriteTxnStart, CountExact, Writes
  <2> QED BY <2>1, <2>2, <2>4
<1>10. CASE PopCommit(t)
  <2>1. (Types /\ Locks /\ Places)'
    <3>1. write' \in BOOLEAN /\ rtxn' \subseteq Thread
      BY Zenon, <1>10 DEF PopCommit, WriteTxnStop, OwnsWrite, ReadTxnStop
    <3>2. Types'
      BY <1>10, <3>1 DEF PopCommit, WriteTxnStop, OwnsWrite, ReadTxnStop, Jobs, Labels
    <3>3. (Locks /\ Places)'
      BY <1>10 DEF PopCommit, WriteTxnStop, OwnsWrite, ReadTxnStop, Locks, Locked, Places
    <3> QED BY <3>2, <3>3
  <2>2. (Gates /\ Reads /\ Writes)'
    BY <1>10 DEF PopCommit, WriteTxnStop, OwnsWrite, ReadTxnStop, Gates, Reads, Writes, Locks, Locked, Places
  <2>3. Counted' = Counted
    BY <1>10 DEF PopCommit, WriteTxnStop, OwnsWrite, ReadTxnStop, Counted
  <2>4. CountExact'
    BY <1>10, <2>3, CountedType DEF PopCommit, WriteTxnStop, OwnsWrite, ReadTxnStop, CountExact, Writes
  <2> QED BY <2>1, <2>2, <2>4
<1>11. CASE PopDone(t)
  <2>1. (Types /\ Locks /\ Places)'
    BY <1>11 DEF PopDone, txns, Jobs, Labels, Locks, Locked, Places
  <2>2. (Gates /\ Reads /\ Writes)'
    <3>1. Gates'
      BY <1>11 DEF PopDone, txns, Gates, Locks, Locked, Places
    <3>2. Reads'
      BY <1>11 DEF PopDone, txns, Reads
    <3>3. Writes'
      <4>1. pc' = [pc EXCEPT ![t] = pc'[t]] /\ pc'[t] \in {"checked", "rollback", "return_txs"}
        BY <1>11 DEF PopDone
      <4>2. pc'[t] # "checked" => batch
        <5>1. job[t] # "switch" => job[t] = "points"
          BY <1>11 DEF PopDone, Jobs, Places
        <5> QED BY <1>11, <5>1 DEF PopDone, Writes
      <4> QED BY <1>11, <4>1, <4>2 DEF PopDone, txns, Writes, Locks, Locked
    <3> QED BY <3>1, <3>2, <3>3
  <2>3. Counted' = Counted
    BY <1>11 DEF PopDone, txns, Counted, Places
  <2>4. CountExact'
    BY <1>11, <2>3 DEF PopDone, txns, CountExact
  <2> QED BY <2>1, <2>2, <2>4
<1>12. CASE ReturnTxs(t)
  <2>1. (Types /\ Locks /\ Places)'
    BY <1>12 DEF ReturnTxs, txns, Jobs, Labels, Locks, Locked, Places
  <2>2. (Gates /\ Reads /\ Writes)'
    BY <1>12 DEF ReturnTxs, txns, Gates, Reads, Writes, Locks, Locked, Places
  <2>3. Counted' = Counted
    BY <1>12 DEF ReturnTxs, txns, Counted, Places
  <2>4. CountExact'
    BY <1>12, <2>3 DEF ReturnTxs, txns, CountExact
  <2> QED BY <2>1, <2>2, <2>4
<1> QED BY <1>1, <1>2, <1>3, <1>4, <1>5, <1>6, <1>7, <1>8, <1>9, <1>10, <1>11, <1>12
    DEF AddNewBlock

\* The steps of the operations that run in a batch preserve the invariant.
LEMMA BatchesStep ==
  ASSUME IInv, NEW t \in Thread, Batches(t)
  PROVE  IInv'
<1> USE ThreadAssumption DEF IInv, Types, Goto, Start, Idle, Runs
<1>1. CASE UpdateCheckpoints(t)
  <2>1. (Types /\ Locks /\ Places)'
    BY <1>1 DEF UpdateCheckpoints, txns, Jobs, Labels, Locks, Locked, Places
  <2>2. (Gates /\ Reads /\ Writes)'
    BY <1>1 DEF UpdateCheckpoints, txns, Gates, Reads, Writes, Locks, Locked, Places
  <2>3. Counted' = Counted
    BY <1>1 DEF UpdateCheckpoints, txns, Counted, Places
  <2>4. CountExact'
    BY <1>1, <2>3 DEF UpdateCheckpoints, txns, CountExact
  <2> QED BY <2>1, <2>2, <2>4
<1>2. CASE ReorganizeForks(t)
  <2>1. (Types /\ Locks /\ Places)'
    BY <1>2 DEF ReorganizeForks, txns, Jobs, Labels, Locks, Locked, Places
  <2>2. (Gates /\ Reads /\ Writes)'
    BY <1>2 DEF ReorganizeForks, txns, Gates, Reads, Writes, Locks, Locked, Places
  <2>3. Counted' = Counted
    BY <1>2 DEF ReorganizeForks, txns, Counted, Places
  <2>4. CountExact'
    BY <1>2, <2>3 DEF ReorganizeForks, txns, CountExact
  <2> QED BY <2>1, <2>2, <2>4
<1>3. CASE BatchStart(t)
  <2>1. (Types /\ Locks /\ Places)'
    BY <1>3 DEF BatchStart, Jobs, Labels, Locks, Locked, Places
  <2>2. (Gates /\ Reads /\ Writes)'
    BY <1>3 DEF BatchStart, Gates, Reads, Writes, Locks, Locked, Places
  <2>3. Counted' = Counted
    BY <1>3 DEF BatchStart, Counted
  <2>4. CountExact'
    BY <1>3, <2>3, CountedType DEF BatchStart, CountExact, Writes
  <2> QED BY <2>1, <2>2, <2>4
<1>4. CASE BatchStartThrows(t)
  <2>1. (Types /\ Locks /\ Places)'
    BY <1>4 DEF BatchStartThrows, txns, Release, Jobs, Labels, Locks, Locked, Places
  <2>2. (Gates /\ Reads /\ Writes)'
    BY <1>4 DEF BatchStartThrows, txns, Release, Gates, Reads, Writes, Locks, Locked, Places
  <2>3. Counted' = Counted
    BY <1>4 DEF BatchStartThrows, txns, Release, Counted, Places
  <2>4. CountExact'
    BY <1>4, <2>3 DEF BatchStartThrows, txns, Release, CountExact
  <2> QED BY <2>1, <2>2, <2>4
<1>5. CASE BatchStop(t)
  <2>1. (Types /\ Locks /\ Places)'
    <3>1. updating' \in BOOLEAN /\ poolLock' \in Thread \cup {NoThread}
      BY Zenon, <1>5 DEF BatchStop
    <3>2. Types'
      BY ZenonT(30), <1>5, <3>1 DEF BatchStop, Jobs, Labels
    <3>3. (Locks /\ Places)'
      BY <1>5 DEF BatchStop, Locks, Locked, Places
    <3> QED BY <3>2, <3>3
  <2>2. (Gates /\ Reads /\ Writes)'
    BY <1>5 DEF BatchStop, Gates, Reads, Writes, Locks, Locked, Places
  <2>3. Counted' = Counted
    BY <1>5 DEF BatchStop, Counted
  <2>4. CountExact'
    BY <1>5, <2>3, CountedType DEF BatchStop, CountExact, Writes
  <2> QED BY <2>1, <2>2, <2>4
<1>6. CASE Conflict(t)
  <2>1. (Types /\ Locks /\ Places)'
    BY <1>6 DEF Conflict, txns, Jobs, Labels, Locks, Locked, Places
  <2>2. (Gates /\ Reads /\ Writes)'
    BY <1>6 DEF Conflict, txns, Gates, Reads, Writes, Locks, Locked, Places
  <2>3. Counted' = Counted
    BY <1>6 DEF Conflict, txns, Counted, Places
  <2>4. CountExact'
    BY <1>6, <2>3 DEF Conflict, txns, CountExact
  <2> QED BY <2>1, <2>2, <2>4
<1>7. CASE RolledBack(t)
  <2>1. (Types /\ Locks /\ Places)'
    BY <1>7 DEF RolledBack, txns, Jobs, Labels, Locks, Locked, Places
  <2>2. (Gates /\ Reads /\ Writes)'
    BY <1>7 DEF RolledBack, txns, Gates, Reads, Writes, Locks, Locked, Places
  <2>3. Counted' = Counted
    BY <1>7 DEF RolledBack, txns, Counted, Places
  <2>4. CountExact'
    BY <1>7, <2>3 DEF RolledBack, txns, CountExact
  <2> QED BY <2>1, <2>2, <2>4
<1> QED BY <1>1, <1>2, <1>3, <1>4, <1>5, <1>6, <1>7 DEF Batches

\* The invariant holds of the node that has started.
LEMMA InitInvariant == Init => IInv
<1> SUFFICES ASSUME Init PROVE IInv
  OBVIOUS
<1>1. Counted = {}
  BY DEF Init, Counted
<1>2. CountExact
  BY SMTT(30), <1>1, FS_EmptySet DEF Init, CountExact
<1> QED BY Zenon, <1>2, ThreadAssumption
    DEF Init, IInv, Types, Jobs, Labels, Locks, Locked, Places, Gates, Reads, Writes

\* IInv is inductive.
THEOREM Invariant == Spec => []IInv
<1>1. IInv /\ [Next]_vars => IInv'
  <2> SUFFICES ASSUME IInv, [Next]_vars PROVE IInv'
    OBVIOUS
  <2>1. CASE Next
    BY <2>1, ReadStep, ResizeStep, AddNewBlockStep, BatchesStep DEF Next
  <2>2. CASE UNCHANGED vars
    BY <2>2 DEF vars, txns, IInv, Types, Locks, Places, Gates, Reads, Writes, CountExact,
                Counted
  <2> QED BY <2>1, <2>2
<1> QED BY <1>1, InitInvariant, PTL DEF Spec

\* num_active_txns is the number of counted reads and write transactions, with any
\* number of threads.
THEOREM CountCorrect == Spec => []CountExact
<1>1. IInv => CountExact
  BY DEF IInv
<1> QED BY <1>1, Invariant, PTL

\* While do_resize changes the map, no thread reads or writes through it, with any
\* number of threads.
THEOREM MapChangeSafe == Spec => []MapChangeExcludes
<1>1. IInv => MapChangeExcludes
  <2> SUFFICES ASSUME IInv, NEW t \in Thread, pc[t] = "mapping"
               PROVE  gate = t /\ Counted = {} /\ ~write /\ \A u \in rtxn : pc[u] = "begun"
    BY DEF MapChangeExcludes
  <2>1. gate = t /\ Counted = {} /\ ~write
    BY DEF IInv, Gates, Counted
  <2>2. ASSUME NEW u \in rtxn PROVE pc[u] = "begun"
    BY <2>2, <2>1 DEF IInv, Types, Reads, Locks, Locked, Counted
  <2> QED BY <2>1, <2>2
<1> QED BY <1>1, Invariant, PTL

\* do_resize never finds a write transaction.
THEOREM ResizeSafe == Spec => []ResizeNeverThrows
<1>1. IInv => ResizeNeverThrows
  BY DEF IInv, Types, Gates, ResizeNeverThrows
<1> QED BY <1>1, Invariant, PTL

----------------------------------------------------------------------------
(***************************************************************************)
(* The heights: what the node counts and what the database holds.  Their   *)
(* invariant rests on that of the locks and transactions.                  *)
(***************************************************************************)
HeightTypes ==
  height \in Nat /\ committed \in Nat /\ point \in Nat /\ target \in Nat /\ resizes \in Nat

\* Outside a batch the database differs from m_height only between the commit of a
\* block and the change of m_height.
Stored ==
  ~batch =>
    /\ (\A t \in Thread : pc[t] \notin {"added", "popped"}) => committed = height
    /\ \A t \in Thread : /\ pc[t] = "added" => committed = height + 1
                         /\ pc[t] = "popped" => committed = height - 1

\* A pop has a block to pop, and a rollback never passes its height.
Above ==
  \A t \in Thread :
    /\ pc[t] \in {"popping", "popped"} => height > 0 /\ (job[t] = "points" => height > target)
    /\ pc[t] \in {"rollback", "return_txs"} => target <= height

HInv == HeightTypes /\ Stored /\ Above

----------------------------------------------------------------------------
\* A rollback height is a number, also when pt.first - 2 wraps around.
LEMMA RollbackHeightType ==
  ASSUME NEW c \in Conflicts
  PROVE  c \in Nat /\ RollbackHeight(c) \in Nat
<1>1. c \in Nat /\ c - 2 \in Int /\ WordSize \in Nat /\ WordSize > 0
  BY HeightAssumption
<1> QED BY <1>1 DEF RollbackHeight

\* The steps of a read preserve the invariant of the heights.
LEMMA ReadHeights ==
  ASSUME IInv, HInv, NEW t \in Thread, Read(t)
  PROVE  HInv'
<1> USE ThreadAssumption
        DEF IInv, HInv, HeightTypes, Stored, Above, Types, Locks, Locked, Places, Writes,
            Goto, Start, Idle, Runs
<1>1. CASE ReadBegin(t)
  BY <1>1 DEF ReadBegin, OwnsWrite, heights
<1>2. CASE ReadCount(t)
  BY <1>2 DEF ReadCount, heights
<1>3. CASE ReadEnd(t)
  BY <1>3 DEF ReadEnd, heights
<1>4. CASE HistoryBegin(t)
  BY <1>4 DEF HistoryBegin, heights, OwnsWrite
<1>5. CASE HistoryEnd(t)
  BY <1>5 DEF HistoryEnd, heights
<1> QED BY <1>1, <1>2, <1>3, <1>4, <1>5, Zenon DEF Read

\* The steps of do_resize preserve the invariant of the heights.
LEMMA ResizeHeights ==
  ASSUME IInv, HInv, NEW t \in Thread, Resize(t)
  PROVE  HInv'
<1> USE ThreadAssumption
        DEF IInv, HInv, HeightTypes, Stored, Above, Types, Locks, Locked, Places, Writes,
            Goto, Start, Idle, Runs
<1>1. CASE PreventNewTxns(t)
  BY <1>1 DEF PreventNewTxns, txns, heights, AboutToWrite
<1>2. CASE WaitNoActiveTxns(t)
  BY <1>2 DEF WaitNoActiveTxns, txns, heights
<1>3. CASE AllowNewTxns(t)
  BY SMTT(30), <1>3 DEF AllowNewTxns, txns, heights
<1> QED BY <1>1, <1>2, <1>3, Zenon DEF Resize

\* The steps of create_block_template, add_new_block and pop_block preserve the invariant of the heights.
LEMMA AddNewBlockHeights ==
  ASSUME IInv, HInv, NEW t \in Thread, AddNewBlock(t)
  PROVE  HInv'
<1> USE ThreadAssumption
        DEF IInv, HInv, HeightTypes, Stored, Above, Types, Locks, Locked, Places, Writes,
            Goto, Start, Idle, Runs
<1>1. CASE LockPool(t)
  BY <1>1 DEF LockPool, txns, heights
<1>2. CASE LockChain(t)
  BY <1>2 DEF LockChain, heights, OwnsWrite
<1>3. CASE Refused(t)
  BY <1>3 DEF Refused, heights, Release
<1>4. CASE Validated(t)
  BY <1>4 DEF Validated, heights
<1>5. CASE AddBegin(t)
  BY <1>5 DEF AddBegin, heights
<1>6. CASE AddCommit(t)
  BY <1>6 DEF AddCommit, Commit, OwnsWrite
<1>7. CASE AddDone(t)
  BY <1>7 DEF AddDone, txns, Release
<1>8. CASE AddAbort(t)
  BY <1>8 DEF AddAbort, heights, Release, OwnsWrite
<1>9. CASE PopBegin(t)
  BY <1>9 DEF PopBegin, heights
<1>10. CASE PopCommit(t)
  BY <1>10 DEF PopCommit, Commit, OwnsWrite
<1>11. CASE PopDone(t)
  <2>1. pc' = [pc EXCEPT ![t] = pc'[t]] /\ pc'[t] \in {"checked", "rollback", "return_txs"}
    BY <1>11 DEF PopDone
  <2>2. pc'[t] # "checked" => job[t] = "points"
    BY <1>11 DEF PopDone, Jobs
  <2>3. (HeightTypes /\ Stored)'
    BY <1>11, <2>1 DEF PopDone, txns
  <2>4. Above'
    BY <1>11, <2>1, <2>2 DEF PopDone, txns
  <2> QED BY Zenon, <2>3, <2>4
<1>12. CASE ReturnTxs(t)
  BY <1>12 DEF ReturnTxs, txns, heights
<1> QED BY <1>1, <1>2, <1>3, <1>4, <1>5, <1>6, <1>7, <1>8, <1>9, <1>10, <1>11, <1>12, Zenon
    DEF AddNewBlock

\* The steps of the operations that run in a batch preserve the invariant of the heights.
LEMMA BatchesHeights ==
  ASSUME IInv, HInv, NEW t \in Thread, Batches(t)
  PROVE  HInv'
<1> USE ThreadAssumption
        DEF IInv, HInv, HeightTypes, Stored, Above, Types, Locks, Locked, Places, Writes,
            Goto, Start, Idle, Runs
<1>1. CASE UpdateCheckpoints(t)
  BY <1>1 DEF UpdateCheckpoints, txns
<1>2. CASE ReorganizeForks(t)
  BY <1>2 DEF ReorganizeForks, txns, heights
<1>3. CASE BatchStart(t)
  BY <1>3 DEF BatchStart, heights
<1>4. CASE BatchStartThrows(t)
  BY <1>4 DEF BatchStartThrows, txns, heights, Release
<1>5. CASE BatchStop(t)
  BY <1>5 DEF BatchStop, PointsLeft
<1>6. CASE Conflict(t)
  <2>1. PICK c \in Conflicts :
          /\ point' = c /\ target' = RollbackHeight(c)
          /\ Goto(t, IF RollbackHeight(c) > height THEN "in_batch" ELSE "rollback")
    BY Zenon, <1>6 DEF Conflict, PointsLeft
  <2>2. HeightTypes'
    BY <1>6, <2>1, RollbackHeightType DEF Conflict, txns, PointsLeft
  <2>3. Stored'
    BY <1>6 DEF Conflict, txns, PointsLeft
  <2>4. Above'
    BY <1>6, <2>1, RollbackHeightType DEF Conflict, txns, PointsLeft
  <2> QED BY Zenon, <2>2, <2>3, <2>4
<1>7. CASE RolledBack(t)
  BY <1>7 DEF RolledBack, txns, heights
<1> QED BY <1>1, <1>2, <1>3, <1>4, <1>5, <1>6, <1>7, Zenon DEF Batches

\* HInv is inductive relative to the invariant of the locks and transactions.
THEOREM HeightInvariant == Spec => []HInv
<1>1. Init => HInv
  BY DEF Init, HInv, HeightTypes, Stored, Above
<1>2. IInv /\ HInv /\ [Next]_vars => HInv'
  <2> SUFFICES ASSUME IInv, HInv, [Next]_vars PROVE HInv'
    OBVIOUS
  <2>1. CASE Next
    BY <2>1, ReadHeights, ResizeHeights, AddNewBlockHeights, BatchesHeights DEF Next
  <2>2. CASE UNCHANGED vars
    BY <2>2 DEF vars, txns, heights, HInv, HeightTypes, Stored, Above
  <2> QED BY <2>1, <2>2
<1> QED BY <1>1, <1>2, Invariant, PTL DEF Spec

\* The variables of the locks and transactions keep their types; in particular the
\* count of transactions and the heights never fall below zero.
THEOREM TypeCorrect == Spec => []TypeOK
<1>1. IInv /\ HInv => TypeOK
  <2> SUFFICES ASSUME IInv, HInv PROVE TypeOK
    OBVIOUS
  <2>1. active \in Nat
    BY CountedType DEF IInv, CountExact
  <2> QED BY <2>1 DEF IInv, Types, HInv, HeightTypes, TypeOK
<1> QED BY <1>1, Invariant, HeightInvariant, PTL

\* Between operations and with no batch left behind, the database holds every block
\* the node counts.
THEOREM DurabilityCorrect == Spec => []Durable
<1>1. IInv /\ HInv => Durable
  BY ThreadAssumption DEF IInv, Locks, Locked, HInv, Stored, Durable
<1> QED BY <1>1, Invariant, HeightInvariant, PTL

\* The block below m_height is in the database, except in a batch and while a block is
\* popped.
THEOREM HeightCorrect == Spec => []HeightReadable
<1>1. IInv /\ HInv => HeightReadable
  BY ThreadAssumption
     DEF IInv, Types, Locks, Locked, HInv, HeightTypes, Stored, HeightReadable
<1> QED BY <1>1, Invariant, HeightInvariant, PTL

----------------------------------------------------------------------------
(***************************************************************************)
(* A batch that outlives its operation.                                    *)
(***************************************************************************)
\* The thread that works in the batch.
InBatch(t) ==
  \/ pc[t] = "in_batch"
  \/ job[t] = "points" /\ pc[t] \in {"rollback", "return_txs", "popping", "popped"}

\* reorganize_from_chain_height threw in a rollback: the update of the checkpoints
\* has ended, and m_checkpoints_updating lets no other begin.
LeftBehind ==
  /\ updating /\ \A t \in Thread : job[t] # "points"
  /\ point \in Conflicts /\ target = RollbackHeight(point) /\ target > 0

\* Every batch has a thread that works in it or is left behind; a rollback is that of
\* the last checkpoint.
BInv ==
  /\ batch => LeftBehind \/ \E t \in Thread : InBatch(t)
  /\ \A t \in Thread : job[t] = "points" =>
       /\ updating
       /\ pc[t] \in {"rollback", "return_txs", "popping", "popped"} =>
            point \in Conflicts /\ target = RollbackHeight(point)

\* A step of a thread that keeps the batch, the checkpoint and the thread's part in
\* both preserves the invariant of the batch.
LEMMA BatchKept ==
  ASSUME IInv, BInv, NEW t \in Thread,
         UNCHANGED <<batch, updating, point, target>>,
         \A u \in Thread \ {t} : job'[u] = job[u] /\ pc'[u] = pc[u],
         InBatch(t) => InBatch(t)',
         job'[t] = "points" => job[t] = "points",
         job'[t] = "points" /\ pc'[t] \in {"rollback", "return_txs", "popping", "popped"}
           => pc[t] \in {"rollback", "return_txs", "popping", "popped"}
  PROVE  BInv'
<1>1. ASSUME NEW u \in Thread, InBatch(u) PROVE InBatch(u)'
  BY <1>1, Zenon DEF InBatch
<1>2. LeftBehind => LeftBehind'
  BY Zenon DEF LeftBehind, RollbackHeight
<1>3. batch' => LeftBehind' \/ \E u \in Thread : InBatch(u)'
  BY <1>1, <1>2, Zenon DEF BInv
<1>4. ASSUME NEW u \in Thread, job'[u] = "points"
      PROVE  /\ job[u] = "points"
             /\ pc'[u] \in {"rollback", "return_txs", "popping", "popped"} =>
                  pc[u] \in {"rollback", "return_txs", "popping", "popped"}
  BY <1>4, Zenon
<1> QED BY <1>3, <1>4, Zenon DEF BInv, RollbackHeight

\* The thread that updates the checkpoints has the chain's lock.
LEMMA OneUpdate ==
  ASSUME IInv
  PROVE  /\ \A t \in Thread : job[t] = "points" \/ InBatch(t) => chainLock = t
         /\ chainLock = NoThread => \A t \in Thread : job[t] # "points" /\ ~InBatch(t)
<1>1. ASSUME NEW t \in Thread, job[t] = "points" \/ InBatch(t) PROVE chainLock = t
  BY <1>1 DEF IInv, Places, Locks, Locked, InBatch
<1> QED BY <1>1, ThreadAssumption

\* A step of a read, of do_resize or of add_new_block is no part of a batch.
LEMMA OtherBatch ==
  ASSUME IInv, BInv, NEW t \in Thread, Read(t) \/ Resize(t) \/ AddNewBlock(t)
  PROVE  BInv'
<1> USE DEF Goto, Start, Idle, Runs, Release, InBatch, txns, heights
<1>1. job \in [Thread -> Jobs] /\ pc \in [Thread -> Labels]
  BY DEF IInv, Types
<1>2. CASE Read(t)
  <2>1. UNCHANGED <<batch, updating, point, target>>
    BY <1>2, Zenon DEF Read, ReadBegin, ReadCount, ReadEnd, HistoryBegin, HistoryEnd
  <2>2. \A u \in Thread \ {t} : job'[u] = job[u] /\ pc'[u] = pc[u]
    BY <1>1, <1>2 DEF Read, ReadBegin, ReadCount, ReadEnd, HistoryBegin, HistoryEnd
  <2>3. job[t] \in {"none", "fee", "history"} /\ job'[t] \in {"none", "fee", "history"} /\ ~InBatch(t)
    BY <1>1, <1>2, Zenon DEF Read, ReadBegin, ReadCount, ReadEnd, HistoryBegin, HistoryEnd, IInv, Places
  <2> QED BY <2>1, <2>2, <2>3, BatchKept, Zenon
<1>3. CASE Resize(t)
  <2>1. UNCHANGED <<batch, updating, point, target, job>>
    BY <1>3 DEF Resize, PreventNewTxns, WaitNoActiveTxns, AllowNewTxns
  <2>2. /\ \A u \in Thread \ {t} : pc'[u] = pc[u]
        /\ pc[t] \in {"checked", "batch_start", "gated", "mapping"}
        /\ pc'[t] \in {"gated", "mapping", "resized"}
    BY <1>1, <1>3 DEF Resize, PreventNewTxns, AboutToWrite, WaitNoActiveTxns, AllowNewTxns
  <2> QED BY <2>1, <2>2, BatchKept, Zenon
<1>4. CASE AddNewBlock(t)
  <2>1. UNCHANGED <<batch, updating, point, target>>
    BY <1>4, Zenon DEF AddNewBlock, LockPool, LockChain, Refused, Validated, AddBegin, AddCommit,
         AddDone, AddAbort, PopBegin, PopCommit, PopDone, ReturnTxs
  <2>2. \A u \in Thread \ {t} : job'[u] = job[u] /\ pc'[u] = pc[u]
    BY <1>1, <1>4, Zenon DEF AddNewBlock, LockPool, LockChain, Refused, Validated, AddBegin, AddCommit,
         AddDone, AddAbort, PopBegin, PopCommit, PopDone, ReturnTxs
  <2>3. CASE LockPool(t) \/ LockChain(t) \/ Refused(t) \/ Validated(t)
             \/ AddBegin(t) \/ AddCommit(t) \/ AddDone(t) \/ AddAbort(t)
    <3>1. /\ job[t] # "points" /\ job'[t] # "points"
          /\ pc[t] \in {"idle", "pool_locked", "validating", "checked", "resized", "adding", "added"}
      BY <1>1, <2>3 DEF LockPool, LockChain, Refused, Validated, AddBegin, AddCommit,
         AddDone, AddAbort, IInv, Places
    <3> QED BY <2>1, <2>2, <3>1, BatchKept, Zenon
  <2>4. CASE PopBegin(t) \/ PopCommit(t) \/ PopDone(t) \/ ReturnTxs(t)
    <3>1. /\ job'[t] = job[t] /\ pc[t] # "in_batch"
          /\ job[t] = "points" => {pc[t], pc'[t]} \subseteq {"rollback", "return_txs", "popping", "popped"}
      BY <1>1, <2>4 DEF PopBegin, PopCommit, PopDone, ReturnTxs
    <3>2. InBatch(t) => InBatch(t)'
      BY <3>1, Zenon
    <3> QED BY <2>1, <2>2, <3>1, <3>2, BatchKept, Zenon
  <2> QED BY <1>4, <2>3, <2>4 DEF AddNewBlock
<1> QED BY <1>2, <1>3, <1>4

\* The steps of the operations that run in a batch.
LEMMA OwnBatch ==
  ASSUME IInv, BInv, HInv, NEW t \in Thread, Batches(t)
  PROVE  BInv'
<1> USE DEF Goto, Start, Idle, Runs, Release, txns, heights
<1>1. job \in [Thread -> Jobs] /\ pc \in [Thread -> Labels] /\ target \in Nat
  BY DEF IInv, Types, HInv, HeightTypes
<1>2. CASE UpdateCheckpoints(t)
  <2>1. ~batch /\ \A u \in Thread : job[u] # "points"
    BY <1>2, OneUpdate, Zenon DEF UpdateCheckpoints, BInv, LeftBehind
  <2>2. batch' = batch /\ updating'
    BY <1>2 DEF UpdateCheckpoints
  <2>3. pc'[t] = "batch_start" /\ \A u \in Thread \ {t} : job'[u] = job[u]
    BY <1>1, <1>2 DEF UpdateCheckpoints
  <2> QED BY <2>1, <2>2, <2>3 DEF BInv
<1>3. CASE ReorganizeForks(t) \/ BatchStartThrows(t)
  <2>1. /\ UNCHANGED <<batch, updating, point, target>>
        /\ \A u \in Thread \ {t} : job'[u] = job[u] /\ pc'[u] = pc[u]
    BY <1>1, <1>3 DEF ReorganizeForks, BatchStartThrows
  <2>2. job[t] = "switch" /\ job'[t] # "points" /\ pc[t] # "in_batch"
    BY <1>1, <1>3 DEF ReorganizeForks, BatchStartThrows
  <2> QED BY <2>1, <2>2, BatchKept, Zenon DEF InBatch
<1>4. CASE BatchStart(t)
  <2>1. UNCHANGED <<updating, point, target, job>>
    BY <1>4 DEF BatchStart
  <2>2. pc'[t] = "in_batch" /\ \A u \in Thread \ {t} : pc'[u] = pc[u]
    BY <1>1, <1>4 DEF BatchStart
  <2> QED BY <2>1, <2>2 DEF BInv, InBatch, RollbackHeight
<1>5. CASE BatchStop(t)
  <2>1. ~batch' /\ UNCHANGED <<point, target>>
    BY <1>5 DEF BatchStop
  <2>2. job'[t] = "none" /\ \A u \in Thread \ {t} : job'[u] = job[u] /\ pc'[u] = pc[u]
    BY <1>1, <1>5 DEF BatchStop
  <2>3. ASSUME NEW u \in Thread \ {t}, job[u] = "points" PROVE updating' = updating
    <3>1. job[t] # "points"
      BY <2>3, OneUpdate
    <3> QED BY <1>5, <3>1 DEF BatchStop
  <2> QED BY <2>1, <2>2, <2>3 DEF BInv, RollbackHeight
<1>6. CASE Conflict(t)
  <2>1. PICK c \in Conflicts : point' = c /\ target' = RollbackHeight(c)
    BY <1>6, Zenon DEF Conflict, PointsLeft
  <2>2. UNCHANGED <<batch, updating, job>> /\ job[t] = "points" /\ pc'[t] \in {"in_batch", "rollback"}
    BY <1>1, <1>6 DEF Conflict
  <2>3. \A u \in Thread : job'[u] = "points" => u = t
    BY <2>2, OneUpdate
  <2>4. InBatch(t)'
    BY <2>2 DEF InBatch
  <2> QED BY <2>1, <2>2, <2>3, <2>4, Zenon DEF BInv, RollbackHeight
<1>7. CASE RolledBack(t)
  <2>1. /\ UNCHANGED <<batch, updating, point, target>> /\ job[t] = "points" /\ pc[t] = "rollback"
        /\ updating /\ point \in Conflicts /\ target = RollbackHeight(point)
    BY <1>7 DEF RolledBack, BInv
  <2>2. CASE target = 0
    <3>1. job' = job /\ pc'[t] = "in_batch" /\ \A u \in Thread \ {t} : pc'[u] = pc[u]
      BY <1>1, <1>7, <2>2 DEF RolledBack
    <3> QED BY <2>1, <3>1, BatchKept, Zenon DEF InBatch
  <2>3. CASE target # 0
    <3>1. job'[t] = "none" /\ \A u \in Thread \ {t} : job'[u] = job[u]
      BY <1>1, <1>7, <2>3 DEF RolledBack
    <3>2. \A u \in Thread : job'[u] # "points"
      BY <2>1, <3>1, OneUpdate
    <3>3. target' > 0
      BY <1>1, <2>1, <2>3
    <3> QED BY <2>1, <3>2, <3>3, Zenon DEF BInv, LeftBehind, RollbackHeight
  <2> QED BY <2>2, <2>3
<1> QED BY <1>2, <1>3, <1>4, <1>5, <1>6, <1>7 DEF Batches

\* BInv is inductive relative to the invariants of the locks and of the heights.
THEOREM BatchInvariant == Spec => []BInv
<1>1. Init => BInv
  BY DEF Init, BInv
<1>2. IInv /\ HInv /\ BInv /\ [Next]_vars => BInv'
  <2> SUFFICES ASSUME IInv, HInv, BInv, [Next]_vars PROVE BInv'
    OBVIOUS
  <2>1. CASE Next
    BY <2>1, OtherBatch, OwnBatch, Zenon DEF Next
  <2>2. CASE UNCHANGED vars
    BY <2>2, Zenon DEF vars, txns, heights, BInv, InBatch, LeftBehind, RollbackHeight
  <2> QED BY <2>1, <2>2
<1> QED BY <1>1, <1>2, Invariant, HeightInvariant, PTL DEF Spec

\* A batch that no thread works in was left by a rollback to a height above zero, whose
\* reorganize_from_chain_height threw; no update of the checkpoints runs after it.
THEOREM BatchesEnd == Spec => []BatchLeftByRollback
<1>1. IInv /\ BInv => BatchLeftByRollback
  <2> SUFFICES ASSUME IInv, BInv, batch, chainLock = NoThread PROVE LeftBehind
    BY DEF BatchLeftByRollback, LeftBehind
  <2> QED BY OneUpdate, Zenon DEF BInv
<1> QED BY <1>1, Invariant, BatchInvariant, PTL
=============================================================================

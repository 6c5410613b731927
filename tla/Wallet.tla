------------------------------- MODULE Wallet -------------------------------
(***************************************************************************)
(* The wallet's copy of the chain: wallet2::refresh pulls blocks from the  *)
(* daemon while it processes the ones pulled before, follows the daemon    *)
(* through reorganizations (detach_blockchain), and keeps the transfers,   *)
(* the confirmed, unconfirmed and incoming transactions in step with it.   *)
(* commit_tx sends a transaction, update_pool_state finds out what became  *)
(* of it, and the wallet file holds what a restart goes back to.           *)
(*                                                                         *)
(* The daemon is the environment: its chain grows and reorganizes and its  *)
(* pool gains and loses transactions between any two requests.             *)
(***************************************************************************)
EXTENDS Naturals, FiniteSets, Sequences, SequencesExt, TLC

CONSTANTS
  Tx,           \* transactions
  Out,          \* outputs that belong to the wallet
  Own,          \* the transactions this wallet can make
  Spends,       \* Spends[t]: the wallet's outputs that t spends
  Pays,         \* Pays[t]: the sequence of the outputs t makes for the wallet
  Account,      \* Account[o]: the account whose address received o
  Dense,        \* blocks listed one by one in the history (10 in the code)
  MaxCount,     \* blocks in one answer (COMMAND_RPC_GET_BLOCKS_FAST_MAX_COUNT)
  MaxHashes,    \* ids in one answer (BLOCKS_IDS_SYNCHRONIZING_DEFAULT_COUNT)
  Prepended,    \* blocks put before the history for the next pull (3)
  MaxTries,     \* retries in one refresh (3 in the code)
  Bounds        \* bounds to choose from: blocks, the genesis block included,
                \* of them mined off the main chain's tip, transactions,
                \* failing requests, dropped transactions, stops, restarts
                \* and saves; the transactions of the blocks that the daemon
                \* and the wallet start with; m_refresh_from_block_height

ASSUME TxAssumption ==
  /\ Own \subseteq Tx
  /\ \A t \in Tx : Spends[t] \subseteq Out /\ Range(Pays[t]) \subseteq Out
  /\ \A t, u \in Tx : t # u => Range(Pays[t]) \cap Range(Pays[u]) = {}

VARIABLES
  made,         \* every block mined: [prev, txs]; a block's id is its index
  chain,        \* the daemon's main chain, ids from the genesis block on
  pool,         \* the daemon's transaction pool
  issued,       \* transactions that were ever made
  wal,          \* the wallet in memory
  file,         \* the wallet file
  pc,           \* where refresh is
  job,          \* the local variables of refresh
  run,          \* m_run
  left          \* what is left of the bounds

daemon == <<made, chain, pool, issued>>
vars == <<made, chain, pool, issued, wal, file, pc, job, run, left>>

-----------------------------------------------------------------------------
(* The daemon *)

\* The blocks from the genesis block to block b.
PathTo[b \in Nat] == IF b = 1 THEN <<1>> ELSE Append(PathTo[made[b].prev], b)

TxsOf(c) == UNION {Range(made[c[i]].txs) : i \in DOMAIN c}

SpentIn(c) == UNION {Spends[t] : t \in TxsOf(c)}

PaidIn(c) == UNION {Range(Pays[t]) : t \in TxsOf(c)}

\* What a block on top of c, or the pool above c, accepts.
Valid(t, c) ==
  /\ t \notin TxsOf(c)
  /\ Spends[t] \subseteq PaidIn(c)
  /\ Spends[t] \cap SpentIn(c) = {}

Possible(t) == t \in issued \/ Cardinality(issued) < left.txs

\* A block is mined on block p, by anybody. The longest chain is the main chain; the
\* transactions a switch takes off it go back to the pool.
MineBlock(p, txs) ==
  LET b == Len(made) + 1
      c == Append(PathTo[p], b)
  IN  /\ left.blocks > Len(made)
      /\ p # Last(chain) => left.forks > 0
      /\ left' = [left EXCEPT !.forks = IF p = Last(chain) THEN @ ELSE @ - 1]
      /\ \A t \in Range(txs) : Valid(t, PathTo[p]) /\ Possible(t)
      /\ issued' = issued \cup Range(txs)
      /\ made' = Append(made, [prev |-> p, txs |-> txs])
      /\ IF Len(c) > Len(chain)
           THEN /\ chain' = c
                /\ pool' = (pool \cup TxsOf(chain))
                             \ (TxsOf(PathTo[p]) \cup Range(txs))
           ELSE UNCHANGED <<chain, pool>>
      /\ UNCHANGED <<wal, file, pc, job, run>>

Mine ==
  \E p \in DOMAIN made, txs \in {<<>>} \cup {<<t>> : t \in Tx} :
    MineBlock(p, txs)

AcceptedByPool(t) ==
  /\ Possible(t)
  /\ t \notin pool
  /\ Valid(t, chain)
  /\ \A u \in pool : Spends[t] \cap Spends[u] = {}

\* A transaction of somebody else, or of another wallet with the same keys.
Arrive(t) ==
  /\ AcceptedByPool(t)
  /\ pool' = pool \cup {t}
  /\ issued' = issued \cup {t}
  /\ UNCHANGED <<made, chain, wal, file, pc, job, run, left>>

\* The daemon gives up on a transaction of its pool.
Drop(t) ==
  /\ left.drops > 0
  /\ t \in pool
  /\ pool' = pool \ {t}
  /\ left' = [left EXCEPT !.drops = @ - 1]
  /\ UNCHANGED <<made, chain, issued, wal, file, pc, job, run>>

\* Blockchain::find_blockchain_supplement: from the first id of the history
\* that is on the main chain, at most count blocks.
Supplement(history, count) ==
  LET known == SelectSeq(history, LAMBDA b : b \in Range(chain))
      start == CHOOSE i \in DOMAIN chain : chain[i] = Head(known)
  IN  [start |-> start - 1,
       blocks |-> SubSeq(chain, start,
                         IF start + count - 1 < Len(chain)
                           THEN start + count - 1 ELSE Len(chain))]

-----------------------------------------------------------------------------
(* The wallet's state *)

NewWallet ==
  [bc        |-> <<1>>,             \* m_blockchain
   transfers |-> <<>>,              \* m_transfers
   unconf    |-> <<>>,              \* m_unconfirmed_txs: their m_state
   conf      |-> <<>>,              \* m_confirmed_txs: their m_block_height
   payments  |-> {},                \* m_payments
   upayments |-> {},                \* m_unconfirmed_payments
   scanned   |-> {},                \* m_scanned_pool_txs
   alive     |-> TRUE]              \* the process has not called exit

Idle == [history |-> <<>>, start |-> 0, blocks |-> <<>>, next |-> <<>>,
         tries |-> 0, fetched |-> FALSE, txids |-> {}]

\* The element of a singleton. The({F(x) : x \in {v}}) is F(v), with v
\* evaluated once.
The(S) == CHOOSE v \in S : TRUE

Without(f, S) == [x \in DOMAIN f \ S |-> f[x]]

\* set_spent and set_unspent
SetSpent(transfers, S, h) ==
  [i \in DOMAIN transfers |->
     IF transfers[i].out \in S
       THEN [transfers[i] EXCEPT !.spent = TRUE, !.at = h] ELSE transfers[i]]

SetUnspent(transfers, S) ==
  [i \in DOMAIN transfers |->
     IF transfers[i].out \in S
       THEN [transfers[i] EXCEPT !.spent = FALSE, !.at = 0] ELSE transfers[i]]

Outs(transfers) == {transfers[i].out : i \in DOMAIN transfers}

\* Mutant: only the last block is listed.
BackOffsetsTip(size) == {1} \cap 1..(size - 1)

\* The ids get_short_chain_history lists: Dense + 1 blocks back one by one,
\* then at distances that double, and the genesis block last.
BackOffsets(size) ==
  {o \in 1..(size - 1) :
     o <= Dense + 1 \/ \E k \in 2..size : o = Dense + 2^k - 1}

ShortChainHistory(bc) ==
  LET offsets == SetToSortSeq(BackOffsets(Len(bc)), LAMBDA a, b : a < b)
  IN  Append([i \in DOMAIN offsets |-> bc[Len(bc) + 1 - offsets[i]]], bc[1])

-----------------------------------------------------------------------------
(* Transactions and blocks *)

\* The wallet's outputs that t is seen to spend, and those it brings.
SeenSpent(w, t) == Spends[t] \cap (Outs(w.transfers) \cup Range(Pays[t]))

Fresh(w, t) == SelectSeq(Pays[t], LAMBDA o : o \notin Outs(w.transfers))

\* What is left of the received outputs once the change is taken out: the
\* ones on another account than the one that spends.
Incoming(w, t) ==
  {o \in Range(Pays[t]) :
     \A i \in SeenSpent(w, t) : Account[o] # Account[i]}

\* Everything received is compared with what is left without the change;
\* process_new_transaction calls exit when the two differ.
AmountsDiffer(w, t) ==
  /\ Incoming(w, t) # {}
  /\ \E o \in Range(Fresh(w, t)) : o \notin Incoming(w, t)

\* process_unconfirmed
ProcessUnconfirmed(w, t, h) ==
  IF t \in DOMAIN w.unconf
    THEN [w EXCEPT !.unconf = Without(@, {t}),
                   !.conf = @ @@ (t :> h)]
    ELSE w

\* process_new_transaction for a transaction of a block at height h
ProcessNewTransaction(w, t, h) ==
  LET u == ProcessUnconfirmed(w, t, h)
      new == [i \in DOMAIN Fresh(w, t) |->
                [out |-> Fresh(w, t)[i], height |-> h,
                 spent |-> FALSE, at |-> 0]]
  IN  [u EXCEPT
        !.transfers = SetSpent(@ \o new, Spends[t], h),
        !.conf = IF SeenSpent(w, t) # {} THEN (t :> h) @@ @ ELSE @,
        !.payments = IF Incoming(w, t) # {} THEN @ \cup {[tx |-> t, height |-> h]}
                                            ELSE @,
        !.alive = @ /\ ~AmountsDiffer(w, t)]

\* process_new_transaction for a transaction of the daemon's pool
ProcessPoolTransaction(w, t) ==
  [w EXCEPT !.upayments = IF Incoming(w, t) # {} THEN @ \cup {t} ELSE @,
            !.scanned = @ \cup {t},
            !.alive = @ /\ ~AmountsDiffer(w, t)]

\* process_new_blockchain_entry: blocks before the height to refresh from are
\* only counted.
ProcessNewBlockchainEntry(w, b, h) ==
  LET step(v, t) == The({ProcessNewTransaction(x, t, h) : x \in {v}})
  IN  [FoldLeft(step, w, IF h >= left.from THEN made[b].txs ELSE <<>>)
         EXCEPT !.bc = Append(@, b)]

\* Mutant: nothing becomes unspent.
SpentFromNone(w, h) == {}

\* detach_blockchain(h): the outputs spent from height h on,
SpentFrom(w, h) ==
  {t.out : t \in {x \in Range(w.transfers) : x.spent /\ x.at >= h}}

\* Mutant: transfers received at height h stay.
KeptTransfersOneMore(w, h) ==
  Len(SelectSeq(w.transfers, LAMBDA t : t.height <= h))

\* the number of transfers before the first one received from height h on,
KeptTransfers(w, h) ==
  LET i == SelectInSeq(w.transfers, LAMBDA t : t.height >= h)
  IN  IF i = 0 THEN Len(w.transfers) ELSE i - 1

\* and the transactions confirmed before it.
ConfirmedBefore(w, h) == Without(w.conf, {t \in DOMAIN w.conf : w.conf[t] >= h})

\* Mutant: the blocks stay.
DetachBlockchainBlocksKept(w, h) ==
  [w EXCEPT
     !.transfers = SubSeq(SetUnspent(@, SpentFrom(w, h)), 1, KeptTransfers(w, h)),
     !.payments = {x \in @ : x.height < h},
     !.conf = ConfirmedBefore(w, h)]

DetachBlockchain(w, h) ==
  [w EXCEPT
     !.transfers = SubSeq(SetUnspent(@, SpentFrom(w, h)), 1, KeptTransfers(w, h)),
     !.bc = SubSeq(@, 1, h),
     !.payments = {x \in @ : x.height < h},
     !.conf = ConfirmedBefore(w, h)]

\* One block of process_blocks; a is [w, index, added, threw].
ProcessBlock(a, b, start) ==
  LET same == a.index < Len(a.w.bc) /\ a.w.bc[a.index + 1] = b
      split == a.index < Len(a.w.bc) /\ ~same
  IN  IF a.threw \/ ~a.w.alive \/ (split /\ a.index = start)
        THEN [a EXCEPT !.threw = TRUE]
        ELSE [w |-> IF same THEN a.w
                    ELSE The({ProcessNewBlockchainEntry(x, b, a.index) :
                                x \in {IF split THEN DetachBlockchain(a.w, a.index)
                                                ELSE a.w}}),
              index |-> a.index + 1,
              added |-> a.added \/ ~(same \/ split),
              threw |-> FALSE]

\* process_blocks
ProcessBlocks(w, start, blocks) ==
  LET step(a, b) == The({ProcessBlock(x, b, start) : x \in {a}})
  IN  FoldLeft(step, [w |-> w, index |-> start, added |-> FALSE, threw |-> FALSE],
               blocks)

-----------------------------------------------------------------------------
(* refresh *)

CallFails ==
  /\ left.errors > 0
  /\ left' = [left EXCEPT !.errors = @ - 1]

\* refresh begins with the hashes of the blocks it does not have to look at.
BeginFast ==
  /\ pc = "idle"
  /\ left.from > Len(wal.bc)
  /\ run' = TRUE
  /\ job' = [Idle EXCEPT !.history = ShortChainHistory(wal.bc),
                         !.start = Len(wal.bc)]
  /\ pc' = "fast"
  /\ UNCHANGED <<daemon, wal, file, left>>

\* The three oldest ids but the genesis block make room for the last three.
MoveHistory(history, hashes) ==
  LET n == Len(history)
      kept == IF n > 3 THEN SubSeq(history, 1, n - 4) \o <<history[n]>>
                       ELSE history
  IN  SubSeq(hashes, Len(hashes) - 2, Len(hashes)) \o kept

\* fast_refresh: one answer of pull_hashes goes after m_blockchain, up to the
\* height to refresh from, unless it splits from it.
Splits(a) ==
  \E i \in DOMAIN a.blocks :
    /\ a.start + i <= Len(wal.bc)
    /\ a.blocks[i] # wal.bc[a.start + i]

Skipped(a) ==
  IF Splits(a) THEN wal.bc
  ELSE wal.bc \o SubSeq(a.blocks, Len(wal.bc) + 1 - a.start,
                        IF a.start + Len(a.blocks) < left.from
                          THEN Len(a.blocks) ELSE left.from - a.start)

PullHashes ==
  LET a == Supplement(job.history, MaxHashes)
  IN  IF Len(a.blocks) < 3
        THEN /\ pc' = "first"
             /\ UNCHANGED <<wal, job>>
        ELSE /\ wal' = [wal EXCEPT !.bc = Skipped(a)]
             /\ job' = IF Len(a.blocks) + job.start < left.from
                         THEN [job EXCEPT !.history = MoveHistory(@, a.blocks),
                                          !.start = a.start + Len(a.blocks)]
                         ELSE [job EXCEPT !.start = a.start + Len(a.blocks)]
             /\ pc' = IF Splits(a) \/ a.start + Len(a.blocks) >= left.from
                       THEN "first" ELSE "fast"

FastRefresh ==
  /\ pc = "fast"
  /\ \/ /\ run
        /\ PullHashes
        /\ UNCHANGED left
     \/ /\ run
        /\ CallFails
        /\ pc' = "idle"
        /\ job' = Idle
        /\ UNCHANGED wal
     \/ /\ ~run
        /\ pc' = "first"
        /\ UNCHANGED <<wal, job, left>>
  /\ UNCHANGED <<daemon, file, run>>

\* get_short_chain_history and the first pull_blocks, after fast_refresh or
\* without it
FirstPull ==
  /\ \/ /\ pc = "first"
        /\ UNCHANGED run
     \/ /\ pc = "idle"
        /\ left.from <= Len(wal.bc)
        /\ run' = TRUE
  /\ LET history == ShortChainHistory(wal.bc)
         answer == Supplement(history, MaxCount)
     IN  \/ /\ job' = [Idle EXCEPT !.history = history,
                                   !.start = answer.start,
                                   !.blocks = answer.blocks]
            /\ pc' = "loop"
            /\ UNCHANGED left
         \/ /\ CallFails
            /\ job' = Idle
            /\ pc' = "idle"
  /\ UNCHANGED <<daemon, wal, file>>

LeaveLoop ==
  /\ pc = "loop"
  /\ ~run
  /\ pc' = "pool"
  /\ UNCHANGED <<daemon, wal, file, job, run, left>>

\* The last blocks pulled come first in the history of the next pull.
LastPulled(blocks) ==
  SubSeq(blocks, IF Len(blocks) > Prepended THEN Len(blocks) + 1 - Prepended
                                            ELSE 1, Len(blocks))

\* pull_next_blocks, in a thread beside process_blocks. That thread only
\* reads the blocks being processed, so the pull can be taken first.
PullNextBlocks ==
  /\ pc = "loop"
  /\ run
  /\ pc' = "process"
  /\ LET history == LastPulled(job.blocks) \o job.history
     IN  \/ /\ job' = [job EXCEPT !.history = history,
                                  !.next = <<Supplement(history, MaxCount)>>]
            /\ UNCHANGED left
         \/ /\ CallFails
            /\ job' = [job EXCEPT !.history = history, !.next = <<>>]
  /\ UNCHANGED <<daemon, wal, file, run>>

\* The handler of the exceptions of the loop: try again, or give up.
Retry(j) ==
  IF j.tries < MaxTries
    THEN /\ pc' = "loop"
         /\ job' = [j EXCEPT !.tries = @ + 1, !.next = <<>>]
    ELSE /\ pc' = "idle"
         /\ job' = Idle

\* process_blocks, the join of the pulling thread and what follows it.
Process ==
  /\ pc = "process"
  /\ \E r \in {ProcessBlocks(wal, job.start, job.blocks)} :
      LET j == [job EXCEPT !.fetched = @ \/ r.added] IN
      /\ wal' = r.w
      /\ IF ~r.w.alive
           THEN pc' = "exited" /\ job' = Idle
         ELSE IF r.threw
           THEN Retry(j)
         ELSE IF ~r.added
           THEN pc' = "pool" /\ job' = [Idle EXCEPT !.fetched = j.fetched]
         ELSE IF job.next = <<>>
           THEN Retry([j EXCEPT !.start = 0, !.blocks = <<>>])
         ELSE /\ pc' = "loop"
              /\ job' = [j EXCEPT !.start = job.next[1].start,
                                  !.blocks = job.next[1].blocks,
                                  !.next = <<>>]
  /\ UNCHANGED <<daemon, file, run, left>>

-----------------------------------------------------------------------------
(* update_pool_state *)

\* A payment to another account of the same wallet
PaysOtherAccount(t) ==
  \E o \in Range(Pays[t]) : \A i \in Spends[t] : Account[o] # Account[i]

\* Mutant: no transaction is ever given up.
PoolCheckedNever(state, found) == state

\* m_state of a transaction after one look at the pool
PoolChecked(state, found) ==
  IF found THEN state
  ELSE IF state = "pending" THEN "pending_not_in_pool"
  ELSE "failed"

\* The transactions that are given up now have their inputs back.
CheckPool(w) ==
  LET unconf == [t \in DOMAIN w.unconf |-> PoolChecked(w.unconf[t], t \in pool)]
      failing == {t \in DOMAIN w.unconf :
                    w.unconf[t] # "failed" /\ unconf[t] = "failed"}
  IN  [w EXCEPT !.unconf = unconf,
                !.transfers = SetUnspent(@, UNION {Spends[t] : t \in failing}),
                !.upayments = @ \cap pool]

NewInPool(w) ==
  {t \in pool \ (w.scanned \cup w.upayments) :
     t \in DOMAIN w.unconf => PaysOtherAccount(t)}

UpdatePoolState ==
  /\ pc = "pool"
  /\ \/ /\ wal' = CheckPool(wal)
        /\ job' = [job EXCEPT !.txids = NewInPool(wal')]
        /\ pc' = IF NewInPool(wal') = {} THEN "store" ELSE "fetch"
        /\ UNCHANGED left
     \/ /\ CallFails
        /\ pc' = "store"
        /\ UNCHANGED <<wal, job>>
  /\ UNCHANGED <<daemon, file, run>>

\* The second request of update_pool_state. An answer that lacks one of the
\* transactions is not used.
FetchPoolTxs ==
  /\ pc = "fetch"
  /\ \/ /\ wal' = IF job.txids \subseteq pool \cup TxsOf(chain)
                    THEN FoldLeft(ProcessPoolTransaction, wal,
                                  SetToSeq(job.txids \cap pool))
                    ELSE wal
        /\ UNCHANGED left
     \/ /\ CallFails
        /\ UNCHANGED wal
  /\ pc' = IF wal'.alive THEN "store" ELSE "exited"
  /\ UNCHANGED <<daemon, file, job, run>>

\* store, when the refresh added blocks
Store ==
  /\ pc = "store"
  /\ file' = IF job.fetched THEN wal ELSE file
  /\ pc' = "idle"
  /\ job' = Idle
  /\ UNCHANGED <<daemon, wal, run, left>>

Refresh ==
  \/ BeginFast \/ FastRefresh \/ FirstPull \/ LeaveLoop \/ PullNextBlocks \/ Process
  \/ UpdatePoolState \/ FetchPoolTxs \/ Store

-----------------------------------------------------------------------------
(* The user *)

\* select_available_outputs, then commit_tx: the daemon takes the transaction,
\* and the wallet records it unless the answer is lost.
Commit(t) ==
  /\ pc = "idle"
  /\ t \notin issued
  /\ \A o \in Spends[t] :
       \E i \in DOMAIN wal.transfers :
         wal.transfers[i].out = o /\ ~wal.transfers[i].spent
  /\ AcceptedByPool(t)
  /\ pool' = pool \cup {t}
  /\ issued' = issued \cup {t}
  /\ \/ /\ wal' = [wal EXCEPT !.unconf = (t :> "pending") @@ @,
                              !.transfers = SetSpent(@, Spends[t], 0)]
        /\ UNCHANGED left
     \/ /\ CallFails
        /\ UNCHANGED wal
  /\ UNCHANGED <<made, chain, file, pc, job, run>>

\* The save command
Save ==
  /\ pc = "idle"
  /\ left.saves > 0
  /\ file' = wal
  /\ left' = [left EXCEPT !.saves = @ - 1]
  /\ UNCHANGED <<daemon, wal, pc, job, run>>

\* wallet2::stop, from the thread that wants the wallet for itself
Stop ==
  /\ pc \notin {"idle", "exited"}
  /\ left.stops > 0
  /\ run' = FALSE
  /\ left' = [left EXCEPT !.stops = @ - 1]
  /\ UNCHANGED <<daemon, wal, file, pc, job>>

RestartAllowed ==
  /\ left.restarts > 0
  /\ left' = [left EXCEPT !.restarts = @ - 1]

\* The process ends, at any point, and load reads the file back.
Restart ==
  /\ RestartAllowed
  /\ wal' = file
  /\ pc' = "idle"
  /\ job' = Idle
  /\ run' = TRUE
  /\ UNCHANGED <<daemon, file>>

\* clear and rescan_blockchain; the refresh that follows is Refresh.
Rescan ==
  /\ pc = "idle"
  /\ RestartAllowed
  /\ wal' = [NewWallet EXCEPT !.upayments = wal.upayments,
                              !.scanned = wal.scanned]
  /\ UNCHANGED <<daemon, file, pc, job, run>>

-----------------------------------------------------------------------------
\* A wallet that has followed the daemon this far
Init ==
  /\ left \in Bounds
  /\ made = <<[prev |-> 0, txs |-> <<>>]>> \o
              [i \in DOMAIN left.start |-> [prev |-> i, txs |-> left.start[i]]]
  /\ chain = PathTo[Len(made)]
  /\ pool = {}
  /\ issued = TxsOf(chain)
  /\ wal = ProcessBlocks(NewWallet, 0, chain).w
  /\ file = wal
  /\ pc = "idle"
  /\ job = Idle
  /\ run = TRUE

Next ==
  \/ Mine
  \/ \E t \in Tx : Arrive(t) \/ Drop(t)
  \/ Refresh
  \/ \E t \in Own : Commit(t)
  \/ Save \/ Stop \/ Restart \/ Rescan

Spec == Init /\ [][Next]_vars

\* wallet_idle_thread refreshes every 90 seconds.
FairSpec == Spec /\ WF_vars(Refresh)

-----------------------------------------------------------------------------
(* Properties *)

\* The types of the wallet's state.
TypeOK ==
  /\ wal.bc \in Seq(DOMAIN made)
  /\ Range(wal.transfers) \subseteq
       [out : Out, height : 1..Len(made), spent : BOOLEAN, at : 0..Len(made)]
  /\ DOMAIN wal.unconf \subseteq Own
  /\ Range(wal.unconf) \subseteq {"pending", "pending_not_in_pool", "failed"}
  /\ pc \in {"idle", "fast", "first", "loop", "process", "pool", "fetch", "store", "exited"}
  /\ job.tries <= MaxTries

\* The state has its types, and m_blockchain is one chain of blocks, each on top of the one before it,
\* although its blocks come from answers given at different times and the
\* daemon may have reorganized between any two of them (process_blocks splices
\* an answer in at its start height).
ChainLinked ==
  /\ TypeOK
  /\ wal.bc[1] = 1
  /\ \A i \in 2..Len(wal.bc) : made[wal.bc[i]].prev = wal.bc[i - 1]

\* The height at which a transaction of a chain is found
HeightIn(c, t) ==
  (CHOOSE i \in DOMAIN c : t \in Range(made[c[i]].txs)) - 1

\* The transactions of m_blockchain that the wallet looks at, and those of them
\* that spend an output it has seen
Looked == {t \in TxsOf(wal.bc) : HeightIn(wal.bc, t) >= left.from}

Spenders == {t \in Looked : \E u \in Looked : Spends[t] \cap Range(Pays[u]) # {}}

\* The wallet's history is that of m_blockchain. The transfers and the payments are
\* exactly the outputs received in its blocks, each once and at its height; the
\* confirmed transactions are exactly those that spend an output of the wallet, at
\* their heights, and none of them is still listed as unconfirmed:
\* detach_blockchain takes off what a split took off, and nothing before it.
HistoryExact ==
  /\ {<<x.out, x.height>> : x \in Range(wal.transfers)} =
       UNION {{<<o, HeightIn(wal.bc, t)>> : o \in Range(Pays[t])} : t \in Looked}
  /\ Len(wal.transfers) = Cardinality(Outs(wal.transfers))
  /\ wal.payments = {[tx |-> t, height |-> HeightIn(wal.bc, t)] :
                       t \in {u \in Looked \ Spenders : Pays[u] # <<>>}}
  /\ wal.conf = [t \in Spenders |-> HeightIn(wal.bc, t)]
  /\ DOMAIN wal.conf \cap DOMAIN wal.unconf = {}

\* m_spent tells the truth about m_blockchain: an output is marked spent at the
\* height of the block that spends it, or at no height for a transaction still
\* waited for; an output spent in m_blockchain is marked spent, unless
\* update_pool_state gave up a transaction that spends the same output.
SpentExact ==
  \A x \in Range(wal.transfers) :
    LET spenders == {t \in Spenders : x.out \in Spends[t]}
        waiting == {t \in DOMAIN wal.unconf : x.out \in Spends[t]}
    IN  /\ x.spent /\ x.at > 0 => \E t \in spenders : HeightIn(wal.bc, t) = x.at
        /\ x.spent /\ x.at = 0 => \E t \in waiting : wal.unconf[t] # "failed"
        /\ ~x.spent /\ spenders # {} =>
             \E t \in waiting : wal.unconf[t] = "failed"

\* fast_refresh asks with the history it asked with before, and the answer
\* brings m_blockchain no further.
SameAnswerAgain ==
  LET a == Supplement(job.history, MaxHashes)
  IN  /\ pc = "fast"
      /\ Skipped(a) = wal.bc
      /\ a.start + Len(a.blocks) < left.from

\* Once the daemon's chain stays as it is, the wallet gets to it and stays there,
\* whatever splits, failing requests, stops and restarts came before. The one
\* way not to get there is that fast_refresh never ends: the height to refresh
\* from is beyond the daemon's chain, or just beyond the end of an answer.
EventuallySynced == <>[](wal.bc = chain \/ SameAnswerAgain)

\* A transaction the wallet sent does not stay unconfirmed for ever when the
\* daemon no longer has it: it is confirmed or marked failed (update_pool_state),
\* or it is back in the pool.
PendingSettled ==
  []<>(\A t \in DOMAIN wal.unconf : wal.unconf[t] = "failed" \/ t \in pool)

\* A transaction that moves money to another account of the same wallet does not
\* end the wallet process (process_new_transaction, "a payment to yourself at a
\* different subaddress account").
StaysAlive == pc # "exited"
=============================================================================

# A TLA+ model of the CitiCash daemon and wallet

CitiCash is a CryptoNote currency: a C++ daemon that keeps a block chain in an
LMDB database, a pool of unconfirmed transactions in memory, and talks to peers,
miners and wallets. This directory models the parts in which state is shared,
taken back and recovered. The modules are translated from `src/src/`;
`PROJECT.json` maps every definition to the lines it stands for.

## The system

| Part | Source | Module |
|---|---|---|
| Transaction pool | `cryptonote_core/tx_pool.cpp`, `core::handle_incoming_tx` | `TxPool`, `TxPoolProofs`; readiness and templates in `Mining` |
| Main chain, alternative chains, reorganisation | `cryptonote_core/blockchain.cpp` | `Blockchain`, `BlockchainProofs`, `BlockchainLedgerProofs`; what it promises: `Ledger` |
| Hard forks | `cryptonote_core/hardfork.cpp` | `HardFork`, `HardForkProofs` |
| Checkpoints | `cryptonote_core/checkpoints.cpp`, `check_against_checkpoints` | in `Blockchain` and `ChainDb` |
| Database transactions, batches, map size, locks | `blockchain_db/lmdb/db_lmdb.cpp`, `blockchain.cpp` | `ChainDb`, `ChainDbProofs` |
| Miner and block templates | `cryptonote_core/miner.cpp`, `create_block_template` | `Mining`, `MiningProofs` |
| Synchronisation protocol | `cryptonote_protocol/` | `SyncProtocol`, `SyncProofs` |
| Peer-to-peer node, peer lists | `p2p/` | `PeerNode` |
| Wallet | `wallet/wallet2.cpp` | `Wallet` |
| Everything else | see "Not modelled" | |

How the parts interact:

- `core::handle_incoming_tx` brings one transaction at a time
  (`m_incoming_tx_lock`) and hands it to `tx_memory_pool::add_tx`, whose checks
  take and release the pool's and the chain's lock several times.
- `Blockchain::add_new_block` takes the pool's lock, then the chain's, and holds
  both until the block is stored, refused, filed as an alternative, or a whole
  switch to another branch is over. It takes transactions out of the pool and
  returns them when a block is refused or popped.
- Each block that is added or popped is one database transaction, unless a batch
  is open. `HardFork::add` is called for each added block; nothing is called for
  a popped one, the state is rebuilt by `reorganize_from_chain_height` (in a batch
  of its own) at the end of a switch and in the middle of a rollback.
- The database keeps the registered aliases in an in-memory map as well, filled
  at start-up and changed inside the database transactions. When its map is
  nearly full, `do_resize` shuts a gate, waits for the transactions that are open
  and moves the map.
- Connections hand blocks to the core one at a time, pause the miner meanwhile,
  and compare what they know of the peer's chain with the core's.
- A template is made from the chain and then from the pool, under one lock after
  the other; workers mine on copies of it.
- The wallet asks the daemon for blocks, pool and transactions over RPC. Each
  request sees another state of the daemon.
- After a crash the database is what is left. The pool, the peer lists and the
  wallet come from the files written last.

`PER_BLOCK_CHECKPOINT` is 0 (`src/CMakeLists.txt`), so the code for precomputed
block hashes is not part of the build and not modelled.

The modules abstract each other: where one needs another part it has what it can
observe of it. The chain in `TxPool` accepts any body that passes the checks on
its transactions; the pool in `Blockchain` lets any transaction come and go
between operations; `HardFork` and `Blockchain` share the life of a switch;
`Mining` has chain and pool change in whole steps; the core in `SyncProtocol` is
the tip of its chain and the blocks it knows; the daemon in `Wallet` is a chain
and a pool that change between any two requests.

## The modules

Definitions marked "Mutant" are plausible slips in the definition that follows
them. Each breaks the property `PROJECT.json` lists beside it, which shows that
the property depends on that piece of code.

### TxPool

State: `pool` (the containers `m_transactions`, `m_txs_by_fee_and_receive_time`,
`m_spent_key_images`, `m_pending_aliases`, `m_timed_out_transactions`, and the
`kept_by_block` flags), `incoming` (where the incoming thread is in `add_tx`),
`chain` and `aliasCache` (what the pool sees of the database), `locked` (the
block thread keeps both locks after this step), `saved` (the state file), and
`errors`, a history variable with the internal assertions of `add_tx` that have
failed.

Every region of `add_tx` that holds a lock is an action: `HaveTx`,
`HaveTxInChain`, `CheckPolicy` (no lock), `CheckPoolImages`, `CheckPoolAliases`,
`CheckInputs`, `CheckAliasDuplicity` (no lock), `InsertTx`. `Insert` is the end of
`add_tx` with its early returns: an assertion that fails leaves the transaction in
some of the containers. `AddBlock`, `FailBlock` and `PopBlock` are the block
thread; `FailBlock` has one disjunct for each way to refuse a block.
`RemoveStuckTransactions`, `FlushTx`, `CleanRestart` and `Crash` are the rest.
Fees and times are left out: an expiry takes any set of transactions except one
that the incoming thread has looked for in this very call, because lifetimes are
days.

### HardFork

State: the chain's blocks (version and vote), the versions recorded in the
database, and `hf`, the window of votes, the counts and the fork index of the
class. `Add`, `ReorganizeFromChainHeight` and `InitFrom` are the functions of the
class; the actions are the ways in which `Blockchain` calls them: a block is
added, blocks are popped for a switch, connected, the switch finishes, or it is
rolled back, or the daemon restarts (also in the middle of a switch). `ahead` is
a history variable. Popped heights keep their record in the
database, as in the code.

### Blockchain and Ledger

State: `main`, `alt`, `invalid` (`m_alternative_chains`, `m_invalid_blocks`), the
pool as a set, the alias cache, the version in force, and the local variables of a
running switch. Blocks form a tree given as a constant; a block stands for what
its checks depend on. `AddToMain` is `add_new_block` for a block on the tail,
`AddAlternative` for any other one; a switch is the sequence `PopToSplit`,
`BeginConnect`, `Connect`, `BeginPushOld`, `PushOld`, `FinishSwitch`, or, when a
block fails, `Unwind`, `BeginRestore`, `Restore`, `FinishRollback` or `Panic`. The
steps are separate because each block is committed on its own: `Crash` may come
after any of them. No other thread can come between them.

`Ledger` is the abstract specification: a branch of the tree that changes in one
step, by a block on top, to a branch with more work or a checkpoint at its end,
or, in a crash, to whatever branch is left. `ImplementsLedger` says that
`Blockchain` implements it, with the ledger read as the chain between operations
and as the chain the switch began with while one runs. A rollback that restored
anything else than that chain would be a step `Ledger` does not have.

### ChainDb

State: for each thread the operation it runs and its place in it; the pool's
lock, the chain's lock and the gate; the count of active transactions, the open
read transactions, the write transaction with its owner, the batch flag;
`m_height` and the height a crash would leave. Operations: a read without the
chain lock (`check_fee`), a read transaction under it
(`get_short_chain_history`), the pass of `create_block_template` over the pool,
`add_new_block` with resize, validation, write, abort and switch, and
`update_checkpoints` with the batch of `check_against_checkpoints` and its
rollback. LMDB is external: a committed transaction is durable, and a thread
that only holds a renewed read transaction does not touch the map.

### Mining

State: the chain, the pool with the cached results of input checks
(`max_used_block`, `last_failed`), the miner's template, its pause count, its
threads and their lock, and for each thread its place. `TakeTip`, `Fill` and
`SetBlockTemplate` are the three regions of one template; `Loop`,
`ReadTemplateNo`, `HashFails`, `Find` and `AddFound` are a worker; `NetBegin` to
`NetReorganize` the thread that handles blocks; `CallStart` to `Join` are
`miner::start` and `miner::stop`. `OnIdle` is the timer.

### SyncProtocol

State: the core as the handlers see it, the context of each connection, two
FIFO channels per connection, the blocks of a response that are still to be
processed, the failures of each address. One action per handler
(`ProcessPayloadSyncData`, `ResponseChainEntry`, `ResponseGetObjects`,
`NotifyNewBlock`, ...); a response is processed block by block, and handlers of
other connections come in between. Peers answer from their own main chain and
may move to one with more work at any time.

### PeerNode

State: the white and the gray list in the order of `last_seen`, the connections,
pings, blocked addresses, the place of `connections_maker`, the stored file and
which peers are up. Handshakes in both directions, back pings, timed syncs, the
phases of `connections_maker` with its random choice, `store_config` and a crash
are actions. Lists that peers send are constants with clocks ahead and behind.

### Wallet

State: the daemon (`made`, `chain`, `pool`), the wallet in memory (`wal`: its
blocks, transfers, payments, confirmed and unconfirmed transactions, scanned pool
transactions), the wallet file, and the place and the local variables of
`refresh`. `BeginFast`, `FastRefresh`, `FirstPull`, `PullNextBlocks`, `Process`,
`UpdatePoolState`, `FetchPoolTxs` and `Store` are the steps of a refresh between
two requests; `Commit`, `Save`, `Stop`, `Restart` and `Rescan` are the user. The
thread that pulls the next blocks only reads the blocks being processed, so that
its request can be taken first.

## Runs

| Run | Result | What it shows |
|---|---|---|
| `pool_threads` | pass | Interleavings of the incoming thread, the block thread and housekeeping: no phantom key image, at most one spender of an image that is not kept by a block, everything indexed until an assertion fails, no transaction lost, a timed-out transaction only returns with a block |
| `pool_restart` | pass | Clean restarts and crashes, with a transaction over the size limit: the pool that is loaded is consistent |
| `hard_forks` | pass | A fork by height and a fork by vote, through switches, rollbacks and restarts: counts describe the window, and the state and the records at rest are those a replay gives |
| `chain_reorg` | pass | Three branches, shared, conflicting and dependent transactions, an alias, a crash anywhere: the chain is consistent and the best one known, no transaction is lost, every switch ends, and the whole implements `Ledger` |
| `chain_checkpoint` | pass | A checkpoint on the branch with less work, a fork height, and a block that only the database refuses, after which the rollback stops early: the checkpoint stays, a block has one role |
| `sync` | pass | A node and two peers: a synchronizing connection waits for exactly one thing, a connection in the normal state has been downloaded, nobody is blamed for being slow, the node ends up with the most work |
| `storage` | pass | Readers, the block thread, batches, a checkpoint rollback and a resize: the map moves with no transaction open, between operations the database holds every block, a height that is read has its block, the gate opens again |
| `storage_locks` | violation | A rollback to a checkpoint takes the pool's lock under the chain's, a template takes them in the other order |
| `peers` | pass | Handshakes, pings, timed syncs with wrong clocks, blocks, a crash: the lists stay disjoint, bounded and in order, the white list holds reachable peers only, the number of connections is kept and reached again |
| `mining` | pass | Workers, network blocks, reorganisations and overlapping calls of start and stop: pauses balance, a block found on the tip connects, workers get to the tip, stop returns |
| `wallet` | pass | A chain that reorganises between any two requests, failing requests, stops and restarts: `m_blockchain` is one chain, the history and the spent marks are those of its blocks, the wallet gets to the daemon's chain, no own transaction stays pending for ever |
| `wallet_account` | violation | A transaction with change that pays another account of the wallet ends the wallet process |

The two violations are disagreements between the code and one of its own
comments; `findings` in `PROJECT.json` quotes both sides.

### Exceptions that the properties name

Some properties hold except in a case that the code does have. The case is a
conjunct or a history variable of the property, not an omission of the model:

- `AtRestAsReplayed` excepts a switch that connected a block under the fork index
  of the popped chain (`ahead`).
- `BestChain` excepts a rollback that returned early (`panicked`), and blocks that
  were filed as invalid.
- `EventuallyCaughtUp` and `OneRequest` except a connection on which the assertion
  at the end of `request_missing_objects` failed (`stuck`).
- `Durable` and `HeightReadable` except an open batch; `BatchLeftByRollback` says
  when one outlives its operation.
- `MinedVerifies` excepts blocks with two transactions that register one alias,
  and aliases such a block has left in the cache.
- `StopReturns` excepts a `start` between the signal and the lock of the `stop`.
- `SpentExact` excepts outputs of a transaction that was given up.
- `EventuallySynced` excepts a `fast_refresh` that gets the same answer again.
- `Reconnects` is about peers that the random index can reach.

### Bounds

- `TxPool`: three transactions such that two share a key image (the second input
  of one of them), two share an alias and one depends on another; four block
  bodies, one of which only the database refuses; chains up to `MaxHeight` blocks.
  One incoming transaction at a time is the code's own limit. `pool_restart` has
  two transactions, one block and `MaxRestarts` 2: a file is written, and a crash
  finds it out of date.
- `HardFork`: a window of 2 blocks, which slides within `MaxHeight` 6 blocks; a
  fork at height 3 by height alone and one from height 4 on with half of the
  votes; switches that pop up to `MaxPops` 3 blocks, across both fork heights; one
  restart.
- `Blockchain`: nine blocks on three branches of length three that tie, win and
  lose; in `chain_checkpoint` the checkpoint's branch is the lightest. `MaxCrashes`
  2: a crash, a second switch on what it left, and another crash.
- `SyncProtocol`: two peers, branches of four and three blocks, of which the last
  of the shorter one does not verify; four ids in a chain entry, two blocks in a
  request, so that a download takes several rounds; one failure blocks an address;
  `MaxEvents` 2 moves of peers or lost connections. The code sends up to 10000
  ids; the number has to exceed the longest alternative branch that the node
  knows, in the model as in the code.
- `ChainDb`: three threads, enough for a reader, a resize and a block at once;
  four blocks; two resizes; checkpoints that conflict at heights 1 and 3, of which
  the first makes `pt.first - 2` wrap (`WordSize`).
- `PeerNode`: the node itself and three peers, one of which cannot be connected
  to; one outgoing connection, one white and three gray entries: both lists
  overflow or are replaced; two seconds; `MaxEvents` 2.
- `Mining`: four transactions (shared alias, shared image, a dependency), two
  workers, two callers, blocks of two transactions. `Bounds` is a set of
  combinations of blocks, pool changes and calls: each is a state space of its
  own, since all at once would be too large.
- `Wallet`: one payment and two transactions that spend it, one with change;
  histories of which one block is dense, three blocks in an answer, four hashes in
  one, one retry; `Bounds` is a set of combinations, as in `Mining`. Splits are no
  deeper than what a history and an answer can bridge; the code's numbers give
  about a thousand blocks for that.

### Fairness

- `chain_reorg`: weak fairness of the steps of a running switch. The thread holds
  both locks and has nothing to wait for.
- `storage`: weak fairness of threads inside a read or a resize. A thread waiting
  for a lock is not assumed to get it.
- `sync`: every handler that has a message runs, a peer answers, timed syncs come
  every minute and blocked addresses are released after their time.
- `peers`: `connections_maker` runs every second, blocks expire, a ping ends. Each
  index that the random choice can give is drawn again and again (strong fairness
  per index and list).
- `mining`: every thread goes on with what it does; `on_idle` asks for a template
  every few seconds. That a block is found, that blocks come and that calls are
  made is not assumed.
- `wallet`: `refresh` is called again and again (`wallet_idle_thread` in
  `simplewallet.cpp`). No request is assumed to succeed: failures are bounded, as
  every other event is, and a property about the end holds once they are over.

No fairness is assumed of blocks, transactions, restarts or users.

## Proofs

`TxPoolProofs` proves for all transactions, images, aliases, bodies and bounds
that satisfy `TxAssumption` (each transaction names at least one image and none
twice, which `check_tx_semantic` has established before): `TypeCorrect`,
`SortedAlwaysHaveDetails`, `NeverPhantomImages`, `AtMostOneSpenderNotKept`,
`IndexExactUnlessError`, and the action properties `TimedOutReturnsOnlyWithBlock`
and `NoTransactionLost`.

None of the invariants is inductive alone. `remove_transaction_keyimages` returns
at the first image that is not registered, so that "no phantom image" survives a
removal only because the images of a transaction are always registered from the
first input on without a gap: the loop in `add_tx` stops at its first failure.
That is `PrefixRegistered`. `WellFormed` adds that the sorted container and the
kept flags only name transactions of the pool. `Inv` demands `WellFormed` of the
pool and of the state file, since a crash brings the latter back, and, as long as
no harmful assertion failed, `Registered` of both. The action property on
timed-out transactions needs `InFlightNotTimedOut`: what the incoming thread
carries past the check cannot expire before it is inserted.

`ChainDbProofs` proves for any finite set of threads (`ThreadAssumption`)
`CountCorrect`, `MapChangeSafe` and `ResizeSafe`. The invariant `IInv` adds to the
exact count where each lock's holder can be (`Locks`, `Places`), what a shut gate
excludes (`Gates`), which places have a read transaction (`Reads`) and which
thread owns the write transaction (`Writes`). Without `Locks` and `Writes` two
threads could both be about to write. The count is a cardinality: a thread that
begins or ends a counted read adds or removes one element.

On top of it `HInv` gives `TypeCorrect`, `DurabilityCorrect` and `HeightCorrect`
for every bound on the height, every set of conflicting checkpoints within it and
every word size beyond it (`HeightAssumption`). `HInv` says at which places the
height in memory and the one in the database may differ, and by how much
(`Stored`), and that the block being popped is above the rollback's target
(`Above`), which is why no height falls below zero. `BInv` gives `BatchesEnd`
(`BatchLeftByRollback`): a batch is open while a checkpoint update is between its
start and its end, and otherwise only where a rollback to a height above zero left
it; once it is left, no thread is in an update and the target stays.

`DataLemmas` has what several proofs need: induction over the natural numbers and
over an interval with a set in the place of the predicate, that a function defined
by recursion over an interval exists and satisfies its equation, what the
operators on sequences return, and that in a tree given by its paths (`IsTree`) every
block on a path has the path up to it. With it, facts about chains of any length are
proved here and not only checked on short ones.

`BlockchainProofs` begins with the invariant of the chain and facts about the block
tree (every prefix of a path is the path of the block it ends in; two paths agree
up to where they part), and proves for every tree of blocks, every choice of
checkpoints, versions and transactions, and any number of crashes:
`AlwaysConsistent` (`ChainConsistent`), `RolesApart` (`OneRole`) and
`NoTransactionLost` (`SwitchKeepsTxs`). From the same invariant
`BlockchainLedgerProofs` proves `CheckpointsStay` (`CheckpointStays`).
The assumption on the constants (`BlockAssumption`) says that blocks form a tree
in which work grows, with at most one checkpoint at a height. `IInv` says what the
local variables of a running switch have to do with the chain: `Chain` that the
chain is a path of the tree, mines nothing twice, and has all its aliases in the
cache; `Fork` where the old and the new branch leave it; `Progress` how far the step
at hand has come; `Roles` that a block has one place, the branch that is being
connected included; `Checked` that every block of the chain, the alternatives and
the chain the switch began with agrees with the checkpoints, and that no checkpoint is
popped. None of the four properties
is inductive without `Fork` and `Progress`: what a rollback pushes back is a branch
only because it begins where the chain was cut.

`BlockchainLedgerProofs` builds on it. `AlwaysBest` (`BestChain`) needs that no
alternative block has a checkpoint on its path that the chain lacks (`NoneAhead`),
since the chain would have switched to it. `StepsOfLedger` says that every step of
`Blockchain` is a step of `Ledger` or none, except the one in which a rollback gives
up. `Implements` (`ImplementsLedger`) is the refinement itself, and `CacheExact`
(`AliasCacheExact`) the exact alias cache. These have hypotheses on the tree, as
named in the theorems:

- `NoClash`: no block holds two transactions that spend one image or register one
  alias. Without it the database throws in the middle of a block and leaves its
  first alias in the cache (see below), and a rollback can fail.
- `OwnVersion` (for `RollbackRestores` and `Implements`): every block is of the
  version that is in force at its height. A block of another version can be
  accepted while a switch runs under the fork index of the popped chain, and a later
  rollback refuses it.

`RollbackRestores` shows that with both the step `Panic` never happens; its argument
is `Calm`: what the switch popped has been admitted once (`Admitted`), its
transactions are in the pool or the chain (`Restorable`), and the version in force
is again that of the height when the rollback begins (`Current`). The tree of
`chain_reorg` satisfies both hypotheses.

`HardForkProofs` proves for every table of forks, window size and set of blocks that may
arrive: `CountsAlwaysMatch` (`CountsMatchWindow`) and `AtRestAlwaysReplayed`
(`AtRestAsReplayed`). `ForkAssumption` is what `add_fork` and the constructor insist on,
with versions and votes that are bytes; `GenesisAssumption` says that the table begins
with the original version and the genesis block is of it and votes for it. `R(c, k)` is
the state of a node that saw only the first `k` blocks of `c`, and a chain is `Clean`
when every block passes `do_check` in the state before it. Of a clean chain the window is
the votes of the last `window_size` blocks (`CleanWindow`, an induction in which a full
window slides), the index never falls (`IndexGrows`), and one step of the index is a
function of the window and the index before. So a rescan of the last window gives the
replayed state if it begins with the replayed index of the block before:
`reorganize_from_chain_height` finds it by lowering the index to the recorded version
(`LoweredIndex`), which works only from an index that is not too low, and `init` by
looking the last record up in the table (`InitForm`). `Faithful`, the part of `IInv` that
holds until `ahead`, therefore says that the chain is clean and recorded and that the
index during a switch is at least that of the blocks that are kept. Without the latter a
rollback in the middle of a switch could not be shown to restore anything. The blocks
that a rollback adds again (`ReAddAllFacts`) and those that a rescan adds (`AddRest`) are
inductions along the recursive functions of the model.

`MiningProofs` proves for any finite set of workers, any callers of `start` and
`stop`, all transactions, block bodies and bounds (`MiningAssumption`: the order by
fee lists every transaction once, and threads have different names):
`PausersAlwaysExact` (`PausersExact`), `NeverOverlap` (`NoOverlap`) and
`FoundBlocksVerify` (`MinedVerifies`). `Control` holds where each thread can be, that
a `start` holds the lock from its test of `m_threads` until it has filled it, that
every running thread is in `m_threads`, and that the count of pauses is the number of
workers that handle a block plus that of the network's handler. `ChainOk` says that no
transaction and no alias is mined twice and that identities of blocks are not reused;
`TemplatesFit` that each template, also the copies that workers and callers hold, was
filled on the chain that ends in its `prev` if that is still the tip. The latter is
preserved although the chain may be reorganised, because a new tip is a block no
template has named. That `fill_block_template` picks transactions that fit is an
induction over the order by fee.

`SyncProofs` proves for any peers, every tree of blocks of which any may fail to
verify, and all sizes of requests and answers (`SyncAssumption`: blocks form a tree in
which work grows, a request takes at least one block and a chain entry has room for two
ids, the common block and a new one): `OneRequestAlways` (`OneRequest`),
`NormalAlwaysCaughtUp` (`NormalIsCaughtUp`) and `HonestNeverBlamed`
(`HonestNotBlamed`). `IInv` is `CoreOk`, that the chain has the most work among the
known blocks that may verify, and for each connection: `Waiting`, that exactly one
callback, request, answer or running response is pending while it synchronizes, and
what it has needed and requested meanwhile; `Messages`, what a request and an answer
that are under way contain; `Download`, that the last block the peer told of is known,
or requested, or needed, or in the response at hand. `Follows` carries the argument for
`HonestNotBlamed`: in every list of blocks that is asked for, sent or processed, the
parent of a block is known or comes before it, so that no block of an honest peer is an
orphan. A peer may move to another chain between two answers; the lists are about
blocks already named and stay as they are, and the steps of other connections only add
to the known blocks, which `OthersKept` states once for all actions. What `Round`
gathers into a request is an induction over the ids needed.

Only model-checked: all liveness properties (the proof system does not reason about
fairness or `ENABLED`), `EventuallyCaughtUp` of `SyncProtocol` among them, and the
safety properties of `PeerNode` and `Wallet`. Those of `Wallet` compare the state with
what a recursive operator computes from a whole chain, and modules with such operators
are out of the provers' reach; for `PeerNode` no inductive invariant has been
worked out.

## Behaviour worth knowing

Besides the two findings, the models show the following. Each is what the code
does; none is excluded from the models.

- `tx_pool.cpp:260` and `:271`: both assertions of `add_tx` can fail. A block
  popped between the check of the images and the insertion registers an image; and
  `validate` drops a mined transaction but not its alias. The transaction then
  stays in some containers (`errors`).
- `blockchain.cpp:811`: blocks of a branch are checked with the fork index of the
  chain that was popped. A valid branch with more work that begins below a fork
  height can be filed as invalid.
- `blockchain.cpp:761`: an alias of a block that the database refused stays in the
  cache, and the rollback that wants to add the original block with this alias
  fails ("PANIC!").
- `checkpoints.cpp:101` compares with the chain's height, so that a checkpoint the
  chain has not reached forbids alternatives, unlike the comment at
  `blockchain.cpp:1235`.
- `blockchain.cpp:3306`: the rollback of `check_against_checkpoints` runs inside a
  batch, and the hard fork's own `batch_start` throws. The batch stays active,
  later blocks are not committed, and no further checkpoint update runs.
- `cryptonote_protocol_handler.inl:1006`: the final condition can fail for a peer
  that grew or switched, and the connection then stays synchronizing with nothing
  asked for.
- `net_node.inl:817`: the random index reaches only some of the most recently seen
  peers. A dead peer is never removed from the white list, and seeds are asked
  only when that list is empty.
- `miner.cpp:290`: after two overlapping stops and a start, the second stop joins
  threads that mine on.
- `wallet2.cpp:1608`: `fast_refresh` tests the height in two ways and can ask for
  the same hashes for ever. `wallet2.cpp:1470`: giving up an own transaction marks
  its inputs unspent, also when another transaction has spent them in a block.

## Not modelled

- Cryptography (`crypto/`, `ringct/`, hashing): number theory on 256-bit values.
- Difficulty, rewards, fees and size limits: arithmetic on 64 and 128 bits, while
  the model checker has 32-bit integers. They are data of blocks and transactions
  here.
- Serialisation, mnemonics, JSON and DNS input, formatting: no state that outlives
  a call.
- Construction of transactions in the wallet, cold signing, imported key images,
  spends from several accounts, outputs with the same key.
- The RPC servers, the command line wallet and daemon, the wallet's API: parsing
  and output around the operations that are modelled.
- Daemonizer, platform code, import and export tools, built-in block hashes.
- Relay of transactions and its timers; fluffy blocks, which only the test network
  uses; exclusive peers and UPnP.
- A failing `mdb_env_set_mapsize`, which leaves the gate shut; checkpoints that
  arrive at run time while alternative chains are known.

Most of the lines under `src/` are of these kinds: field arithmetic, hash
functions, word lists, generated tables, commands and their help. The definitions
stand for about six thousand lines, those with shared or persistent state.

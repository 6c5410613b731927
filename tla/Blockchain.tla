------------------------------ MODULE Blockchain ------------------------------
(***************************************************************************)
(* The main chain, the alternative chains and the switch between them:     *)
(* class Blockchain (cryptonote_core/blockchain.cpp) on top of             *)
(* BlockchainDB and the checkpoints.                                       *)
(*                                                                         *)
(* add_new_block holds the pool's and the chain's lock until it is done,   *)
(* so only a crash comes between the steps of a switch.  The steps are     *)
(* separate actions because each popped or added block is committed to the *)
(* database on its own.                                                    *)
(*                                                                         *)
(* Blocks form a tree that is fixed beforehand.  A block stands for what   *)
(* its checks depend on: its transactions, its version, whether its header *)
(* (timestamp, proof of work, height claimed by the miner transaction) and *)
(* its miner's reward are right.  The pool is the set of transactions that *)
(* take_tx can find (TxPool models its containers), the hard fork state is *)
(* the version in force for forks that depend on height alone, as those of *)
(* the hard_forks table do (HardFork models the votes).                    *)
(***************************************************************************)
EXTENDS Integers, Sequences, Functions

CONSTANTS
  Block, Genesis,
  Path,         \* block -> the blocks from the genesis block to it
  Work,         \* block -> cumulative difficulty
  Tx, TxsOf,    \* block -> the sequence of its transactions
  Images,       \* transaction -> the key images it spends
  Deps,         \* transaction -> transactions whose outputs it refers to
  AliasOf, NoAlias,
  Version,      \* block -> major version
  VersionAt,    \* height -> version of the last fork at or below it
  BadHeader,    \* blocks with a wrong timestamp, hash or miner height
  BadMiner,     \* blocks whose miner transaction pays the wrong amount
  Checkpoints,  \* the blocks m_checkpoints names
  MaxCrashes    \* bound

\* What the code relies on: blocks form a tree, work grows along it, there is
\* one checkpoint per height, the genesis block is none, has no transactions of
\* its own and is of a version of the table, which knows every height.
ASSUME BlockAssumption ==
  /\ Genesis \in Block
  /\ Path \in [Block -> Seq(Block)]
  /\ Path[Genesis] = <<Genesis>>
  /\ \A b \in Block \ {Genesis} :
       LET parent == Path[b][Len(Path[b]) - 1]
       IN /\ parent \in Block
          /\ Path[b] = Append(Path[parent], b)
          /\ Work[b] > Work[parent]
  /\ Work \in [Block -> Nat]
  /\ \A c, d \in Checkpoints : Len(Path[c]) = Len(Path[d]) => c = d
  /\ Checkpoints \subseteq Block \ {Genesis}
  /\ TxsOf \in [Block -> Seq(Tx)]
  /\ TxsOf[Genesis] = <<>>
  /\ Version[Genesis] \in {VersionAt[h] : h \in DOMAIN VersionAt}
  /\ \A b \in Block : Len(Path[b]) \in DOMAIN VersionAt
  /\ MaxCrashes \in Nat

VARIABLES
  main,        \* the blocks of the database, lowest first
  alt,         \* m_alternative_chains
  invalid,     \* m_invalid_blocks
  pool,        \* the transactions take_tx can find
  aliasCache,  \* the database's in-memory map of aliases
  hf,          \* version in force: heights[current_fork_index].version
  step,        \* what the running add_new_block does next
  branch,      \* alt_chain of the running switch
  old,         \* disconnected_chain
  split,       \* split_height
  n,           \* index into branch or old
  fail,        \* index into branch of the block that could not be connected
  discard,     \* discard_disconnected_chain
  before,      \* history: main when the switch began
  panicked,    \* history: a rollback could not restore a block
  crashes

switchVars == <<branch, old, split, n, fail, discard, before>>

vars == <<main, alt, invalid, pool, aliasCache, hf, step, switchVars, panicked, crashes>>

----------------------------------------------------------------------------
Height(b) == Len(Path[b]) - 1

Parent(b) == Path[b][Len(Path[b]) - 1]

TxSet(b) == Range(TxsOf[b])

Mined(c) == UNION {TxSet(c[h]) : h \in DOMAIN c}

AliasesIn(S) == {AliasOf[tx] : tx \in S} \ {NoAlias}

ImagesIn(S) == UNION {Images[tx] : tx \in S}

Tail_id == main[Len(main)]

\* have_block
HaveBlock(b) == b \in Range(main) \cup alt \cup invalid

----------------------------------------------------------------------------
(***************************************************************************)
(* checkpoints.cpp.  A checkpoint is the block it names.                   *)
(***************************************************************************)
CheckBlock(b) == \A c \in Checkpoints : Height(c) = Height(b) => c = b

\* Heights of the checkpoints up to a height: upper_bound, then --it.
CheckpointsUpTo(h) == {Height(c) : c \in {d \in Checkpoints : Height(d) <= h}}

\* Mutant: an alternative block may be below a checkpoint.
IsAlternativeBlockAllowedBelow(chainHeight, b) == Height(b) # 0

IsAlternativeBlockAllowed(chainHeight, b) ==
  /\ Height(b) # 0
  /\ \A h \in CheckpointsUpTo(chainHeight) : h < Height(b)

----------------------------------------------------------------------------
(***************************************************************************)
(* handle_block_to_main_chain.                                             *)
(***************************************************************************)
TakenBefore(b, i) == {TxsOf[b][j] : j \in 1..(i - 1)}

CannotTake(b, i) ==
  \/ TxsOf[b][i] \in Mined(main)
  \/ TxsOf[b][i] \notin pool
  \/ TxsOf[b][i] \in TakenBefore(b, i)

\* check_tx_inputs, then the look-up of the alias
BadOnceTaken(b, i) ==
  LET tx == TxsOf[b][i]
  IN \/ Images[tx] \cap ImagesIn(Mined(main)) # {}
     \/ ~(Deps[tx] \subseteq Mined(main))
     \/ AliasOf[tx] \in aliasCache

\* BlockchainDB::add_transaction throws on the i-th transaction.
DbRefuses(b, i) ==
  \/ Images[TxsOf[b][i]] \cap ImagesIn(TakenBefore(b, i)) # {}
  \/ AliasOf[TxsOf[b][i]] \in AliasesIn(TakenBefore(b, i))

FirstIndex(S) == {i \in S : \A j \in S : i <= j}

HeaderOk(b) ==
  /\ Parent(b) = Tail_id
  /\ hf = Version[b]
  /\ b \notin BadHeader
  /\ CheckBlock(b)

TxProblems(b) == {i \in DOMAIN TxsOf[b] : CannotTake(b, i) \/ BadOnceTaken(b, i)}

DbProblems(b) == {i \in DOMAIN TxsOf[b] : DbRefuses(b, i)}

Valid(b) == HeaderOk(b) /\ TxProblems(b) = {} /\ b \notin BadMiner

\* add_block_as_invalid is called for wrong inputs and for a used alias.
MarkedInvalid(b) ==
  IF HeaderOk(b) /\ \E i \in FirstIndex(TxProblems(b)) : ~CannotTake(b, i)
  THEN {b} ELSE {}

\* m_db->add_block aborts its transaction, but the aliases it had put into the
\* cache stay there.
LeftInCache(b) ==
  IF Valid(b)
  THEN UNION {AliasesIn(TakenBefore(b, i)) : i \in FirstIndex(DbProblems(b))}
  ELSE {}

\* Mutant: only the look-up in the pool is left of the checks on transactions.
AcceptedUnchecked(b) == HeaderOk(b) /\ (\A i \in DOMAIN TxsOf[b] : ~CannotTake(b, i))

Accepted(b) == Valid(b) /\ DbProblems(b) = {}

\* Forks that depend on height alone: HardFork::add moves on to the last one
\* that the next height reaches.
Raised(v, height) == IF VersionAt[height] > v THEN VersionAt[height] ELSE v

Accept(b) ==
  /\ main' = Append(main, b)
  /\ pool' = pool \ TxSet(b)
  /\ aliasCache' = aliasCache \cup AliasesIn(TxSet(b))
  /\ hf' = Raised(hf, Len(main) + 1)

\* What was taken from the pool is returned to it.
Refuse(b) ==
  /\ aliasCache' = aliasCache \cup LeftInCache(b)
  /\ UNCHANGED <<main, pool, hf>>

\* Mutant: the transactions of the popped block are not returned to the pool.
PopBlockFromBlockchainLosesTxs ==
  /\ main' = SubSeq(main, 1, Len(main) - 1)
  /\ aliasCache' = aliasCache \ AliasesIn(TxSet(Tail_id))
  /\ UNCHANGED <<hf, pool>>

\* Mutant: the aliases of the popped block stay in the cache.
PopBlockFromBlockchainKeepsAliases ==
  /\ main' = SubSeq(main, 1, Len(main) - 1)
  /\ pool' = pool \cup TxSet(Tail_id)
  /\ UNCHANGED <<hf, aliasCache>>

\* pop_block_from_blockchain leaves the hard fork state alone.
PopBlockFromBlockchain ==
  /\ main' = SubSeq(main, 1, Len(main) - 1)
  /\ pool' = pool \cup TxSet(Tail_id)
  /\ aliasCache' = aliasCache \ AliasesIn(TxSet(Tail_id))
  /\ UNCHANGED hf

\* HardFork::reorganize_from_chain_height: down to the version of the block
\* below height, then the blocks from height on are added again; one of another
\* version than the one in force is passed over.
Reorganized(c, height) ==
  LET lowered == IF hf > Version[c[height]] THEN Version[c[height]] ELSE hf
      added[h \in height..Len(c)] ==
        IF h = height THEN Raised(lowered, height)
        ELSE IF Version[c[h]] = added[h - 1] THEN Raised(added[h - 1], h) ELSE added[h - 1]
  IN added[Len(c)]

----------------------------------------------------------------------------
(***************************************************************************)
(* handle_alternative_block.                                               *)
(***************************************************************************)
\* The alternative blocks that lead to b, b included: from the first index
\* after which Path[b] runs through m_alternative_chains.
AltChain(b) ==
  LET p == Path[b]
      from == {i \in 1..Len(p) : \A j \in i..(Len(p) - 1) : p[j] \in alt}
  IN SubSeq(p, CHOOSE i \in from : \A j \in from : i <= j, Len(p))

AlternativeAccepted(b) ==
  /\ IsAlternativeBlockAllowed(Len(main), b)
  /\ Parent(b) \in alt \cup Range(main)
  /\ LET front == AltChain(b)[1]
     IN front # b => Len(main) > Height(front) /\ Parent(front) \in Range(main)
  /\ b \notin BadHeader /\ CheckBlock(b)

\* Mutant: the check for a checkpoint comes without that for more work.
ReorganizesForCheckpointOnly(b) == b \in Checkpoints

Reorganizes(b) == b \in Checkpoints \/ Work[Tail_id] < Work[b]

----------------------------------------------------------------------------
NoSwitch ==
  /\ branch' = <<>> /\ old' = <<>> /\ before' = <<>>
  /\ split' = 0 /\ n' = 0 /\ fail' = 0 /\ discard' = FALSE

Init ==
  /\ main = <<Genesis>>
  /\ alt = {} /\ invalid = {} /\ pool = {} /\ aliasCache = {}
  /\ hf = VersionAt[1]
  /\ step = "idle"
  /\ branch = <<>> /\ old = <<>> /\ before = <<>>
  /\ split = 0 /\ n = 0 /\ fail = 0 /\ discard = FALSE
  /\ panicked = FALSE /\ crashes = 0

\* add_new_block for a block that refers to the tail
AddToMain(b) ==
  /\ step = "idle" /\ ~HaveBlock(b) /\ Parent(b) = Tail_id
  /\ IF Accepted(b) THEN Accept(b) /\ UNCHANGED invalid
     ELSE Refuse(b) /\ invalid' = invalid \cup MarkedInvalid(b)
  /\ UNCHANGED <<alt, step, switchVars, panicked, crashes>>

\* add_new_block for any other block
AddAlternative(b) ==
  /\ step = "idle" /\ ~HaveBlock(b) /\ Parent(b) # Tail_id
  /\ AlternativeAccepted(b)
  /\ alt' = alt \cup {b}
  /\ IF Reorganizes(b)
     THEN /\ step' = "pop"
          /\ branch' = AltChain(b)
          /\ discard' = (b \in Checkpoints)
          /\ before' = main
          /\ UNCHANGED <<old, split, n, fail>>
     ELSE UNCHANGED <<step, switchVars>>
  /\ UNCHANGED <<main, invalid, pool, aliasCache, hf, panicked, crashes>>

(***************************************************************************)
(* switch_to_alternative_blockchain.                                       *)
(***************************************************************************)
PopToSplit ==
  /\ step = "pop" /\ Tail_id # Parent(branch[1])
  /\ PopBlockFromBlockchain
  /\ old' = <<Tail_id>> \o old
  /\ UNCHANGED <<alt, invalid, step, branch, split, n, fail, discard, before, panicked, crashes>>

BeginConnect ==
  /\ step = "pop" /\ Tail_id = Parent(branch[1])
  /\ step' = "connect" /\ split' = Len(main) /\ n' = 1
  /\ UNCHANGED <<main, alt, invalid, pool, aliasCache, hf, branch, old, fail, discard,
                 before, panicked, crashes>>

Connect ==
  /\ step = "connect" /\ n <= Len(branch)
  /\ IF Accepted(branch[n])
     THEN Accept(branch[n]) /\ n' = n + 1 /\ UNCHANGED <<invalid, step, fail>>
     ELSE /\ Refuse(branch[n])
          /\ invalid' = invalid \cup MarkedInvalid(branch[n])
          /\ step' = "unwind" /\ fail' = n /\ UNCHANGED n
  /\ UNCHANGED <<alt, branch, old, split, discard, before, panicked, crashes>>

BeginPushOld ==
  /\ step = "connect" /\ n > Len(branch)
  /\ step' = "push" /\ n' = 1
  /\ UNCHANGED <<main, alt, invalid, pool, aliasCache, hf, branch, old, split, fail,
                 discard, before, panicked, crashes>>

\* Mutant: the iterator over the old chain is not advanced.
PushOldRepeats ==
  /\ step = "push" /\ ~discard /\ n <= Len(old)
  /\ alt' = IF AlternativeAccepted(old[n]) THEN alt \cup {old[n]} ELSE alt
  /\ UNCHANGED <<main, invalid, pool, aliasCache, hf, step, switchVars, panicked, crashes>>

\* handle_alternative_block for a block of the old chain
PushOld ==
  /\ step = "push" /\ ~discard /\ n <= Len(old)
  /\ alt' = IF AlternativeAccepted(old[n]) THEN alt \cup {old[n]} ELSE alt
  /\ n' = n + 1
  /\ UNCHANGED <<main, invalid, pool, aliasCache, hf, step, branch, old, split, fail,
                 discard, before, panicked, crashes>>

FinishSwitch ==
  /\ step = "push" /\ (discard \/ n > Len(old))
  /\ alt' = alt \ Range(branch)
  /\ hf' = Reorganized(main, split)
  /\ step' = "idle" /\ NoSwitch
  /\ UNCHANGED <<main, invalid, pool, aliasCache, panicked, crashes>>

(***************************************************************************)
(* rollback_blockchain_switching, and what its caller does afterwards: the *)
(* block that failed and those after it become invalid.                    *)
(***************************************************************************)
Unwind ==
  /\ step = "unwind" /\ Len(main) # split
  /\ PopBlockFromBlockchain
  /\ UNCHANGED <<alt, invalid, step, switchVars, panicked, crashes>>

BeginRestore ==
  /\ step = "unwind" /\ Len(main) = split
  /\ hf' = Reorganized(main, split)
  /\ step' = "restore" /\ n' = 1
  /\ UNCHANGED <<main, alt, invalid, pool, aliasCache, branch, old, split, fail,
                 discard, before, panicked, crashes>>

Failed == Range(SubSeq(branch, fail, Len(branch)))

Restore ==
  /\ step = "restore" /\ n <= Len(old) /\ Accepted(old[n])
  /\ Accept(old[n])
  /\ n' = n + 1
  /\ UNCHANGED <<alt, invalid, step, branch, old, split, fail, discard, before, panicked,
                 crashes>>

\* Mutant: the original chain is not put back.
FinishRollbackEarly ==
  /\ step = "restore"
  /\ hf' = Reorganized(main, split)
  /\ alt' = alt \ Failed /\ invalid' = invalid \cup Failed
  /\ step' = "idle" /\ NoSwitch
  /\ UNCHANGED <<main, pool, aliasCache, panicked, crashes>>

FinishRollback ==
  /\ step = "restore" /\ n > Len(old)
  /\ hf' = Reorganized(main, split)
  /\ alt' = alt \ Failed /\ invalid' = invalid \cup Failed
  /\ step' = "idle" /\ NoSwitch
  /\ UNCHANGED <<main, pool, aliasCache, panicked, crashes>>

\* Mutant: the failed branch stays among the alternative chains.
PanicKeepsBranch ==
  /\ step = "restore" /\ n <= Len(old) /\ ~Accepted(old[n])
  /\ Refuse(old[n])
  /\ panicked' = TRUE
  /\ invalid' = invalid \cup MarkedInvalid(old[n]) \cup Failed
  /\ step' = "idle" /\ NoSwitch
  /\ UNCHANGED <<alt, crashes>>

\* "PANIC! failed to add (again) block": the rollback returns early.
Panic ==
  /\ step = "restore" /\ n <= Len(old) /\ ~Accepted(old[n])
  /\ Refuse(old[n])
  /\ panicked' = TRUE
  /\ alt' = alt \ Failed
  /\ invalid' = invalid \cup MarkedInvalid(old[n]) \cup Failed
  /\ step' = "idle" /\ NoSwitch
  /\ UNCHANGED crashes

SwitchStep ==
  \/ PopToSplit \/ BeginConnect \/ Connect \/ BeginPushOld \/ PushOld
  \/ FinishSwitch \/ Unwind \/ BeginRestore \/ Restore \/ FinishRollback \/ Panic

(***************************************************************************)
(* The surroundings.  Transactions come and go while no block is handled;  *)
(* those that come with a block are kept whatever they spend.              *)
(***************************************************************************)
TxArrives(tx) ==
  /\ step = "idle" /\ tx \notin pool \cup Mined(main)
  /\ pool' = pool \cup {tx}
  /\ UNCHANGED <<main, alt, invalid, aliasCache, hf, step, switchVars, panicked, crashes>>

TxLeaves(tx) ==
  /\ step = "idle" /\ tx \in pool
  /\ pool' = pool \ {tx}
  /\ UNCHANGED <<main, alt, invalid, aliasCache, hf, step, switchVars, panicked, crashes>>

\* The database is all that is left.  The pool comes back from its file, which
\* may be missing; init rescans the hard fork state and reads the aliases.
Crash ==
  /\ crashes < MaxCrashes
  /\ crashes' = crashes + 1
  /\ pool' \in {{}, pool \ Mined(main)}
  /\ alt' = {} /\ invalid' = {}
  /\ aliasCache' = AliasesIn(Mined(main))
  /\ hf' = Raised(Version[Tail_id], Len(main))
  /\ step' = "idle" /\ NoSwitch
  /\ UNCHANGED <<main, panicked>>

Next ==
  \/ \E b \in Block \ {Genesis} : AddToMain(b) \/ AddAlternative(b)
  \/ SwitchStep
  \/ \E tx \in Tx : TxArrives(tx) \/ TxLeaves(tx)
  \/ Crash

Spec == Init /\ [][Next]_vars

\* The thread that runs add_new_block goes on as long as the daemon runs.
FairSpec == Spec /\ WF_vars(SwitchStep)

----------------------------------------------------------------------------
(***************************************************************************)
(* Properties                                                              *)
(***************************************************************************)
\* The types of the state.
TypeOK ==
  /\ main \in Seq(Block) /\ main # <<>>
  /\ alt \subseteq Block \ {Genesis} /\ invalid \subseteq Block \ {Genesis}
  /\ pool \subseteq Tx
  /\ aliasCache \subseteq AliasesIn(Tx)
  /\ hf \in {VersionAt[h] : h \in DOMAIN VersionAt}
  /\ step \in {"idle", "pop", "connect", "push", "unwind", "restore"}
  /\ branch \in Seq(Block) /\ old \in Seq(Block) /\ before \in Seq(Block)
  /\ {split, n, fail} \subseteq Nat
  /\ discard \in BOOLEAN /\ panicked \in BOOLEAN
  /\ crashes \in 0..MaxCrashes

\* In a chain of blocks no image is spent twice, no alias is registered twice and
\* no transaction refers to an output that is not there.
Sound(c) ==
  \A i \in DOMAIN c : \A t \in TxSet(c[i]) :
    LET below == Mined(SubSeq(c, 1, i - 1))
        others == below \cup (TxSet(c[i]) \ {t})
    IN /\ t \notin below
       /\ Images[t] \cap ImagesIn(others) = {}
       /\ AliasOf[t] \notin AliasesIn(others)
       /\ Deps[t] \subseteq below

\* The state has its types, and at every step of every switch, rollback and crash
\* the database holds one branch of the block tree that is sound.
ChainConsistent == TypeOK /\ main = Path[Tail_id] /\ Sound(main)

\* Between operations a block is known in one role only: have_block, the erasures
\* at the end of a switch and add_block_as_invalid keep the three containers apart.
OneRole ==
  step = "idle" =>
    /\ Range(main) \cap alt = {}
    /\ Range(main) \cap invalid = {}
    /\ alt \cap invalid = {}

\* An alternative block that a checkpoint of the main chain has overtaken.
BelowCheckpoint(b) ==
  \E c \in Checkpoints : c \in Range(main) /\ c \notin Range(Path[b])

\* Between operations no alternative block that may still be switched to has
\* more work than the main chain, however switches succeeded or failed.
BestChain ==
  step = "idle" /\ ~panicked =>
    \A b \in alt : Work[b] <= Work[Tail_id] \/ BelowCheckpoint(b)

\* A switch neither loses nor invents a transaction: what is popped, refused,
\* re-added or rolled back is in the pool or in the chain at every step.
SwitchKeepsTxs ==
  [][SwitchStep => pool' \cup Mined(main') = pool \cup Mined(main)]_vars

\* A checkpoint that the main chain has reached is never popped.
CheckpointStays ==
  [][\A c \in Checkpoints : c \in Range(main) => c \in Range(main')]_vars

\* The in-memory aliases are those of the chain's transactions.
AliasCacheExact == aliasCache = AliasesIn(Mined(main))

\* Every switch ends: its loops pop and connect finitely many blocks.
SwitchEnds == step # "idle" ~> step = "idle"

\* Seen from between the operations, switches and rollbacks are atomic: while one
\* runs the ledger is the chain it began with (before).
L == INSTANCE Ledger WITH ledger <- IF step = "idle" THEN main ELSE before

\* add_new_block, with its switches and rollbacks of many committed steps,
\* implements the one-step changes of Ledger.
ImplementsLedger == L!Spec
=============================================================================

------------------------------- MODULE TxPool -------------------------------
(***************************************************************************)
(* The daemon's transaction pool (cryptonote_core/tx_pool.cpp) with the    *)
(* three parties that share it:                                            *)
(*   - the thread that brings in a transaction (core::handle_incoming_tx,  *)
(*     serialised by m_incoming_tx_lock, so one transaction at a time);    *)
(*   - the thread that adds or pops blocks, which takes transactions out   *)
(*     of the pool and puts them back;                                     *)
(*   - housekeeping: the stuck-transaction timer, the flush RPC, restart.  *)
(* add_tx checks a transaction in several regions that each take and       *)
(* release their own lock, so every such region is a step of its own.      *)
(* The main chain is only what the pool sees of it: the stack of block     *)
(* bodies, and the alias cache of the database.                            *)
(***************************************************************************)
EXTENDS Naturals, Sequences, FiniteSets

CONSTANTS
  Tx,          \* transaction hashes
  Image,       \* key images
  Alias,       \* aliases
  NoAlias,     \* "the transaction registers no alias"
  Images,      \* Images[tx]: the key images of tx.vin, in input order
  AliasOf,     \* AliasOf[tx]: the alias in tx.extra, or NoAlias
  Deps,        \* Deps[tx]: transactions whose outputs the rings of tx use
  TooBig,      \* transactions of TRANSACTION_SIZE_LIMIT bytes or more
  Refused,     \* transactions below the fee, mixin or output policy
  Bodies,      \* the bodies (sequences of transactions) blocks can have
  MaxHeight,   \* bound: blocks on top of the starting chain
  MaxRestarts  \* bound: times the daemon stops and starts

ImageSet(tx) == {Images[tx][i] : i \in DOMAIN Images[tx]}

\* check_tx_inputs_keyimages_diff has refused a transaction that names the
\* same image twice, and one without inputs.
ASSUME TxAssumption ==
  /\ Images \in [Tx -> Seq(Image) \ {<<>>}]
  /\ \A tx \in Tx : \A i, j \in DOMAIN Images[tx] :
       Images[tx][i] = Images[tx][j] => i = j
  /\ NoAlias \notin Alias
  /\ AliasOf \in [Tx -> Alias \cup {NoAlias}]
  /\ Deps \in [Tx -> SUBSET Tx]
  /\ TooBig \subseteq Tx
  /\ Refused \subseteq Tx
  /\ Bodies \subseteq Seq(Tx)
  /\ MaxHeight \in Nat
  /\ MaxRestarts \in Nat

VARIABLES
  pool,        \* the containers of tx_memory_pool
  incoming,    \* the transaction core::handle_incoming_tx is working on
  chain,       \* bodies of the main chain's blocks
  aliasCache,  \* keys of BlockchainLMDB::m_aliases_multi_index
  locked,      \* the block thread still holds m_tx_pool and m_blockchain_lock
  saved,       \* the pool's state file
  restarts,    \* restarts so far
  errors       \* assertions of add_tx that have failed, a history variable

vars == <<pool, incoming, chain, aliasCache, locked, saved, restarts, errors>>

(***************************************************************************)
(* The containers.  sorted is m_txs_by_fee_and_receive_time: its order is  *)
(* not modelled, its members are.  kept holds the transactions whose       *)
(* kept_by_block flag is set.                                              *)
(***************************************************************************)
Pools ==
  [transactions : SUBSET Tx,
   kept         : SUBSET Tx,
   sorted       : SUBSET Tx,
   images       : [Image -> SUBSET Tx],
   aliases      : [Alias -> SUBSET Tx],
   timedOut     : SUBSET Tx]

EmptyPool ==
  [transactions |-> {}, kept |-> {}, sorted |-> {},
   images |-> [k \in Image |-> {}], aliases |-> [a \in Alias |-> {}],
   timedOut |-> {}]

(***************************************************************************)
(* The chain as the pool's checks see it.                                  *)
(***************************************************************************)
BodySet(body) == {body[i] : i \in DOMAIN body}

Mined(c) == UNION {BodySet(c[h]) : h \in DOMAIN c}

SpentImages(c) == UNION {ImageSet(tx) : tx \in Mined(c)}

AliasesIn(S) == {AliasOf[tx] : tx \in S} \ {NoAlias}

\* Blockchain::check_tx_inputs: no image is spent, the ring members exist.
InputsOk(c, tx) ==
  /\ ImageSet(tx) \cap SpentImages(c) = {}
  /\ Deps[tx] \subseteq Mined(c)

(***************************************************************************)
(* The insertion at the end of add_tx.  The loop over the inputs registers *)
(* images until an assertion fails; the alias and the sorted container are *)
(* only reached when none did, so a failure leaves a transaction that is   *)
(* in m_transactions and in no other container.                            *)
(***************************************************************************)
ImageRefuses(p, tx, kept, k) ==
  \/ ~kept /\ p.images[k] # {}
  \/ tx \in p.images[k]

ImagesInserted(p, tx, kept) ==
  {Images[tx][i] : i \in {j \in DOMAIN Images[tx] :
     \A h \in 1..j : ~ImageRefuses(p, tx, kept, Images[tx][h])}}

AliasRefuses(p, tx, kept) ==
  /\ AliasOf[tx] # NoAlias
  /\ \/ ~kept /\ p.aliases[AliasOf[tx]] # {}
     \/ tx \in p.aliases[AliasOf[tx]]

InsertErrors(p, tx, kept) ==
  IF tx \in p.transactions THEN {"already in pool"}
  ELSE IF ImagesInserted(p, tx, kept) # ImageSet(tx) THEN {"key image"}
  ELSE IF AliasRefuses(p, tx, kept)
       THEN {IF kept THEN "duplicate alias entry" ELSE "alias"}
  ELSE {}

\* Mutant: kept_by_block is not set in the details of the transaction.
InsertForgetsKept(p, tx, kept) ==
  LET allOk == InsertErrors(p, tx, kept) = {}
      inserted == ImagesInserted(p, tx, kept)
  IN IF tx \in p.transactions THEN p
     ELSE [p EXCEPT !.transactions = @ \cup {tx},
                    !.sorted = IF allOk THEN @ \cup {tx} ELSE @,
                    !.images = [k \in Image |-> @[k] \cup
                                  (IF k \in inserted THEN {tx} ELSE {})],
                    !.aliases = [a \in Alias |-> @[a] \cup
                                  (IF a = AliasOf[tx] /\ allOk THEN {tx} ELSE {})]]

Insert(p, tx, kept) ==
  LET allOk == InsertErrors(p, tx, kept) = {}
      sortedToo == IF allOk THEN {tx} ELSE {}
      inserted == ImagesInserted(p, tx, kept)
  IN IF tx \in p.transactions THEN p
     ELSE [transactions |-> p.transactions \cup {tx},
           kept     |-> p.kept \cup (IF kept THEN {tx} ELSE {}),
           sorted   |-> p.sorted \cup sortedToo,
           images   |-> [k \in Image |-> p.images[k] \cup
                                          (IF k \in inserted THEN {tx} ELSE {})],
           aliases  |-> [a \in Alias |-> p.aliases[a] \cup
                                          (IF a = AliasOf[tx] THEN sortedToo ELSE {})],
           timedOut |-> p.timedOut]

\* Mutant: the branch for a failed input check returns without sorting.
InsertKeptUnsorted(p, S) ==
  [p EXCEPT !.transactions = @ \cup S, !.kept = @ \cup S,
            !.images = [k \in Image |-> @[k] \cup {tx \in S : k \in ImageSet(tx)}]]

\* add_tx for every transaction of S, all kept by a block: whatever
\* check_tx_inputs says, such a transaction is inserted, and insertions of
\* different kept transactions do not depend on each other.
InsertKept(p, S) ==
  LET new == S \ p.transactions
      ok  == {tx \in new : InsertErrors(p, tx, TRUE) = {}}
  IN [transactions |-> p.transactions \cup new,
      kept     |-> p.kept \cup new,
      sorted   |-> p.sorted \cup ok,
      images   |-> [k \in Image |->
                     p.images[k] \cup {tx \in new : k \in ImagesInserted(p, tx, TRUE)}],
      aliases  |-> [a \in Alias |-> p.aliases[a] \cup {tx \in ok : AliasOf[tx] = a}],
      timedOut |-> p.timedOut]

KeptErrors(p, S) == UNION {InsertErrors(p, tx, TRUE) : tx \in S}

(***************************************************************************)
(* Removal.  remove_transaction_keyimages returns at the first image it    *)
(* does not find registered, remove_transaction_alias when the alias is    *)
(* not.  The removals of different transactions are independent.           *)
(***************************************************************************)
\* Mutant: the loop over the inputs misses the last one.
ImagesRemovedButLast(p, tx) ==
  {Images[tx][i] : i \in {j \in DOMAIN Images[tx] :
     j < Len(Images[tx]) /\ \A h \in 1..j : tx \in p.images[Images[tx][h]]}}

ImagesRemoved(p, tx) ==
  {Images[tx][i] : i \in {j \in DOMAIN Images[tx] :
     \A h \in 1..j : tx \in p.images[Images[tx][h]]}}

RemoveImages(p, S) ==
  [k \in Image |-> p.images[k] \ {tx \in S : k \in ImagesRemoved(p, tx)}]

RemoveAliases(p, S) == [a \in Alias |-> p.aliases[a] \ {tx \in S : AliasOf[tx] = a}]

Remove(p, S) ==
  [transactions |-> p.transactions \ S,
   kept     |-> p.kept \ S,
   sorted   |-> p.sorted \ S,
   images   |-> RemoveImages(p, S),
   aliases  |-> RemoveAliases(p, S),
   timedOut |-> p.timedOut]

\* take_tx answers false for a transaction it cannot find in both containers.
Takeable(p, tx) == tx \in p.transactions /\ tx \in p.sorted

(***************************************************************************)
(* The state file.  The sorted container is not written but regenerated    *)
(* from m_transactions; then validate drops what is too big or mined, and  *)
(* leaves m_pending_aliases alone.                                         *)
(***************************************************************************)
NoFile == EmptyPool

Serialized(p) == [p EXCEPT !.sorted = {}]

\* Mutant: validate erases the details only.
ValidateDetailsOnly(p, c) ==
  LET gone == {tx \in p.transactions : tx \in TooBig \/ tx \in Mined(c)}
  IN [p EXCEPT !.transactions = @ \ gone, !.kept = @ \ gone]

Validate(p, c) ==
  LET gone == {tx \in p.transactions : tx \in TooBig \/ tx \in Mined(c)}
  IN [Remove(p, gone) EXCEPT !.aliases = p.aliases]

\* Mutant: the sorted container is not regenerated.
LoadedUnsorted(file, c) == Validate(file, c)

Loaded(file, c) == Validate([file EXCEPT !.sorted = file.transactions], c)

(***************************************************************************)
(* The incoming thread.  Its control state names the check it does next.   *)
(***************************************************************************)
Idle == [at |-> "idle"]

Stages == {"have_tx", "have_tx_chain", "policy", "key_images", "aliases",
           "inputs", "alias_duplicity", "insert"}

\* bad: check_tx_inputs or the alias look-up has failed (only a transaction
\* kept by a block goes on after that).
Working == [at : Stages, tx : Tx, kept : BOOLEAN, bad : BOOLEAN]

Init ==
  /\ pool = EmptyPool
  /\ incoming = Idle
  /\ chain = <<>>
  /\ aliasCache = {}
  /\ locked = FALSE
  /\ saved = NoFile
  /\ restarts = 0
  /\ errors = {}

Goto(stage) == incoming' = [incoming EXCEPT !.at = stage]

OnlyIncoming ==
  UNCHANGED <<pool, chain, aliasCache, locked, saved, restarts, errors>>

\* core::handle_incoming_tx, up to core::add_new_tx.  kept is set for the
\* transactions that come with a block.
HandleIncomingTx(tx, kept) ==
  /\ incoming = Idle
  /\ incoming' = [at |-> "have_tx", tx |-> tx, kept |-> kept, bad |-> FALSE]
  /\ OnlyIncoming

\* m_mempool.have_tx, under the pool's lock
HaveTx ==
  /\ incoming.at = "have_tx"
  /\ ~locked
  /\ IF incoming.tx \in pool.transactions
     THEN incoming' = Idle ELSE Goto("have_tx_chain")
  /\ OnlyIncoming

\* m_blockchain_storage.have_tx, under the chain's lock
HaveTxInChain ==
  /\ incoming.at = "have_tx_chain"
  /\ ~locked
  /\ IF incoming.tx \in Mined(chain) THEN incoming' = Idle ELSE Goto("policy")
  /\ OnlyIncoming

\* Mutant: the timed-out set is not consulted.
CheckPolicyOnly ==
  /\ incoming.at = "policy"
  /\ IF incoming.kept THEN Goto("inputs")
     ELSE IF incoming.tx \in TooBig \cup Refused THEN incoming' = Idle
     ELSE Goto("key_images")
  /\ OnlyIncoming

\* The timed-out set and the limits are read without a lock.
CheckPolicy ==
  /\ incoming.at = "policy"
  /\ IF incoming.kept THEN Goto("inputs")
     ELSE IF incoming.tx \in pool.timedOut \cup TooBig \cup Refused
     THEN incoming' = Idle
     ELSE Goto("key_images")
  /\ OnlyIncoming

\* have_tx_keyimges_as_spent, under the pool's lock
CheckPoolImages ==
  /\ incoming.at = "key_images"
  /\ ~locked
  /\ IF \E k \in ImageSet(incoming.tx) : pool.images[k] # {}
     THEN incoming' = Idle ELSE Goto("aliases")
  /\ OnlyIncoming

\* has_alias, under the pool's lock again
CheckPoolAliases ==
  /\ incoming.at = "aliases"
  /\ ~locked
  /\ IF AliasOf[incoming.tx] # NoAlias /\ pool.aliases[AliasOf[incoming.tx]] # {}
     THEN incoming' = Idle ELSE Goto("inputs")
  /\ OnlyIncoming

\* Blockchain::check_tx_inputs, under the chain's lock
CheckInputs ==
  /\ incoming.at = "inputs"
  /\ ~locked
  /\ incoming' = [incoming EXCEPT !.at = "alias_duplicity",
                                  !.bad = ~InputsOk(chain, incoming.tx)]
  /\ OnlyIncoming

\* get_alias_address reads the cache without a lock.
CheckAliasDuplicity ==
  /\ incoming.at = "alias_duplicity"
  /\ incoming' = [incoming EXCEPT !.at = "insert",
                                  !.bad = @ \/ AliasOf[incoming.tx] \in aliasCache]
  /\ OnlyIncoming

\* The rest of add_tx, under the pool's lock.
InsertTx ==
  /\ incoming.at = "insert"
  /\ ~locked
  /\ incoming' = Idle
  /\ IF incoming.bad /\ ~incoming.kept
     THEN UNCHANGED <<pool, errors>>
     ELSE /\ pool' = Insert(pool, incoming.tx, incoming.kept)
          /\ errors' = errors \cup InsertErrors(pool, incoming.tx, incoming.kept)
  /\ UNCHANGED <<chain, aliasCache, locked, saved, restarts>>

(***************************************************************************)
(* The block thread.  add_new_block holds both locks for the whole         *)
(* operation, which during a reorganisation pops and adds several blocks;  *)
(* after each of them it may be done (locked' = FALSE) or not.             *)
(***************************************************************************)
TakenBefore(body, i) == {body[j] : j \in 1..(i - 1)}

\* handle_block_to_main_chain cannot have the i-th transaction of body
CannotTake(body, i) ==
  \/ body[i] \in Mined(chain)
  \/ ~Takeable(pool, body[i])
  \/ body[i] \in TakenBefore(body, i)

\* ... or refuses it once taken
BadOnceTaken(body, i) ==
  \/ ~InputsOk(chain, body[i])
  \/ AliasOf[body[i]] \in aliasCache

\* BlockchainDB::add_transaction throws on the i-th transaction: one of its
\* images, or its alias, is already stored by an earlier one of the block.
DbRefuses(body, i) ==
  LET before == TakenBefore(body, i)
  IN \/ \E tx \in before : ImageSet(body[i]) \cap ImageSet(tx) # {}
     \/ AliasOf[body[i]] \in AliasesIn(before)

NotAcceptable(body, i) == CannotTake(body, i) \/ BadOnceTaken(body, i)

FirstIndex(S) == {i \in S : \A j \in S : i <= j}

TxProblems(body) == {i \in DOMAIN body : NotAcceptable(body, i)}

DbProblems(body) == {i \in DOMAIN body : DbRefuses(body, i)}

\* return_tx_to_pool: what was taken goes back, now kept by a block.
ReturnTxToPool(S) ==
  LET taken == Remove(pool, S)
  IN /\ pool' = InsertKept(taken, S)
     /\ errors' = errors \cup KeptErrors(taken, S)

\* Mutant: the transaction that fails is not among those returned.
RefuseBlockLosesLast(body) ==
  /\ \E i \in FirstIndex(TxProblems(body)) :
       LET taken == Remove(pool, IF CannotTake(body, i) THEN TakenBefore(body, i)
                                 ELSE TakenBefore(body, i + 1))
       IN /\ pool' = InsertKept(taken, TakenBefore(body, i))
          /\ errors' = errors \cup KeptErrors(taken, TakenBefore(body, i))
  /\ UNCHANGED aliasCache

\* The loop of handle_block_to_main_chain stops at a transaction.
RefuseBlock(body) ==
  /\ \E i \in FirstIndex(TxProblems(body)) :
       ReturnTxToPool(IF CannotTake(body, i) THEN TakenBefore(body, i)
                      ELSE TakenBefore(body, i + 1))
  /\ UNCHANGED aliasCache

\* validate_miner_transaction refuses the block after all were taken.
RefuseMinerTx(body) ==
  /\ TxProblems(body) = {}
  /\ ReturnTxToPool(BodySet(body))
  /\ UNCHANGED aliasCache

\* m_db->add_block throws: the database transaction is aborted, the alias
\* cache keeps the aliases of the transactions before the offending one.
DbAddFails(body) ==
  /\ TxProblems(body) = {}
  /\ \E i \in FirstIndex(DbProblems(body)) :
       aliasCache' = aliasCache \cup AliasesIn(TakenBefore(body, i))
  /\ ReturnTxToPool(BodySet(body))

FailBlock(body) ==
  /\ RefuseBlock(body) \/ RefuseMinerTx(body) \/ DbAddFails(body)
  /\ locked' \in BOOLEAN
  /\ UNCHANGED <<incoming, chain, saved, restarts>>

AddBlock(body) ==
  /\ Len(chain) < MaxHeight
  /\ TxProblems(body) = {} /\ DbProblems(body) = {}
  /\ pool' = Remove(pool, BodySet(body))
  /\ chain' = Append(chain, body)
  /\ aliasCache' = aliasCache \cup AliasesIn(BodySet(body))
  /\ locked' \in BOOLEAN
  /\ UNCHANGED <<incoming, saved, restarts, errors>>

\* pop_block_from_blockchain: the block's transactions return to the pool.
PopBlock ==
  /\ chain # <<>>
  /\ LET popped == BodySet(chain[Len(chain)])
     IN /\ pool' = InsertKept(pool, popped)
        /\ errors' = errors \cup KeptErrors(pool, popped)
        /\ aliasCache' = aliasCache \ AliasesIn(popped)
  /\ chain' = SubSeq(chain, 1, Len(chain) - 1)
  /\ locked' \in BOOLEAN
  /\ UNCHANGED <<incoming, saved, restarts>>

(***************************************************************************)
(* Housekeeping.                                                           *)
(***************************************************************************)
\* remove_stuck_transactions: time is abstracted to "some have expired".  The
\* lifetimes are days, so what was absent when a call of handle_incoming_tx
\* looked for it cannot have come and expired before that call ends.
RemoveStuckTransactions(S) ==
  /\ ~locked
  /\ S # {} /\ S \subseteq pool.transactions
  /\ incoming.at \notin {"idle", "have_tx"} => incoming.tx \notin S
  /\ pool' = [Remove(pool, S) EXCEPT !.timedOut = @ \cup S]
  /\ UNCHANGED <<incoming, chain, aliasCache, locked, saved, restarts, errors>>

\* flush_txes_from_pool, for one transaction
FlushTx(tx) ==
  /\ ~locked
  /\ Takeable(pool, tx)
  /\ pool' = Remove(pool, {tx})
  /\ UNCHANGED <<incoming, chain, aliasCache, locked, saved, restarts, errors>>

\* core::init: the pool is loaded before the database is opened, validated
\* after; the alias cache is read from the database.
Boot(file) ==
  /\ restarts < MaxRestarts
  /\ restarts' = restarts + 1
  /\ saved' = file
  /\ pool' = Loaded(file, chain)
  /\ incoming' = Idle
  /\ aliasCache' = AliasesIn(Mined(chain))
  /\ locked' = FALSE
  /\ UNCHANGED <<chain, errors>>

\* core::deinit stores the pool; the server's threads have ended by then.
CleanRestart == incoming = Idle /\ ~locked /\ Boot(Serialized(pool))

\* A crash finds the file of the last shutdown; a crash while it is being
\* written leaves one that cannot be read, and init then starts empty.
Crash == Boot(saved) \/ Boot(NoFile)

IncomingStep ==
  \/ HaveTx \/ HaveTxInChain \/ CheckPolicy \/ CheckPoolImages
  \/ CheckPoolAliases \/ CheckInputs \/ CheckAliasDuplicity \/ InsertTx

Next ==
  \/ \E tx \in Tx, kept \in BOOLEAN : HandleIncomingTx(tx, kept)
  \/ IncomingStep
  \/ \E body \in Bodies : AddBlock(body) \/ FailBlock(body)
  \/ PopBlock
  \/ \E S \in SUBSET Tx : RemoveStuckTransactions(S)
  \/ \E tx \in Tx : FlushTx(tx)
  \/ CleanRestart
  \/ Crash

Spec == Init /\ [][Next]_vars

(***************************************************************************)
(* What must hold.                                                         *)
(***************************************************************************)
\* The containers hold what their C++ types say.
TypeOK ==
  /\ pool \in Pools
  /\ incoming \in {Idle} \cup Working
  /\ chain \in Seq(Bodies)
  /\ aliasCache \subseteq Alias
  /\ locked \in BOOLEAN
  /\ saved \in Pools
  /\ restarts \in 0..MaxRestarts
  /\ errors \subseteq {"already in pool", "key image", "alias", "duplicate alias entry"}

\* fill_block_template dereferences m_transactions.find(...) for every entry
\* of the sorted container without a test: each entry must have its details,
\* whatever assertion of add_tx failed and however the daemon was restarted.
SortedHaveDetails == pool.sorted \subseteq pool.transactions

\* remove_transaction_keyimages may return before it has removed every image
\* (its FIXME).  Even so no image stays registered for a transaction that has
\* left the pool: such an image would make have_tx_keyimg_as_spent refuse
\* every later transaction that spends it.
NoPhantomImages ==
  \A k \in Image : pool.images[k] \subseteq {tx \in pool.transactions : k \in ImageSet(tx)}

\* Two transactions may share a key image only when at most one of them was
\* not kept by a block (the comment on key_images_container), although the
\* check of have_tx_keyimges_as_spent is done under another lock than the
\* insertion and blocks come and go in between.
OneSpenderNotKept ==
  \A k \in Image : \A t1, t2 \in pool.images[k] \ pool.kept : t1 = t2

\* As long as no assertion of add_tx has failed, every transaction of the
\* pool can be taken and has all its images and its alias registered.
IndexedUnlessError ==
  errors \subseteq {"already in pool"} =>
    \A tx \in pool.transactions :
      /\ tx \in pool.sorted
      /\ \A k \in ImageSet(tx) : tx \in pool.images[k]
      /\ AliasOf[tx] # NoAlias => tx \in pool.aliases[AliasOf[tx]]

\* A block that is refused half-way gives back what it took, and a popped
\* block what it held: a transaction leaves pool and chain only by expiring,
\* by an explicit flush, or by a restart (or after a failed assertion).
NoTxLost ==
  [][\/ errors' # {}
     \/ restarts' # restarts
     \/ \E tx \in Tx : FlushTx(tx)
     \/ pool.sorted \cup Mined(chain)
          \subseteq pool'.sorted \cup Mined(chain') \cup pool'.timedOut]_vars

\* A transaction that has timed out comes back only with a block (the comment
\* at the top of add_tx), although the timed-out set is read without the lock
\* under which the transaction is inserted later.  (A crash goes back to the
\* last state file, and so forgets what timed out since.)
TimedOutOnlyWithBlock ==
  [][restarts' = restarts =>
       \A tx \in pool.timedOut :
         tx \in pool'.transactions \ pool.transactions => tx \in pool'.kept]_vars
=============================================================================

-------------------------------- MODULE Mining --------------------------------
(***************************************************************************)
(* The miner (cryptonote_core/miner.cpp), the block template it works on   *)
(* (Blockchain::create_block_template, tx_memory_pool::                    *)
(* fill_block_template) and the blocks it finds (core::handle_block_found).*)
(*                                                                         *)
(* A template is made under three locks, one after the other: the chain's, *)
(* the pool's and the miner's.  It is asked for by the worker that found a *)
(* block, by the thread that handles a block of the network, by miner::    *)
(* on_idle every five seconds and by miner::start.                         *)
(*                                                                         *)
(* The chain and the pool change in whole steps here, under their locks;   *)
(* Blockchain and TxPool model what happens inside.  The worker's copy of  *)
(* m_template_no is modelled by whether it equals m_template_no.           *)
(***************************************************************************)
EXTENDS Integers, Sequences, FiniteSets, FiniteSetsExt, Functions

CONSTANTS
  Tx, FeeOrder,      \* all transactions, the one with the highest fee per byte first
  Images,            \* transaction -> the key images it spends
  Deps,              \* transaction -> transactions whose outputs its rings refer to
  AliasOf, NoAlias,
  Bodies,            \* the transactions of the blocks that the network sends
  Capacity,          \* transactions that fit into a block
  Worker,            \* threads of the miner
  Caller,            \* threads that call miner::start and miner::stop
  Net, Idle,         \* the thread that handles blocks, and the idle thread
  Bounds             \* every behaviour keeps to one of these combinations of bounds:
                     \* blocks, blocks found, blocks of the network that are handled, calls of start
                     \* and stop, threads of a start, transactions that arrive,
                     \* transactions that are removed

Thread == Worker \cup Caller \cup {Net, Idle}

\* A lock that nobody holds
Free == "free"

ASSUME MiningAssumption ==
  /\ FeeOrder \in Seq(Tx) /\ Range(FeeOrder) = Tx
  /\ \A i, j \in DOMAIN FeeOrder : FeeOrder[i] = FeeOrder[j] => i = j
  /\ Bodies \subseteq Seq(Tx) /\ Capacity \in Nat
  /\ Bounds \subseteq [blocks : Nat \ {0}, finds : Nat, deliveries : Nat, calls : [Caller -> Nat],
                      size : Nat, arrivals : Nat, removals : Nat]
  /\ IsFiniteSet(Worker) /\ Worker \cap Caller = {} /\ Free \notin Caller
  /\ {Net, Idle} \cap (Worker \cup Caller) = {} /\ Net # Idle

VARIABLES
  main,        \* the blocks of the chain
  nextId,      \* identity of the next block
  aliasCache,  \* the database's map of aliases
  pool,        \* m_transactions: tx_details of the transactions in the pool
  template,    \* m_template; no template as long as m_template_no is 0
  mstop,       \* m_stop
  pausers,     \* m_pausers_count
  threads,     \* m_threads
  lock,        \* m_threads_lock: the thread that holds it
  thr,         \* thread -> where it is, and its local variables
  expired,     \* m_timed_out_transactions
  left         \* what is left of the bounds

chainVars == <<main, nextId, aliasCache>>

minerVars == <<template, mstop, pausers, threads, lock>>

vars == <<chainVars, pool, minerVars, thr, expired, left>>

----------------------------------------------------------------------------
(***************************************************************************)
(* The chain and the pool.                                                 *)
(***************************************************************************)
Tip == main[Len(main)]

Mined(c) == UNION {Range(c[i].txs) : i \in DOMAIN c}

ImagesIn(S) == UNION {Images[t] : t \in S}

AliasesIn(S) == {AliasOf[t] : t \in S} \ {NoAlias}

\* check_tx_inputs
InputsOk(c, t) == Deps[t] \subseteq Mined(c) /\ Images[t] \cap ImagesIn(Mined(c)) = {}

\* max_used_block_height
MaxUsed(c, t) ==
  LET used == {i - 1 : i \in {j \in DOMAIN c : Range(c[j].txs) \cap Deps[t] # {}}}
  IN IF used = {} THEN 0 ELSE Max(used)

\* last_failed_height and last_failed_id: null_hash, or whatever was in the memory
\* of a tx_details that add_tx does not initialise; neither is the id of a block.
NeverFailed == [height |-> 0, id |-> 0]

FailedHere(c) == [height |-> Len(c) - 1, id |-> c[Len(c)].id]

FailureOnChain(c, failed) == failed.height < Len(c) /\ c[failed.height + 1].id = failed.id

\* add_tx, once its checks have passed: known is whether max_used_block_id is set.
Details(c, cache, t, kept) ==
  LET ok == InputsOk(c, t) /\ AliasOf[t] \notin cache
  IN [kept |-> kept, known |-> ok, used |-> IF ok THEN MaxUsed(c, t) ELSE 0,
      failed |-> NeverFailed]

\* add_tx, kept_by_block, for transactions that come back or come with a block
Kept(p, c, cache, S) ==
  [t \in DOMAIN p \cup S |-> IF t \in DOMAIN p THEN p[t] ELSE Details(c, cache, t, TRUE)]

Without(p, S) == [t \in DOMAIN p \ S |-> p[t]]

----------------------------------------------------------------------------
(***************************************************************************)
(* tx_memory_pool: is_transaction_ready_to_go and fill_block_template.     *)
(***************************************************************************)
\* What the cached result says, without a look at the inputs
PassedOver(d) ==
  IF d.known THEN d.used >= Len(main) \/ FailureOnChain(main, d.failed)
  ELSE FailureOnChain(main, d.failed)

\* The details after the call
Rechecked(t, d) ==
  IF PassedOver(d) THEN d
  ELSE IF InputsOk(main, t) THEN [d EXCEPT !.known = TRUE, !.used = MaxUsed(main, t)]
  ELSE [d EXCEPT !.used = 0, !.failed = FailedHere(main)]

\* Mutant: a transaction that passed the check before is not checked again.
IsTransactionReadyToGoOnce(t, d) ==
  /\ ~PassedOver(d)
  /\ d.known \/ InputsOk(main, t)
  /\ AliasOf[t] \notin aliasCache

IsTransactionReadyToGo(t, d) ==
  /\ ~PassedOver(d)
  /\ InputsOk(main, t)
  /\ AliasOf[t] \notin aliasCache

\* A transaction that is in the pool and would fit is looked at, and chosen when it
\* is ready and spends no image of one that is chosen already.
LookAt(acc, t) ==
  IF t \notin DOMAIN pool \/ Len(acc.txs) >= Capacity THEN acc
  ELSE IF IsTransactionReadyToGo(t, pool[t]) /\ Images[t] \cap ImagesIn(Range(acc.txs)) = {}
  THEN [txs |-> Append(acc.txs, t), seen |-> acc.seen \cup {t}]
  ELSE [txs |-> acc.txs, seen |-> acc.seen \cup {t}]

\* The transactions chosen, and those that were looked at
FillBlockTemplate ==
  LET pass[i \in 0..Len(FeeOrder)] ==
        IF i = 0 THEN [txs |-> <<>>, seen |-> {}] ELSE LookAt(pass[i - 1], FeeOrder[i])
  IN pass[Len(FeeOrder)]

----------------------------------------------------------------------------
(***************************************************************************)
(* Threads.  prev is the block that a template is built on.                *)
(***************************************************************************)
NoTemplate == [prev |-> 0, txs |-> <<>>]

Resting(pc) == [pc |-> pc, tmpl |-> NoTemplate, b |-> NoTemplate, fresh |-> FALSE, txs |-> <<>>]

Goto(th, pc) == thr' = [thr EXCEPT ![th].pc = pc]

IsMining == ~mstop

\* Where a thread goes on after create_block_template
AfterTemplate(th) ==
  CASE th \in Worker \cup {Net} -> "resume"
    [] th = Idle -> "rest"
    [] th \in Caller -> "launch"

\* The part of create_block_template under the chain's lock
TakeTip(th) ==
  /\ thr[th].pc = "tip"
  /\ thr' = [thr EXCEPT ![th].pc = "fill", ![th].tmpl = [NoTemplate EXCEPT !.prev = Tip.id]]
  /\ UNCHANGED <<chainVars, pool, minerVars, expired, left>>

\* fill_block_template, under the pool's lock
Fill(th) ==
  /\ thr[th].pc = "fill"
  /\ LET f == FillBlockTemplate
     IN /\ thr' = [thr EXCEPT ![th].pc = "set", ![th].tmpl.txs = f.txs]
        /\ pool' = [t \in DOMAIN pool |-> IF t \in f.seen THEN Rechecked(t, pool[t]) ELSE pool[t]]
  /\ UNCHANGED <<chainVars, minerVars, expired, left>>

\* set_block_template; every worker's copy of m_template_no is now an older one.
SetBlockTemplate(th) ==
  /\ thr[th].pc = "set"
  /\ template' = thr[th].tmpl
  /\ thr' = [x \in Thread |->
               IF x = th THEN [thr[x] EXCEPT !.pc = AfterTemplate(x), !.tmpl = NoTemplate, !.fresh = FALSE]
               ELSE [thr[x] EXCEPT !.fresh = FALSE]]
  /\ UNCHANGED <<chainVars, pool, mstop, pausers, threads, lock, expired, left>>

\* Mutant: no resume once mining is stopped.
ResumeMining(th) ==
  /\ thr[th].pc = "resume"
  /\ pausers' = IF IsMining THEN pausers - 1 ELSE pausers
  /\ Goto(th, IF th = Net THEN "rest" ELSE "loop")
  /\ UNCHANGED <<chainVars, pool, template, mstop, threads, lock, expired, left>>

\* miner::resume
Resume(th) ==
  /\ thr[th].pc = "resume"
  /\ pausers' = IF pausers > 0 THEN pausers - 1 ELSE 0
  /\ Goto(th, IF th = Net THEN "rest" ELSE "loop")
  /\ UNCHANGED <<chainVars, pool, template, mstop, threads, lock, expired, left>>

(***************************************************************************)
(* worker_thread.                                                          *)
(***************************************************************************)
\* The head of the loop.  While it sleeps nothing changes.
Loop(w) ==
  /\ thr[w].pc = "loop"
  /\ \/ mstop /\ thr' = [thr EXCEPT ![w] = Resting("dead")]
     \/ /\ ~mstop /\ pausers = 0 /\ ~thr[w].fresh /\ template # NoTemplate
        /\ thr' = [thr EXCEPT ![w].pc = "copied", ![w].b = template]
     \/ ~mstop /\ pausers = 0 /\ thr[w].fresh /\ Goto(w, "hash")
  /\ UNCHANGED <<chainVars, pool, minerVars, expired, left>>

\* m_template_no is read after the lock under which the template was copied.
ReadTemplateNo(w) ==
  /\ thr[w].pc = "copied"
  /\ thr' = [thr EXCEPT ![w].pc = "hash", ![w].fresh = TRUE]
  /\ UNCHANGED <<chainVars, pool, minerVars, expired, left>>

HashFails(w) ==
  /\ thr[w].pc = "hash"
  /\ Goto(w, "loop")
  /\ UNCHANGED <<chainVars, pool, minerVars, expired, left>>

\* A block is found: handle_block_found begins with a pause.
Find(w) ==
  /\ thr[w].pc = "hash" /\ nextId <= left.blocks /\ left.finds > 0
  /\ pausers' = pausers + 1
  /\ left' = [left EXCEPT !.finds = @ - 1]
  /\ Goto(w, "add")
  /\ UNCHANGED <<chainVars, pool, template, mstop, threads, lock, expired>>

(***************************************************************************)
(* add_new_block for a block that was found.                               *)
(***************************************************************************)
Before(txs, i) == Range(SubSeq(txs, 1, i - 1))

CannotTake(txs, i) ==
  txs[i] \in Mined(main) \/ txs[i] \notin DOMAIN pool \/ txs[i] \in Before(txs, i)

BadOnceTaken(txs, i) == ~InputsOk(main, txs[i]) \/ AliasOf[txs[i]] \in aliasCache

\* The database throws
DbRefuses(txs, i) ==
  \/ Images[txs[i]] \cap ImagesIn(Before(txs, i)) # {}
  \/ AliasOf[txs[i]] \in AliasesIn(Before(txs, i))

FirstOf(S) == {i \in S : \A j \in S : i <= j}

Problems(txs) == {i \in DOMAIN txs : CannotTake(txs, i) \/ BadOnceTaken(txs, i)}

DbProblems(txs) == {i \in DOMAIN txs : DbRefuses(txs, i)}

Connects(txs) == Problems(txs) = {} /\ DbProblems(txs) = {}

\* The transactions that were taken from the pool before the block was refused; they
\* go back as kept by a block.
Taken(txs) ==
  IF Problems(txs) = {} THEN Range(txs)
  ELSE UNION {Before(txs, IF CannotTake(txs, i) THEN i ELSE i + 1) : i \in FirstOf(Problems(txs))}

\* The aliases that an aborted transaction of the database leaves in its cache
LeftInCache(txs) ==
  IF Problems(txs) = {} THEN UNION {AliasesIn(Before(txs, i)) : i \in FirstOf(DbProblems(txs))} ELSE {}

NewBlock(id, txs) == [id |-> id, txs |-> txs]

Connect(txs) ==
  /\ main' = Append(main, NewBlock(nextId, txs))
  /\ nextId' = nextId + 1
  /\ pool' = Without(pool, Range(txs))
  /\ aliasCache' = aliasCache \cup AliasesIn(Range(txs))

RefuseFound(txs) ==
  /\ aliasCache' = aliasCache \cup LeftInCache(txs)
  /\ pool' = Kept(Without(pool, Taken(txs)), main, aliasCache', Taken(txs))
  /\ UNCHANGED <<main, nextId>>

\* A block on another block than the tip becomes an alternative one: its chain has
\* no more work than the main chain, which is longer than when the template was made.
AddFound(w) ==
  /\ w \in Worker /\ thr[w].pc = "add"
  /\ LET b == thr[w].b
     IN IF b.prev # Tip.id THEN UNCHANGED <<chainVars, pool>>
        ELSE IF Connects(b.txs) THEN nextId <= left.blocks /\ Connect(b.txs)
        ELSE RefuseFound(b.txs)
  /\ Goto(w, IF IsMining THEN "tip" ELSE "resume")
  /\ UNCHANGED <<minerVars, expired, left>>

(***************************************************************************)
(* Blocks of the network: their transactions are put into the pool first.  *)
(***************************************************************************)
NetBegin ==
  /\ thr[Net].pc = "rest" /\ nextId <= left.blocks /\ left.deliveries > 0
  /\ \E txs \in Bodies :
       /\ pool' = Kept(pool, main, aliasCache, Range(txs) \ Mined(main))
       /\ thr' = [thr EXCEPT ![Net].pc = "add", ![Net].txs = txs]
  /\ pausers' = pausers + 1
  /\ left' = [left EXCEPT !.deliveries = @ - 1]
  /\ UNCHANGED <<chainVars, template, mstop, threads, lock, expired>>

\* Of the handlers of blocks only that of a single new block asks for a template.
NetDone ==
  \E pc \in IF IsMining THEN {"tip", "resume"} ELSE {"resume"} :
    thr' = [thr EXCEPT ![Net].pc = pc, ![Net].txs = <<>>]

\* The block is the next one of the chain
NetBlock ==
  /\ thr[Net].pc = "add" /\ Connects(thr[Net].txs) /\ nextId <= left.blocks
  /\ Connect(thr[Net].txs)
  /\ NetDone
  /\ UNCHANGED <<minerVars, expired, left>>

NetNotAdded == thr' = [thr EXCEPT ![Net].pc = "resume", ![Net].txs = <<>>]

\* The next one, and refused
NetRefused ==
  /\ thr[Net].pc = "add" /\ ~Connects(thr[Net].txs)
  /\ RefuseFound(thr[Net].txs)
  /\ NetNotAdded
  /\ UNCHANGED <<minerVars, expired, left>>

\* An alternative one
NetAlternative ==
  /\ thr[Net].pc = "add"
  /\ NetNotAdded
  /\ UNCHANGED <<chainVars, pool, minerVars, expired, left>>

Popped(c, txs) == Kept(pool, c, aliasCache \ AliasesIn(Range(txs)), Range(txs))

\* It makes the branch of an alternative block the heavier one: the last block is
\* popped and two others are connected, the first one with the new transactions.
NetReorganize ==
  /\ thr[Net].pc = "add" /\ Len(main) > 1 /\ nextId < left.blocks
  /\ LET txs == thr[Net].txs
         c == SubSeq(main, 1, Len(main) - 1)
         p == Popped(c, Tip.txs)
     IN /\ \A i \in DOMAIN txs : txs[i] \in DOMAIN p /\ InputsOk(c, txs[i])
        /\ DbProblems(txs) = {}
        /\ AliasesIn(Range(txs)) \cap (aliasCache \ AliasesIn(Range(Tip.txs))) = {}
        /\ main' = c \o <<NewBlock(nextId, txs), NewBlock(nextId + 1, <<>>)>>
        /\ nextId' = nextId + 2
        /\ pool' = Without(p, Range(txs))
        /\ aliasCache' = (aliasCache \ AliasesIn(Range(Tip.txs))) \cup AliasesIn(Range(txs))
  /\ NetDone
  /\ UNCHANGED <<minerVars, expired, left>>

----------------------------------------------------------------------------
(***************************************************************************)
(* miner::start and miner::stop.                                           *)
(***************************************************************************)
CallStart(c) ==
  /\ thr[c].pc = "rest" /\ left.calls[c] > 0
  /\ Goto(c, "start")
  /\ left' = [left EXCEPT !.calls[c] = @ - 1]
  /\ UNCHANGED <<chainVars, pool, minerVars, expired>>

\* Mutant: threads that were told to stop are not waited for.
StartRefusedMining == IsMining

StartRefused == IsMining \/ threads # {}
\* Mutant: a start that is refused keeps the lock.
StartKept(c) ==
  /\ thr[c].pc = "start" /\ lock = Free
  /\ lock' = c
  /\ Goto(c, IF StartRefused THEN "rest" ELSE IF template = NoTemplate THEN "tip" ELSE "launch")
  /\ UNCHANGED <<chainVars, pool, template, mstop, pausers, threads, expired, left>>

Start(c) ==
  /\ thr[c].pc = "start" /\ lock = Free
  /\ IF StartRefused THEN Goto(c, "rest") /\ UNCHANGED lock
     ELSE /\ lock' = c
          /\ Goto(c, IF template = NoTemplate THEN "tip" ELSE "launch")
  /\ UNCHANGED <<chainVars, pool, template, mstop, pausers, threads, expired, left>>

\* n threads, or as many as there are in the model
NewThreads(n) ==
  LET dead == {w \in Worker : thr[w].pc = "dead"}
  IN CHOOSE S \in SUBSET dead : Cardinality(S) = IF n <= Cardinality(dead) THEN n ELSE Cardinality(dead)

Launch(c) ==
  /\ thr[c].pc = "launch"
  /\ \E n \in 1..left.size :
       LET S == NewThreads(n)
       IN /\ threads' = threads \cup S
          /\ thr' = [x \in Thread |-> IF x \in S THEN Resting("loop")
                                     ELSE IF x = c THEN Resting("rest") ELSE thr[x]]
  /\ mstop' = FALSE /\ lock' = Free
  /\ UNCHANGED <<chainVars, pool, template, pausers, expired, left>>

\* A call when mining has stopped or been told to stop returns at once.
CallStop(c) ==
  /\ thr[c].pc = "rest" /\ left.calls[c] > 0 /\ IsMining
  /\ Goto(c, "signal")
  /\ left' = [left EXCEPT !.calls[c] = @ - 1]
  /\ UNCHANGED <<chainVars, pool, minerVars, expired>>

SendStopSignal(c) ==
  /\ thr[c].pc = "signal"
  /\ mstop' = TRUE
  /\ Goto(c, "stop")
  /\ UNCHANGED <<chainVars, pool, template, pausers, threads, lock, expired, left>>

Stop(c) ==
  /\ thr[c].pc = "stop" /\ lock = Free
  /\ lock' = c /\ Goto(c, "join")
  /\ UNCHANGED <<chainVars, pool, template, mstop, pausers, threads, expired, left>>

Join(c) ==
  /\ thr[c].pc = "join" /\ \A w \in threads : thr[w].pc = "dead"
  /\ threads' = {} /\ lock' = Free
  /\ Goto(c, "rest")
  /\ UNCHANGED <<chainVars, pool, template, mstop, pausers, expired, left>>

----------------------------------------------------------------------------
\* Mutant: on_idle asks for the first template only.
OnIdleFirst ==
  /\ thr[Idle].pc = "rest" /\ IsMining /\ template = NoTemplate
  /\ Goto(Idle, "tip")
  /\ UNCHANGED <<chainVars, pool, minerVars, expired, left>>

\* miner::on_idle
OnIdle ==
  /\ thr[Idle].pc = "rest" /\ IsMining
  /\ Goto(Idle, "tip")
  /\ UNCHANGED <<chainVars, pool, minerVars, expired, left>>

\* add_tx for a transaction that does not come with a block
AddTx(t) ==
  /\ left.arrivals > 0
  /\ t \notin DOMAIN pool \cup Mined(main) \cup expired
  /\ Images[t] \cap ImagesIn(DOMAIN pool) = {}
  /\ AliasOf[t] \notin AliasesIn(DOMAIN pool)
  /\ InputsOk(main, t) /\ AliasOf[t] \notin aliasCache
  /\ pool' = [x \in DOMAIN pool \cup {t} |->
               IF x = t THEN Details(main, aliasCache, t, FALSE) ELSE pool[x]]
  /\ left' = [left EXCEPT !.arrivals = @ - 1]
  /\ UNCHANGED <<chainVars, minerVars, thr, expired>>

\* remove_stuck_transactions
Expire(t) ==
  /\ t \in DOMAIN pool /\ left.removals > 0
  /\ pool' = Without(pool, {t})
  /\ expired' = expired \cup {t}
  /\ left' = [left EXCEPT !.removals = @ - 1]
  /\ UNCHANGED <<chainVars, minerVars, thr>>

Init ==
  /\ main = <<NewBlock(1, <<>>)>> /\ nextId = 2
  /\ aliasCache = {} /\ pool = <<>>
  /\ template = NoTemplate /\ mstop = TRUE /\ pausers = 0 /\ threads = {} /\ lock = Free
  /\ thr = [x \in Thread |-> Resting(IF x \in Worker THEN "dead" ELSE "rest")]
  /\ expired = {} /\ left \in Bounds

\* What a thread does once it has begun
Proceed(th) ==
  \/ TakeTip(th) \/ Fill(th) \/ SetBlockTemplate(th) \/ Resume(th)
  \/ th \in Worker /\ (Loop(th) \/ ReadTemplateNo(th) \/ HashFails(th) \/ AddFound(th))
  \/ th \in Caller /\ (Start(th) \/ Launch(th) \/ SendStopSignal(th) \/ Stop(th) \/ Join(th))
  \/ th = Net /\ (NetBlock \/ NetRefused \/ NetAlternative \/ NetReorganize)
  \/ th = Idle /\ OnIdle

Next ==
  \/ \E th \in Thread : Proceed(th)
  \/ \E w \in Worker : Find(w)
  \/ \E c \in Caller : CallStart(c) \/ CallStop(c)
  \/ NetBegin
  \/ \E t \in Tx : AddTx(t) \/ Expire(t)

Spec == Init /\ [][Next]_vars

\* Every thread goes on; the idle thread comes back to the miner again and again.
\* Blocks, calls and transactions may come or not.
FairSpec == Spec /\ \A th \in Thread : WF_vars(Proceed(th))

----------------------------------------------------------------------------
(***************************************************************************)
(* Properties.                                                             *)
(***************************************************************************)
\* The variables have their types.
TypeOK ==
  /\ DOMAIN pool \subseteq Tx
  /\ DOMAIN pool \cap Mined(main) = {}
  /\ nextId \in 2..(left.blocks + 1) /\ pausers \in Nat /\ mstop \in BOOLEAN
  /\ threads \subseteq Worker /\ lock \in Caller \cup {Free}
  /\ template.prev \in 0..(nextId - 1)
  /\ \A w \in Worker : thr[w].pc = "hash" => thr[w].b # NoTemplate

\* The variables have their types, and in m_pausers_count the pauses and resumes of all
\* handlers balance, so that the workers rest while a block is handled and never longer.
PausersExact ==
  /\ TypeOK
  /\ pausers = Cardinality({w \in Worker : thr[w].pc \in {"add", "tip", "fill", "set", "resume"}})
                 + (IF thr[Net].pc = "rest" THEN 0 ELSE 1)

\* miner::start, miner::stop: threads are started only when those of an earlier start
\* have ended, whatever calls overlap.
NoOverlap ==
  [][(\E w \in Worker : thr[w].pc = "dead" /\ thr'[w].pc # "dead")
       => \A w \in Worker : thr[w].pc = "dead"]_vars

\* "mined block failed verification": a block found on top of the chain is connected,
\* unless a transaction of it has left the pool since the template was made, two
\* transactions of it register the same alias or a block refused for that reason has
\* left an alias of it in the database's map.
MinedVerifies ==
  [][\A w \in Worker :
       LET b == thr[w].b
           S == Range(b.txs)
       IN /\ AddFound(w) /\ b.prev = Tip.id /\ S \subseteq DOMAIN pool
          /\ \A x, y \in S : AliasOf[x] = AliasOf[y] => x = y \/ AliasOf[x] = NoAlias
          /\ AliasesIn(S) \cap aliasCache \subseteq AliasesIn(Mined(main))
          => main' # main]_vars

\* A worker comes to work on the tip of the chain, although m_template_no is read
\* outside of the lock and a template may be set that an older tip is the base of.
WorkerCatchesUp == \A w \in Worker : []<>(thr[w].pc = "dead" \/ thr[w].b.prev = Tip.id)

\* A call of stop returns, if no start comes between its signal and its lock: no worker
\* waits for what the caller holds.
StopReturns ==
  \A c \in Caller : (thr[c].pc \in {"stop", "join"} /\ mstop) ~> (thr[c].pc = "rest" \/ ~mstop)
=============================================================================

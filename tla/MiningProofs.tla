----------------------------- MODULE MiningProofs -----------------------------
(***************************************************************************)
(* Proofs about the miner, for any number of workers and of threads that   *)
(* start and stop it, every set of transactions and all bounds.            *)
(***************************************************************************)
EXTENDS Mining, DataLemmas, FiniteSetTheorems

(***************************************************************************)
(* The inductive invariant.                                                *)
(***************************************************************************)
Templates == [prev : Nat, txs : Seq(Tx)]

BlockRecords == [id : Nat, txs : Seq(Tx)]

Pcs ==
  {"rest", "dead", "loop", "copied", "hash", "add", "tip", "fill", "set", "resume", "start",
   "launch", "signal", "stop", "join"}

Threads == [pc : Pcs, tmpl : Templates, b : Templates, fresh : BOOLEAN, txs : Seq(Tx)]

Limits == [blocks : Nat, finds : Nat, deliveries : Nat, calls : [Caller -> Nat], size : Nat,
           arrivals : Nat, removals : Nat]

Types ==
  /\ main \in Seq(BlockRecords) /\ main # <<>>
  /\ nextId \in Nat /\ nextId > 1 /\ left \in Limits /\ nextId <= left.blocks + 1
  /\ DOMAIN pool \subseteq Tx
  /\ template \in Templates /\ mstop \in BOOLEAN
  /\ threads \subseteq Worker /\ lock \in Caller \cup {Free}
  /\ thr \in [Thread -> Threads]

\* Where a thread of each kind may be.
Busy == {"add", "tip", "fill", "set", "resume"}

Place(x, pc) ==
  /\ x \in Worker => pc \in {"dead", "loop", "copied", "hash"} \cup Busy
  /\ x \in Caller => pc \in {"rest", "start", "tip", "fill", "set", "launch", "signal", "stop", "join"}
  /\ x = Net => pc \in {"rest"} \cup Busy
  /\ x = Idle => pc \in {"rest", "tip", "fill", "set"}

Places == \A x \in Thread : Place(x, thr[x].pc)

\* A start holds the lock from its test of m_threads until it has started threads, and a
\* stop while it waits for them; every thread that runs is one of m_threads.
Starting == {"tip", "fill", "set", "launch"}

Holding == Starting \cup {"join"}

Started ==
  /\ \A c \in Caller : /\ thr[c].pc \in Holding => lock = c
                       /\ thr[c].pc \in Starting => threads = {}
  /\ \A w \in Worker : thr[w].pc # "dead" => w \in threads

\* A worker has a block to hash once its copy of m_template_no is m_template_no.
HasBlock ==
  \A w \in Worker : thr[w].fresh \/ thr[w].pc \in {"copied", "hash"} => thr[w].b # NoTemplate

\* The pauses: those of the workers that handle a block, and that of the network's.
Paused == {w \in Worker : thr[w].pc \in Busy}

Balanced == pausers = Cardinality(Paused) + (IF thr[Net].pc = "rest" THEN 0 ELSE 1)

Control == Places /\ Started /\ HasBlock /\ Balanced

\* No transaction is mined twice, and no alias; the database's map has all of them.
Disjoint(x, y) ==
  /\ Range(x.txs) \cap Range(y.txs) = {}
  /\ AliasesIn(Range(x.txs)) \cap AliasesIn(Range(y.txs)) = {}

ChainOk ==
  /\ \A i \in DOMAIN main : main[i].id \in 1..(nextId - 1)
  /\ \A i, j \in DOMAIN main : i # j => Disjoint(main[i], main[j])
  /\ AliasesIn(Mined(main)) \subseteq aliasCache /\ NoAlias \notin aliasCache
  /\ DOMAIN pool \cap Mined(main) = {}

\* The transactions of a template that is built on the tip: the chain has not changed
\* since they were chosen.
FitsChain(c, txs) ==
  /\ \A i, j \in DOMAIN txs :
       i # j => txs[i] # txs[j] /\ Images[txs[i]] \cap Images[txs[j]] = {}
  /\ \A t \in Range(txs) : /\ InputsOk(c, t) /\ t \notin Mined(c)
                           /\ AliasOf[t] \notin AliasesIn(Mined(c))

Fits(c, id, tm) == tm.prev < id /\ (tm.prev = c[Len(c)].id => FitsChain(c, tm.txs))

TemplatesFit ==
  /\ Fits(main, nextId, template)
  /\ \A x \in Thread : Fits(main, nextId, thr[x].tmpl) /\ Fits(main, nextId, thr[x].b)

IInv == Types /\ Control /\ ChainOk /\ TemplatesFit

----------------------------------------------------------------------------
(***************************************************************************)
(* fill_block_template: induction over the transactions it looks at.       *)
(***************************************************************************)
Passes == [txs : Seq(Tx), seen : SUBSET Tx]

LEMMA LookAtType ==
  ASSUME NEW acc \in Passes, NEW t \in Tx
  PROVE  LookAt(acc, t) \in Passes
<1>1. Append(acc.txs, t) \in Seq(Tx)
  BY DEF Passes
<1> QED BY <1>1 DEF LookAt, Passes

\* One transaction more keeps a template that fits.
LEMMA LookAtFits ==
  ASSUME ChainOk, NEW acc \in Passes, NEW t \in Tx \ Range(acc.txs), FitsChain(main, acc.txs)
  PROVE  FitsChain(main, LookAt(acc, t).txs) /\ Range(LookAt(acc, t).txs) \subseteq Range(acc.txs) \cup {t}
<1> DEFINE s == acc.txs
           d == Append(s, t)
<1>1. CASE LookAt(acc, t).txs = s
  BY <1>1
<1>2. CASE LookAt(acc, t).txs # s
  <2>1. /\ LookAt(acc, t).txs = d /\ t \in DOMAIN pool
        /\ IsTransactionReadyToGo(t, pool[t]) /\ Images[t] \cap ImagesIn(Range(s)) = {}
    BY <1>2 DEF LookAt
  <2>2. InputsOk(main, t) /\ t \notin Mined(main) /\ AliasOf[t] \notin AliasesIn(Mined(main))
    BY <2>1, Zenon DEF IsTransactionReadyToGo, ChainOk
  <2>3. /\ s \in Seq(Tx) /\ Len(s) \in Nat /\ DOMAIN s = 1..Len(s)
        /\ DOMAIN d = 1..(Len(s) + 1) /\ d[Len(s) + 1] = t
        /\ \A i \in 1..Len(s) : d[i] = s[i]
    BY DEF Passes
  <2> HIDE DEF s, d
  <2>4. Range(d) \subseteq Range(s) \cup {t}
    BY <2>3 DEF Range
  <2>5. \A i \in DOMAIN s : s[i] \in Range(s) /\ s[i] # t /\ Images[t] \cap Images[s[i]] = {}
    BY <2>1, Zenon DEF Range, ImagesIn, s
  <2>6. ASSUME NEW i \in DOMAIN d, NEW j \in DOMAIN d, i # j
        PROVE  d[i] # d[j] /\ Images[d[i]] \cap Images[d[j]] = {}
    <3>1. CASE i \in DOMAIN s /\ j \in DOMAIN s
      BY <2>3, <2>6, <3>1, Zenon DEF FitsChain, s
    <3>2. CASE i \in DOMAIN s /\ j = Len(s) + 1
      BY <2>3, <2>5, <3>2
    <3>3. CASE j \in DOMAIN s /\ i = Len(s) + 1
      BY <2>3, <2>5, <3>3
    <3> QED BY <2>3, <2>6, <3>1, <3>2, <3>3
  <2>7. ASSUME NEW u \in Range(d)
        PROVE  InputsOk(main, u) /\ u \notin Mined(main) /\ AliasOf[u] \notin AliasesIn(Mined(main))
    BY <2>2, <2>4, Zenon DEF FitsChain, s
  <2>8. FitsChain(main, d)
    BY <2>6, <2>7, Zenon DEF FitsChain
  <2> QED BY <2>1, <2>4, <2>8 DEF s
<1> QED BY <1>1, <1>2
\* fill_block_template chooses transactions that fit the chain.
LEMMA FillFits ==
  ASSUME ChainOk
  PROVE  FillBlockTemplate.txs \in Seq(Tx) /\ FitsChain(main, FillBlockTemplate.txs)
<1> DEFINE n == Len(FeeOrder)
           start == [txs |-> <<>>, seen |-> {}]
           Is(g) == g = [i \in 0..Len(FeeOrder) |->
                           IF i = 0 THEN [txs |-> <<>>, seen |-> {}]
                           ELSE LookAt(g[i - 1], FeeOrder[i])]
           f == CHOOSE g : Is(g)
<1>1. /\ FeeOrder \in Seq(Tx) /\ n \in Nat /\ DOMAIN FeeOrder = 1..n
      /\ \A i \in 1..n : FeeOrder[i] \in Tx
      /\ \A i, j \in 1..n : FeeOrder[i] = FeeOrder[j] => i = j
  BY MiningAssumption
<1>2. start \in Passes
  BY DEF Passes
<1>3. FillBlockTemplate = f[n]
  BY DEF FillBlockTemplate
<1>4. \E g : Is(g)
  <2> DEFINE succ == [i \in Nat |-> [acc \in Passes |->
                        IF i \in 1..n THEN LookAt(acc, FeeOrder[i]) ELSE acc]]
  <2>1. succ \in [Nat -> [Passes -> Passes]]
    BY <1>1, LookAtType
  <2>2. \A i \in 1..n : \A acc \in Passes : succ[i][acc] = LookAt(acc, FeeOrder[i])
    BY <1>1
  <2> HIDE DEF succ, start, n
  <2>3. Recursive(0, n, Passes, start, succ) # {}
    <3>1. 0 \in Nat /\ n \in Nat /\ 0 <= n
      BY <1>1
    <3> QED BY <1>2, <2>1, <3>1, RecursionOnInterval
  <2>4. PICK g \in [0..n -> Passes] : g[0] = start /\ \A i \in (0 + 1)..n : g[i] = succ[i][g[i - 1]]
    BY <2>3 DEF Recursive
  <2>5. \A i \in 0..n : i # 0 => i \in 1..n /\ i \in (0 + 1)..n /\ i - 1 \in 0..n
    BY <1>1
  <2>6. \A i \in 0..n : g[i] = IF i = 0 THEN start ELSE LookAt(g[i - 1], FeeOrder[i])
    BY <2>2, <2>4, <2>5
  <2>7. g = [i \in 0..n |-> IF i = 0 THEN start ELSE LookAt(g[i - 1], FeeOrder[i])]
    BY <2>4, <2>6
  <2>8. Is(g)
    BY <2>7, Zenon DEF n, start
  <2> QED BY <2>8
<1>5. Is(f)
  <2> HIDE DEF Is
  <2> QED BY <1>4
<1>6. f[0] = start /\ \A i \in 1..n : f[i] = LookAt(f[i - 1], FeeOrder[i])
  <2>1. 0 \in 0..n /\ \A i \in 1..n : i \in 0..n /\ i # 0
    BY <1>1
  <2> HIDE DEF f, n, start
  <2>2. f = [i \in 0..n |-> IF i = 0 THEN start ELSE LookAt(f[i - 1], FeeOrder[i])]
    BY <1>5, Zenon DEF n, start
  <2> HIDE DEF Is
  <2>3. \A i \in 0..n : f[i] = IF i = 0 THEN start ELSE LookAt(f[i - 1], FeeOrder[i])
    BY <2>2, Zenon
  <2> QED BY <2>1, <2>3
<1> HIDE DEF f, start, n, Is
<1> DEFINE Upto(i) == {FeeOrder[j] : j \in 1..i}
           Good(i) == f[i] \in Passes /\ FitsChain(main, f[i].txs) /\ Range(f[i].txs) \subseteq Upto(i)
           S == {i \in 0..n : Good(i)}
<1>7. 0 \in S
  <2>1. f[0].txs = <<>> /\ f[0] \in Passes
    BY <1>2, <1>6 DEF start
  <2>2. DOMAIN f[0].txs = {} /\ Range(f[0].txs) = {}
    BY <2>1 DEF Range
  <2> QED BY <1>1, <2>1, <2>2 DEF FitsChain
<1>8. ASSUME NEW i \in 0..(n - 1), i \in S PROVE i + 1 \in S
  <2>1. /\ i + 1 \in 0..n /\ i + 1 \in 1..n /\ (i + 1) - 1 = i /\ i \in 0..n
        /\ \A j \in 1..i : j \in 1..n /\ j # i + 1
    BY <1>1
  <2>2. f[i + 1] = LookAt(f[i], FeeOrder[i + 1])
    BY <1>6, <2>1
  <2>3. f[i] \in Passes /\ FitsChain(main, f[i].txs) /\ Range(f[i].txs) \subseteq Upto(i)
    BY <1>8
  <2>4. FeeOrder[i + 1] \in Tx \ Upto(i)
    BY <1>1, <2>1
  <2>5. Upto(i) \cup {FeeOrder[i + 1]} \subseteq Upto(i + 1)
    BY <1>1, <2>1
  <2> HIDE DEF Upto
  <2>6. f[i + 1] \in Passes
    BY <2>2, <2>3, <2>4, LookAtType
  <2>7. FitsChain(main, f[i + 1].txs) /\ Range(f[i + 1].txs) \subseteq Range(f[i].txs) \cup {FeeOrder[i + 1]}
    BY <2>2, <2>3, <2>4, LookAtFits, Zenon
  <2> QED BY <2>1, <2>3, <2>5, <2>6, <2>7
<1>9. n \in S
  <2> HIDE DEF S
  <2>1. n \in 0..n
    BY <1>1
  <2> QED BY <1>1, <1>7, <1>8, <2>1, IntervalInduction
<1> QED BY <1>3, <1>9 DEF Passes
----------------------------------------------------------------------------
(***************************************************************************)
(* The chain and the pool.                                                 *)
(***************************************************************************)
LEMMA PoolDomains ==
  ASSUME NEW p, NEW c, NEW cache, NEW S
  PROVE  DOMAIN Kept(p, c, cache, S) = DOMAIN p \cup S /\ DOMAIN Without(p, S) = DOMAIN p \ S
BY DEF Kept, Without

LEMMA MinedAppend ==
  ASSUME NEW c \in Seq(BlockRecords), NEW b \in BlockRecords
  PROVE  Mined(Append(c, b)) = Mined(c) \cup Range(b.txs)
<1>1. DOMAIN Append(c, b) = DOMAIN c \cup {Len(c) + 1}
  OBVIOUS
<1>2. \A h \in DOMAIN c : Append(c, b)[h] = c[h]
  OBVIOUS
<1>3. Append(c, b)[Len(c) + 1] = b
  OBVIOUS
<1> QED BY <1>1, <1>2, <1>3, Zenon DEF Mined

LEMMA BeforeFacts ==
  ASSUME NEW txs \in Seq(Tx), NEW m \in 1..(Len(txs) + 1), NEW u \in Before(txs, m)
  PROVE  \E j \in 1..(m - 1) : u = txs[j]
<1>1. Len(txs) \in Nat /\ m \in Nat /\ m - 1 \in 0..Len(txs) /\ DOMAIN txs = 1..Len(txs)
  OBVIOUS
<1>2. DOMAIN SubSeq(txs, 1, m - 1) = 1..(m - 1) /\ \A j \in 1..(m - 1) : SubSeq(txs, 1, m - 1)[j] = txs[j]
  BY <1>1
<1> QED BY <1>2 DEF Before, Range

\* What handle_block_to_main_chain has taken from the pool when it refuses a block was
\* in the pool.
LEMMA TakenFromPool ==
  ASSUME NEW txs \in Seq(Tx)
  PROVE  Taken(txs) \subseteq DOMAIN pool
<1>1. DOMAIN txs = 1..Len(txs) /\ Len(txs) \in Nat
  OBVIOUS
<1>2. \A i \in DOMAIN txs : ~CannotTake(txs, i) => txs[i] \in DOMAIN pool
  BY DEF CannotTake
<1>3. ASSUME NEW i \in DOMAIN txs, NEW m \in 1..(Len(txs) + 1), NEW u \in Before(txs, m)
      PROVE  \E j \in 1..(m - 1) : u = txs[j]
  BY BeforeFacts, Zenon
<1>4. CASE Problems(txs) = {}
  <2>1. \A i \in DOMAIN txs : txs[i] \in DOMAIN pool
    BY <1>2, <1>4, Zenon DEF Problems
  <2> QED BY <1>4, <2>1 DEF Taken, Range
<1>5. CASE Problems(txs) # {}
  <2> SUFFICES ASSUME NEW i \in FirstOf(Problems(txs)),
                      NEW u \in Before(txs, IF CannotTake(txs, i) THEN i ELSE i + 1)
               PROVE  u \in DOMAIN pool
    BY <1>5, Zenon DEF Taken
  <2>1. i \in DOMAIN txs /\ \A j \in DOMAIN txs : CannotTake(txs, j) => i <= j
    BY Zenon DEF FirstOf, Problems
  <2>2. CASE CannotTake(txs, i)
    <3>1. i \in 1..(Len(txs) + 1) /\ u \in Before(txs, i)
      BY <1>1, <2>1, <2>2
    <3>2. PICK j \in 1..(i - 1) : u = txs[j]
      BY <1>3, <2>1, <3>1
    <3>3. j \in DOMAIN txs /\ ~(i <= j)
      BY <1>1, <2>1
    <3> QED BY <1>2, <2>1, <3>2, <3>3
  <2>3. CASE ~CannotTake(txs, i)
    <3>1. i + 1 \in 1..(Len(txs) + 1) /\ u \in Before(txs, i + 1)
      BY <1>1, <2>1, <2>3
    <3>2. PICK j \in 1..((i + 1) - 1) : u = txs[j]
      BY <1>3, <2>1, <3>1
    <3>3. j \in DOMAIN txs /\ (j = i \/ ~(i <= j))
      BY <1>1, <2>1
    <3> QED BY <1>2, <2>1, <2>3, <3>2, <3>3
  <2> QED BY <2>2, <2>3
<1> QED BY <1>4, <1>5

\* A block that is refused leaves the chain and the pool's transactions, and at most
\* more aliases in the database's map.
LEMMA RefuseStep ==
  ASSUME NEW txs \in Seq(Tx), RefuseFound(txs)
  PROVE  /\ main' = main /\ nextId' = nextId /\ DOMAIN pool' = DOMAIN pool
         /\ aliasCache \subseteq aliasCache'
         /\ NoAlias \notin aliasCache => NoAlias \notin aliasCache'
<1>1. DOMAIN pool' = (DOMAIN pool \ Taken(txs)) \cup Taken(txs)
  <2> DEFINE p == Without(pool, Taken(txs))
  <2>1. pool' = Kept(p, main, aliasCache', Taken(txs))
    BY Zenon DEF RefuseFound
  <2>2. DOMAIN p = DOMAIN pool \ Taken(txs)
    BY PoolDomains, Zenon
  <2> HIDE DEF p
  <2>3. DOMAIN Kept(p, main, aliasCache', Taken(txs)) = DOMAIN p \cup Taken(txs)
    BY DEF Kept
  <2> QED BY <2>1, <2>2, <2>3, Zenon
<1>2. DOMAIN pool' = DOMAIN pool
  BY <1>1, TakenFromPool, Zenon
<1>3. NoAlias \notin LeftInCache(txs)
  BY Zenon DEF LeftInCache, AliasesIn
<1> QED BY <1>2, <1>3 DEF RefuseFound
\* A block that is connected.
LEMMA ConnectStep ==
  ASSUME Types, ChainOk, NEW txs \in Seq(Tx), Connects(txs), Connect(txs)
  PROVE  /\ main' \in Seq(BlockRecords) /\ main' # <<>> /\ main' # main
         /\ nextId' = nextId + 1 /\ Tip'.id = nextId
         /\ DOMAIN pool' \subseteq DOMAIN pool
         /\ ChainOk'
<1> DEFINE b == NewBlock(nextId, txs)
<1>1. /\ main \in Seq(BlockRecords) /\ main # <<>> /\ nextId \in Nat /\ nextId > 1 /\ Len(main) \in Nat
      /\ DOMAIN main = 1..Len(main)
  BY DEF Types, BlockRecords
<1>2. /\ b \in BlockRecords /\ b.id = nextId /\ b.txs = txs /\ main' = Append(main, b)
      /\ nextId' = nextId + 1 /\ aliasCache' = aliasCache \cup AliasesIn(Range(txs))
  BY <1>1 DEF Connect, NewBlock, BlockRecords
<1> HIDE DEF b
<1>3. /\ main' \in Seq(BlockRecords) /\ main' # <<>> /\ Len(main') = Len(main) + 1
      /\ main'[Len(main) + 1] = b /\ \A i \in 1..Len(main) : main'[i] = main[i]
      /\ DOMAIN main' = 1..(Len(main) + 1)
  BY <1>1, <1>2
<1>4. DOMAIN pool' = DOMAIN pool \ Range(txs)
  BY PoolDomains, Zenon DEF Connect
<1>5. Mined(main') = Mined(main) \cup Range(txs)
  BY <1>1, <1>2, MinedAppend
<1>6. \A i \in DOMAIN txs : txs[i] \notin Mined(main) /\ AliasOf[txs[i]] \notin aliasCache
  BY Zenon DEF Connects, Problems, CannotTake, BadOnceTaken
<1>7. Range(txs) \cap Mined(main) = {} /\ AliasesIn(Range(txs)) \cap aliasCache = {}
  BY <1>6, Zenon DEF Range, AliasesIn
<1>8. ASSUME NEW i \in DOMAIN main PROVE Disjoint(main[i], b) /\ Disjoint(b, main[i])
  <2>1. Range(main[i].txs) \subseteq Mined(main)
    BY Zenon DEF Mined
  <2>2. AliasesIn(Range(main[i].txs)) \subseteq AliasesIn(Mined(main))
    BY <2>1, Zenon DEF AliasesIn
  <2> QED BY <1>2, <1>7, <2>1, <2>2, Zenon DEF Disjoint, ChainOk
<1>9. \A i, j \in DOMAIN main' : i # j => Disjoint(main'[i], main'[j])
  <2> SUFFICES ASSUME NEW i \in DOMAIN main', NEW j \in DOMAIN main', i # j
               PROVE  Disjoint(main'[i], main'[j])
    OBVIOUS
  <2>1. CASE i \in DOMAIN main /\ j \in DOMAIN main
    <3>1. main'[i] = main[i] /\ main'[j] = main[j]
      BY <1>1, <1>3, <2>1
    <3> QED BY <2>1, <3>1, Zenon DEF ChainOk
  <2>2. CASE i \in DOMAIN main /\ j = Len(main) + 1
    BY <1>1, <1>3, <1>8, <2>2, Zenon
  <2>3. CASE i = Len(main) + 1 /\ j \in DOMAIN main
    BY <1>1, <1>3, <1>8, <2>3, Zenon
  <2> QED BY <1>1, <1>3, <2>1, <2>2, <2>3
<1>10. \A i \in DOMAIN main' : main'[i].id \in 1..(nextId' - 1)
  <2>1. \A i \in DOMAIN main : main[i].id \in 1..nextId
    BY <1>1 DEF ChainOk
  <2> QED BY <1>1, <1>2, <1>3, <2>1
<1>11. AliasesIn(Mined(main')) \subseteq aliasCache' /\ NoAlias \notin aliasCache'
  BY <1>2, <1>5, Zenon DEF ChainOk, AliasesIn
<1>12. DOMAIN pool' \cap Mined(main') = {}
  BY <1>4, <1>5, Zenon DEF ChainOk
<1>13. ChainOk'
  BY <1>9, <1>10, <1>11, <1>12, Zenon DEF ChainOk, Disjoint, AliasesIn
<1>14. Tip'.id = nextId
  BY <1>2, <1>3 DEF Tip
<1>15. main' # main
  BY <1>1, <1>3
<1> QED BY <1>2, <1>3, <1>4, <1>13, <1>14, <1>15
\* A switch that pops the last block and connects two others.
LEMMA ReorganizeStep ==
  ASSUME Types, ChainOk, NetReorganize
  PROVE  /\ main' \in Seq(BlockRecords) /\ main' # <<>>
         /\ nextId' = nextId + 2 /\ Tip'.id = nextId + 1 /\ nextId < left.blocks
         /\ DOMAIN pool' \subseteq Tx
         /\ ChainOk'
<1> DEFINE txs == thr[Net].txs
           m == Len(main) - 1
           c == SubSeq(main, 1, m)
           last == Range(Tip.txs)
           x == NewBlock(nextId, txs)
           y == NewBlock(nextId + 1, <<>>)
<1>1. /\ main \in Seq(BlockRecords) /\ nextId \in Nat /\ nextId > 1 /\ m \in Nat \ {0}
      /\ DOMAIN main = 1..(m + 1) /\ Tip = main[m + 1] /\ Tip \in BlockRecords /\ txs \in Seq(Tx)
  <2>1. main \in Seq(BlockRecords) /\ Len(main) > 1 /\ nextId \in Nat /\ nextId > 1
    BY Zenon DEF Types, BlockRecords, NetReorganize
  <2>2. txs \in Seq(Tx)
    BY DEF Types, Thread, Threads
  <2> QED BY <2>1, <2>2 DEF Tip
<1>2. /\ x \in BlockRecords /\ x.id = nextId /\ x.txs = txs
      /\ y \in BlockRecords /\ y.id = nextId + 1 /\ y.txs = <<>>
  BY <1>1 DEF NewBlock, BlockRecords
<1>3. /\ main' = c \o <<x, y>> /\ nextId' = nextId + 2 /\ nextId < left.blocks
      /\ pool' = Without(Popped(c, Tip.txs), Range(txs))
      /\ aliasCache' = (aliasCache \ AliasesIn(last)) \cup AliasesIn(Range(txs))
      /\ \A i \in DOMAIN txs : txs[i] \in DOMAIN Popped(c, Tip.txs)
      /\ AliasesIn(Range(txs)) \cap (aliasCache \ AliasesIn(last)) = {}
  BY DEF NetReorganize
<1> HIDE DEF txs, x, y
<1>4. c \in Seq(BlockRecords) /\ Len(c) = m /\ DOMAIN c = 1..m /\ \A i \in 1..m : c[i] = main[i]
  BY <1>1
<1> HIDE DEF c, m
<1>5. /\ main' \in Seq(BlockRecords) /\ main' # <<>> /\ Len(main') = m + 2 /\ DOMAIN main' = 1..(m + 2)
      /\ main'[m + 1] = x /\ main'[m + 2] = y /\ \A i \in 1..m : main'[i] = main[i]
  BY <1>1, <1>2, <1>3, <1>4
<1>6. DOMAIN Popped(c, Tip.txs) = DOMAIN pool \cup last
  BY DEF Popped, Kept
<1>7. DOMAIN pool' = (DOMAIN pool \cup last) \ Range(txs)
  BY <1>3, <1>6 DEF Without
<1>8. Range(txs) \subseteq DOMAIN pool \cup last
  BY <1>3, <1>6 DEF Range
\* What is mined below the block that is popped is in no pool and in no other block.
<1>9. ASSUME NEW i \in 1..m
      PROVE  /\ Range(main[i].txs) \cap (DOMAIN pool \cup last) = {}
             /\ AliasesIn(Range(main[i].txs)) \subseteq aliasCache \ AliasesIn(last)
  <2>1. i \in DOMAIN main /\ m + 1 \in DOMAIN main /\ i # m + 1
    BY <1>1
  <2>2. Disjoint(main[i], main[m + 1])
    BY <2>1, Zenon DEF ChainOk
  <2>3. Range(main[i].txs) \subseteq Mined(main)
    BY <2>1, Zenon DEF Mined
  <2>4. AliasesIn(Range(main[i].txs)) \subseteq AliasesIn(Mined(main))
    BY <2>3, Zenon DEF AliasesIn
  <2> QED BY <1>1, <2>2, <2>3, <2>4, Zenon DEF Disjoint, ChainOk
<1>10. ASSUME NEW i \in 1..m PROVE Disjoint(main[i], x) /\ Disjoint(x, main[i])
  BY <1>2, <1>3, <1>8, <1>9, Zenon DEF Disjoint
<1>11. \A z : Disjoint(z, y) /\ Disjoint(y, z)
  <2>1. Range(y.txs) = {}
    BY <1>2 DEF Range
  <2>2. AliasesIn(Range(y.txs)) = {}
    BY <2>1, Zenon DEF AliasesIn
  <2> QED BY <2>1, <2>2, Zenon DEF Disjoint
<1>12. \A i, j \in DOMAIN main' : i # j => Disjoint(main'[i], main'[j])
  <2> SUFFICES ASSUME NEW i \in DOMAIN main', NEW j \in DOMAIN main', i # j
               PROVE  Disjoint(main'[i], main'[j])
    OBVIOUS
  <2>1. CASE i \in 1..m /\ j \in 1..m
    <3>1. main'[i] = main[i] /\ main'[j] = main[j] /\ i \in DOMAIN main /\ j \in DOMAIN main
      BY <1>1, <1>5, <2>1
    <3> QED BY <3>1, Zenon DEF ChainOk
  <2>2. CASE i \in 1..m /\ j = m + 1
    BY <1>5, <1>10, <2>2, Zenon
  <2>3. CASE i = m + 1 /\ j \in 1..m
    BY <1>5, <1>10, <2>3, Zenon
  <2>4. CASE i = m + 2 \/ j = m + 2
    BY <1>5, <1>11, <2>4, Zenon
  <2> QED BY <1>1, <1>5, <2>1, <2>2, <2>3, <2>4
<1>13. \A i \in DOMAIN main' : main'[i].id \in 1..(nextId' - 1)
  <2>1. \A i \in 1..m : main[i].id \in 1..(nextId - 1)
    <3>1. \A i \in 1..m : i \in DOMAIN main
      BY <1>1
    <3> QED BY <3>1, Zenon DEF ChainOk
  <2>2. ASSUME NEW i \in 1..(m + 2) PROVE main'[i].id \in 1..(nextId + 1)
    <3>1. i \in 1..m \/ i = m + 1 \/ i = m + 2
      BY <1>1
    <3>2. CASE i \in 1..m
      <4>1. main'[i].id \in 1..(nextId - 1)
        BY <1>5, <2>1, <3>2, Zenon
      <4> QED BY <1>1, <4>1
    <3> QED BY <1>1, <1>2, <1>5, <3>1, <3>2
  <2> QED BY <1>1, <1>3, <1>5, <2>2
<1>14. ASSUME NEW u \in Mined(main')
       PROVE  u \notin DOMAIN pool' /\ (AliasOf[u] = NoAlias \/ AliasOf[u] \in aliasCache')
  <2>1. PICK i \in 1..(m + 2) : u \in Range(main'[i].txs)
    BY <1>5, Zenon DEF Mined
  <2>2. CASE i \in 1..m
    <3>1. u \in Range(main[i].txs)
      BY <1>5, <2>1, <2>2, Zenon
    <3>2. u \notin DOMAIN pool \cup last
      BY <1>9, <2>2, <3>1, Zenon
    <3>3. AliasOf[u] = NoAlias \/ AliasOf[u] \in AliasesIn(Range(main[i].txs))
      BY <3>1, Zenon DEF AliasesIn
    <3> QED BY <1>3, <1>7, <1>9, <2>2, <3>2, <3>3, Zenon
  <2>3. CASE i = m + 1
    <3>1. u \in Range(txs)
      BY <1>2, <1>5, <2>1, <2>3, Zenon
    <3>2. AliasOf[u] = NoAlias \/ AliasOf[u] \in AliasesIn(Range(txs))
      BY <3>1, Zenon DEF AliasesIn
    <3> QED BY <1>3, <1>7, <3>1, <3>2, Zenon
  <2>4. CASE i = m + 2
    BY <1>2, <1>5, <2>1, <2>4 DEF Range
  <2> QED BY <1>1, <2>2, <2>3, <2>4
<1>15. AliasesIn(Mined(main')) \subseteq aliasCache' /\ NoAlias \notin aliasCache'
  <2>1. NoAlias \notin aliasCache /\ NoAlias \notin AliasesIn(Range(txs))
    BY Zenon DEF ChainOk, AliasesIn
  <2> QED BY <1>3, <1>14, <2>1, Zenon DEF AliasesIn
<1>16. DOMAIN pool' \cap Mined(main') = {}
  BY <1>14, Zenon
<1>17. ChainOk'
  BY <1>12, <1>13, <1>15, <1>16, Zenon DEF ChainOk, Disjoint, AliasesIn
<1>18. Tip'.id = nextId + 1
  BY <1>1, <1>2, <1>5 DEF Tip
<1>19. last \subseteq Tx
  BY <1>1 DEF BlockRecords, Range
<1>20. DOMAIN pool' \subseteq Tx
  BY <1>7, <1>19, Zenon DEF Types
<1> QED BY <1>3, <1>5, <1>17, <1>18, <1>20, Zenon
----------------------------------------------------------------------------
(***************************************************************************)
(* The chain in a step.                                                    *)
(***************************************************************************)
\* The chain is left alone, or it gets a tip that no template is built on.
ChainMoves ==
  \/ main' = main /\ nextId' = nextId
  \/ nextId' \in Nat /\ nextId' > nextId /\ main'[Len(main')].id >= nextId

ChainTypes ==
  /\ main' \in Seq(BlockRecords) /\ main' # <<>> /\ nextId' \in Nat /\ nextId' > 1
  /\ nextId' <= left.blocks + 1 /\ DOMAIN pool' \subseteq Tx

ChainKept == ChainMoves /\ ChainTypes /\ ChainOk'

\* Only the pool changes, and not by a transaction of the chain, or nothing does.
LEMMA PoolStep ==
  ASSUME Types, ChainOk, main' = main, nextId' = nextId,
         DOMAIN pool' \subseteq DOMAIN pool \cup (Tx \ Mined(main)),
         aliasCache \subseteq aliasCache', NoAlias \notin aliasCache'
  PROVE  ChainKept
<1>1. ChainMoves
  BY DEF ChainMoves
<1>2. ChainTypes
  BY DEF ChainTypes, Types
<1>3. \A i \in DOMAIN main' : main'[i].id \in 1..(nextId' - 1)
  BY Zenon DEF ChainOk
<1>4. \A i, j \in DOMAIN main' : i # j => Disjoint(main'[i], main'[j])
  BY Zenon DEF ChainOk
<1>5. AliasesIn(Mined(main')) \subseteq aliasCache' /\ DOMAIN pool' \cap Mined(main') = {}
  <2>1. Mined(main') = Mined(main)
    BY Zenon
  <2> QED BY <2>1, Zenon DEF ChainOk
<1>6. ChainOk'
  BY <1>3, <1>4, <1>5, Zenon DEF ChainOk, Disjoint, AliasesIn
<1> QED BY <1>1, <1>2, <1>6 DEF ChainKept

LEMMA SameChain ==
  ASSUME Types, ChainOk, UNCHANGED <<chainVars, pool>>
  PROVE  ChainKept
<1>1. main' = main /\ nextId' = nextId /\ aliasCache' = aliasCache /\ pool' = pool
  BY DEF chainVars
<1> QED BY <1>1, PoolStep, Zenon DEF ChainOk

LEMMA ConnectKeeps ==
  ASSUME Types, ChainOk, NEW txs \in Seq(Tx), Connects(txs), Connect(txs), nextId <= left.blocks
  PROVE  ChainKept
<1>1. /\ main' \in Seq(BlockRecords) /\ main' # <<>> /\ nextId' = nextId + 1
      /\ Tip'.id = nextId /\ DOMAIN pool' \subseteq DOMAIN pool /\ ChainOk'
  BY ConnectStep, Zenon
<1>2. nextId \in Nat /\ nextId > 1 /\ left.blocks \in Nat /\ DOMAIN pool \subseteq Tx
  BY DEF Types, Limits
<1>3. main'[Len(main')].id = nextId
  BY <1>1 DEF Tip
<1>4. ChainMoves
  BY <1>1, <1>2, <1>3 DEF ChainMoves
<1>5. ChainTypes
  BY <1>1, <1>2 DEF ChainTypes
<1> QED BY <1>1, <1>4, <1>5 DEF ChainKept

LEMMA RefuseKeeps ==
  ASSUME Types, ChainOk, NEW txs \in Seq(Tx), RefuseFound(txs)
  PROVE  ChainKept
<1>1. NoAlias \notin aliasCache'
  BY RefuseStep, Zenon DEF ChainOk
<1>2. DOMAIN pool' = DOMAIN pool
  BY RefuseStep, Zenon
<1> QED BY <1>1, <1>2, RefuseStep, PoolStep, Zenon

\* The actions that change the chain or the pool.
LEMMA AddFoundChain ==
  ASSUME Types, ChainOk, NEW w \in Worker, AddFound(w)
  PROVE  ChainKept
<1> DEFINE b == thr[w].b
<1>1. b.txs \in Seq(Tx)
  BY DEF Types, Thread, Threads, Templates
<1>2. CASE UNCHANGED <<chainVars, pool>>
  BY <1>2, SameChain
<1>3. CASE Connects(b.txs) /\ nextId <= left.blocks /\ Connect(b.txs)
  BY <1>1, <1>3, ConnectKeeps, Zenon
<1>4. CASE RefuseFound(b.txs)
  BY <1>1, <1>4, RefuseKeeps, Zenon
<1> QED BY <1>2, <1>3, <1>4, Zenon DEF AddFound

LEMMA NetChain ==
  ASSUME Types, ChainOk, NetBlock \/ NetRefused \/ NetAlternative \/ NetReorganize
  PROVE  ChainKept
<1> DEFINE txs == thr[Net].txs
<1>1. txs \in Seq(Tx)
  BY DEF Types, Thread, Threads
<1>2. CASE NetBlock
  BY <1>1, <1>2, ConnectKeeps, Zenon DEF NetBlock
<1>3. CASE NetRefused
  BY <1>1, <1>3, RefuseKeeps, Zenon DEF NetRefused
<1>4. CASE NetAlternative
  <2>1. UNCHANGED <<chainVars, pool>>
    BY <1>4, Zenon DEF NetAlternative
  <2> QED BY <2>1, SameChain
<1>5. CASE NetReorganize
  <2>1. /\ main' \in Seq(BlockRecords) /\ main' # <<>> /\ nextId' = nextId + 2
        /\ Tip'.id = nextId + 1 /\ nextId < left.blocks /\ DOMAIN pool' \subseteq Tx /\ ChainOk'
    BY <1>5, ReorganizeStep, Zenon
  <2>2. nextId \in Nat /\ nextId > 1 /\ left.blocks \in Nat
    BY DEF Types, Limits
  <2>3. main'[Len(main')].id = nextId + 1
    BY <2>1 DEF Tip
  <2>4. ChainMoves
    BY <2>1, <2>2, <2>3 DEF ChainMoves
  <2>5. ChainTypes
    BY <2>1, <2>2 DEF ChainTypes
  <2> QED BY <2>1, <2>4, <2>5 DEF ChainKept
<1> QED BY <1>2, <1>3, <1>4, <1>5
LEMMA PoolChain ==
  ASSUME Types, ChainOk, NetBegin \/ (\E x \in Thread : Fill(x)) \/ \E t \in Tx : AddTx(t) \/ Expire(t)
  PROVE  ChainKept
<1>1. main' = main /\ nextId' = nextId /\ aliasCache' = aliasCache
  BY Zenon DEF NetBegin, Fill, AddTx, Expire, chainVars
<1>2. DOMAIN pool' \subseteq DOMAIN pool \cup (Tx \ Mined(main))
  <2>1. CASE NetBegin
    <3>1. PICK txs \in Bodies : pool' = Kept(pool, main, aliasCache, Range(txs) \ Mined(main))
      BY <2>1, Zenon DEF NetBegin
    <3>2. Range(txs) \subseteq Tx
      BY MiningAssumption DEF Range
    <3> QED BY <3>1, <3>2 DEF Kept
  <2>2. CASE \E x \in Thread : Fill(x)
    <3>1. DOMAIN pool' = DOMAIN pool
      BY <2>2 DEF Fill
    <3> QED BY <3>1
  <2>3. ASSUME NEW t \in Tx, AddTx(t) PROVE DOMAIN pool' \subseteq DOMAIN pool \cup (Tx \ Mined(main))
    BY <2>3 DEF AddTx
  <2>4. ASSUME NEW t \in Tx, Expire(t) PROVE DOMAIN pool' \subseteq DOMAIN pool \cup (Tx \ Mined(main))
    BY <2>4 DEF Expire, Without
  <2> QED BY <2>1, <2>2, <2>3, <2>4
<1> QED BY <1>1, <1>2, PoolStep, Zenon DEF ChainOk

\* In every step: what the chain, the pool and the map of aliases promise is kept.
LEMMA ChainInv ==
  ASSUME Types, ChainOk, Next
  PROVE  ChainKept
<1>1. ASSUME NEW x \in Thread, Proceed(x) PROVE ChainKept
  <2>1. CASE Fill(x)
    BY <2>1, PoolChain, Zenon
  <2>2. CASE x \in Worker /\ AddFound(x)
    BY <2>2, AddFoundChain, Zenon
  <2>3. CASE NetBlock \/ NetRefused \/ NetAlternative \/ NetReorganize
    BY <2>3, NetChain, Zenon
  <2>4. CASE TakeTip(x) \/ SetBlockTemplate(x) \/ Resume(x)
    BY <2>4, SameChain, Zenon DEF TakeTip, SetBlockTemplate, Resume
  <2>5. CASE Loop(x) \/ ReadTemplateNo(x) \/ HashFails(x)
    BY <2>5, SameChain, Zenon DEF Loop, ReadTemplateNo, HashFails
  <2>6. CASE Start(x) \/ Launch(x) \/ SendStopSignal(x) \/ Stop(x) \/ Join(x)
    BY <2>6, SameChain, Zenon DEF Start, Launch, SendStopSignal, Stop, Join
  <2>7. CASE OnIdle
    BY <2>7, SameChain, Zenon DEF OnIdle
  <2> QED BY <1>1, <2>1, <2>2, <2>3, <2>4, <2>5, <2>6, <2>7, Zenon DEF Proceed
<1>2. ASSUME NEW w \in Worker, Find(w) PROVE ChainKept
  BY <1>2, SameChain, Zenon DEF Find
<1>3. ASSUME NEW c \in Caller, CallStart(c) \/ CallStop(c) PROVE ChainKept
  BY <1>3, SameChain, Zenon DEF CallStart, CallStop
<1>4. CASE NetBegin \/ \E t \in Tx : AddTx(t) \/ Expire(t)
  BY <1>4, PoolChain, Zenon
<1> QED BY <1>1, <1>2, <1>3, <1>4, Zenon DEF Next

----------------------------------------------------------------------------
(***************************************************************************)
(* The templates in a step.                                                *)
(***************************************************************************)
\* A template that fits still does: no template is built on a tip that is new.
LEMMA FitsKept ==
  ASSUME Types, ChainKept, NEW tm \in Templates, Fits(main, nextId, tm)
  PROVE  Fits(main', nextId', tm)
<1>1. nextId \in Nat /\ tm.prev \in Nat /\ tm.prev < nextId
  BY DEF Types, Templates, Fits
<1>2. CASE main' = main /\ nextId' = nextId
  BY <1>2, Zenon
<1>3. CASE nextId' \in Nat /\ nextId' > nextId /\ main'[Len(main')].id >= nextId
  <2>1. main'[Len(main')] \in BlockRecords
    BY DEF ChainKept, ChainTypes
  <2>2. main'[Len(main')].id \in Nat
    BY <2>1 DEF BlockRecords
  <2>3. tm.prev < nextId' /\ tm.prev # main'[Len(main')].id
    BY <1>1, <1>3, <2>2
  <2> QED BY <2>3, Zenon DEF Fits
<1> QED BY <1>2, <1>3 DEF ChainKept, ChainMoves

\* No template, one that has no transactions yet, and what fill_block_template makes of it
LEMMA NewTemplates ==
  ASSUME Types, ChainOk
  PROVE  /\ NoTemplate \in Templates /\ Fits(main, nextId, NoTemplate)
         /\ \A tm \in Templates :
              /\ [NoTemplate EXCEPT !.prev = Tip.id] \in Templates
              /\ Fits(main, nextId, [NoTemplate EXCEPT !.prev = Tip.id])
              /\ [tm EXCEPT !.txs = FillBlockTemplate.txs] \in Templates
              /\ Fits(main, nextId, tm) => Fits(main, nextId, [tm EXCEPT !.txs = FillBlockTemplate.txs])
<1>1. nextId \in Nat /\ nextId > 1 /\ Len(main) \in DOMAIN main /\ Tip = main[Len(main)]
  BY DEF Types, Tip
<1>2. Tip.id \in 1..(nextId - 1)
  BY <1>1, Zenon DEF ChainOk
<1>3. NoTemplate \in Templates /\ NoTemplate.prev = 0 /\ NoTemplate.txs = <<>>
  BY DEF NoTemplate, Templates
<1>4. Fits(main, nextId, NoTemplate)
  BY <1>1, <1>2, <1>3 DEF Fits
<1>5. FitsChain(main, <<>>)
  BY DEF FitsChain, Range
<1> DEFINE t0 == [NoTemplate EXCEPT !.prev = Tip.id]
<1>6. t0 \in Templates /\ t0.prev = Tip.id /\ t0.txs = <<>>
  BY <1>1, <1>2, <1>3 DEF Templates
<1> HIDE DEF t0
<1>7. Fits(main, nextId, t0)
  BY <1>1, <1>2, <1>5, <1>6 DEF Fits
<1>8. FillBlockTemplate.txs \in Seq(Tx) /\ FitsChain(main, FillBlockTemplate.txs)
  BY FillFits
<1>9. ASSUME NEW tm \in Templates
      PROVE  /\ [tm EXCEPT !.txs = FillBlockTemplate.txs] \in Templates
             /\ [tm EXCEPT !.txs = FillBlockTemplate.txs].prev = tm.prev
             /\ [tm EXCEPT !.txs = FillBlockTemplate.txs].txs = FillBlockTemplate.txs
  BY <1>8 DEF Templates
<1>10. ASSUME NEW tm \in Templates, Fits(main, nextId, tm)
       PROVE  Fits(main, nextId, [tm EXCEPT !.txs = FillBlockTemplate.txs])
  BY <1>8, <1>9, <1>10, Zenon DEF Fits
<1> QED BY <1>3, <1>4, <1>6, <1>7, <1>9, <1>10, Zenon DEF t0
----------------------------------------------------------------------------
(***************************************************************************)
(* A step of one thread.                                                   *)
(***************************************************************************)
LEMMA Kinds ==
  /\ \A w \in Worker : w \in Thread /\ w \notin Caller /\ w # Net /\ w # Idle
  /\ \A c \in Caller : c \in Thread /\ c \notin Worker /\ c # Net /\ c # Idle /\ c # Free
  /\ Net \in Thread /\ Net \notin Worker /\ Net \notin Caller /\ Net # Idle
  /\ Idle \in Thread /\ Idle \notin Worker /\ Idle \notin Caller
BY MiningAssumption, Zenon DEF Thread

LEMMA PausedFinite == IsFiniteSet(Paused) /\ Cardinality(Paused) \in Nat
<1>1. Paused \in SUBSET Worker /\ IsFiniteSet(Worker)
  BY MiningAssumption, Zenon DEF Paused
<1>2. IsFiniteSet(Paused)
  BY <1>1, FS_Subset, Zenon
<1> QED BY <1>2, FS_CardinalityType, Zenon

\* The pauses of a thread that is at pc.
Pauses(x, pc) == IF (x \in Worker /\ pc \in Busy) \/ (x = Net /\ pc # "rest") THEN 1 ELSE 0

LEMMA BalancedStep ==
  ASSUME Balanced, NEW th \in Thread, \A x \in Thread \ {th} : thr'[x].pc = thr[x].pc,
         pausers' = (pausers - Pauses(th, thr[th].pc)) + Pauses(th, thr'[th].pc)
  PROVE  Balanced'
<1> DEFINE n == IF thr[Net].pc = "rest" THEN 0 ELSE 1
           k == Cardinality(Paused)
           p == Pauses(th, thr[th].pc)
           q == Pauses(th, thr'[th].pc)
<1>1. pausers = k + n /\ k \in Nat /\ n \in {0, 1} /\ p \in {0, 1} /\ q \in {0, 1}
  BY PausedFinite DEF Balanced, Pauses
<1>2. CASE th \in Worker
  <2>1. thr'[Net].pc = thr[Net].pc
    BY <1>2, Kinds, Zenon
  <2>2. p = (IF th \in Paused THEN 1 ELSE 0) /\ q = (IF thr'[th].pc \in Busy THEN 1 ELSE 0)
    <3>1. th # Net
      BY <1>2, Kinds, Zenon
    <3>2. th \in Paused <=> thr[th].pc \in Busy
      BY <1>2, Zenon DEF Paused
    <3>3. p = IF thr[th].pc \in Busy THEN 1 ELSE 0
      BY <1>2, <3>1 DEF Pauses
    <3>4. q = IF thr'[th].pc \in Busy THEN 1 ELSE 0
      BY <1>2, <3>1 DEF Pauses
    <3> HIDE DEF p, q
    <3> QED BY <3>2, <3>3, <3>4
  <2>3. CASE thr'[th].pc \in Busy
    <3>1. Paused' = Paused \cup {th}
      BY <1>2, <2>3, Kinds, Zenon DEF Paused, Busy
    <3>2. Cardinality(Paused') = IF th \in Paused THEN k ELSE k + 1
      BY <3>1, PausedFinite, FS_AddElement, Zenon
    <3> QED BY <1>1, <2>1, <2>2, <2>3, <3>2 DEF Balanced
  <2>4. CASE thr'[th].pc \notin Busy
    <3>1. Paused' = Paused \ {th}
      BY <1>2, <2>4, Kinds, Zenon DEF Paused, Busy
    <3>2. Cardinality(Paused') = IF th \in Paused THEN k - 1 ELSE k
      BY <3>1, PausedFinite, FS_RemoveElement, Zenon
    <3> QED BY <1>1, <2>1, <2>2, <2>4, <3>2 DEF Balanced
  <2> QED BY <2>3, <2>4
<1>3. CASE th \notin Worker
  <2>1. Paused' = Paused
    BY <1>3, Kinds, Zenon DEF Paused, Busy
  <2>2. CASE th = Net
    <3>1. p = n /\ q = (IF thr'[Net].pc = "rest" THEN 0 ELSE 1)
      BY <1>3, <2>2 DEF Pauses
    <3> QED BY <1>1, <2>1, <3>1 DEF Balanced
  <2>3. CASE th # Net
    <3>1. p = 0 /\ q = 0 /\ thr'[Net].pc = thr[Net].pc
      BY <1>3, <2>3, Kinds DEF Pauses
    <3> QED BY <1>1, <2>1, <3>1 DEF Balanced
  <2> QED BY <2>2, <2>3
<1> QED BY <1>2, <1>3

\* Thread th goes on; of the others at most the copies of m_template_no get old.
ThreadStep(th) ==
  /\ thr' \in [Thread -> Threads] /\ template' \in Templates /\ Fits(main, nextId, template')
  /\ \A x \in Thread \ {th} : /\ thr'[x].pc = thr[x].pc /\ thr'[x].b = thr[x].b
                               /\ thr'[x].tmpl = thr[x].tmpl /\ (thr'[x].fresh => thr[x].fresh)
  /\ Place(th, thr'[th].pc)
  /\ th \in Worker /\ (thr'[th].fresh \/ thr'[th].pc \in {"copied", "hash"}) => thr'[th].b # NoTemplate
  /\ Fits(main, nextId, thr'[th].tmpl) /\ Fits(main, nextId, thr'[th].b)
  /\ pausers' = (pausers - Pauses(th, thr[th].pc)) + Pauses(th, thr'[th].pc)

\* What it does with the lock and m_threads agrees with where the others are.
LockStep(th) ==
  /\ lock' \in Caller \cup {Free} /\ threads' \subseteq Worker
  /\ th \in Caller /\ thr'[th].pc \in Holding => lock' = th
  /\ th \in Caller /\ thr'[th].pc \in Starting => threads' = {}
  /\ th \in Worker /\ thr'[th].pc # "dead" => th \in threads'
  /\ \A c \in Caller \ {th} : thr[c].pc \in Holding => lock' = lock /\ threads' = threads
  /\ \A w \in Worker \ {th} : thr[w].pc # "dead" => threads' = threads

LimitsKept == left' \in Limits /\ left'.blocks = left.blocks /\ mstop' \in BOOLEAN

LEMMA ControlStep ==
  ASSUME Control, NEW th \in Thread, ThreadStep(th), LockStep(th)
  PROVE  Control'
<1>1. Places'
  BY Zenon DEF Control, Places, Place, ThreadStep, Busy
<1>2. Started'
  <2>1. ASSUME NEW c \in Caller
        PROVE  (thr'[c].pc \in Holding => lock' = c) /\ (thr'[c].pc \in Starting => threads' = {})
    <3>1. CASE c = th
      BY <3>1, Zenon DEF LockStep
    <3>2. CASE c # th
      <4>1. thr'[c].pc = thr[c].pc
        BY <3>2, Kinds, Zenon DEF ThreadStep
      <4> QED BY <3>2, <4>1, Zenon DEF LockStep, Control, Started, Holding
    <3> QED BY <3>1, <3>2
  <2>2. ASSUME NEW w \in Worker, thr'[w].pc # "dead" PROVE w \in threads'
    BY <2>2, Kinds, Zenon DEF ThreadStep, LockStep, Control, Started
  <2> QED BY <2>1, <2>2, Zenon DEF Started, Holding, Starting
<1>3. HasBlock'
  <2> SUFFICES ASSUME NEW w \in Worker, thr'[w].fresh \/ thr'[w].pc \in {"copied", "hash"}
               PROVE  thr'[w].b # NoTemplate
    BY Zenon DEF HasBlock, NoTemplate
  <2> QED BY Kinds, Zenon DEF ThreadStep, Control, HasBlock
<1>4. Balanced'
  BY BalancedStep, Zenon DEF ThreadStep, Control
<1> QED BY <1>1, <1>2, <1>3, <1>4 DEF Control

LEMMA InvStep ==
  ASSUME IInv, NEW th \in Thread, ThreadStep(th), LockStep(th), LimitsKept, ChainKept
  PROVE  IInv'
<1>1. Types'
  BY Zenon DEF Types, ThreadStep, LockStep, LimitsKept, ChainKept, ChainTypes
<1>2. Control'
  BY ControlStep DEF IInv
<1>3. TemplatesFit'
  <2>1. Types
    BY DEF IInv
  <2>2. ASSUME NEW x \in Thread
        PROVE  Fits(main, nextId, thr'[x].tmpl) /\ Fits(main, nextId, thr'[x].b)
    BY Zenon DEF ThreadStep, IInv, TemplatesFit
  <2>3. ASSUME NEW x \in Thread PROVE thr'[x].tmpl \in Templates /\ thr'[x].b \in Templates
    BY DEF ThreadStep, Threads
  <2>4. ASSUME NEW x \in Thread
        PROVE  Fits(main', nextId', thr'[x].tmpl) /\ Fits(main', nextId', thr'[x].b)
    BY <2>1, <2>2, <2>3, FitsKept, Zenon
  <2>5. Fits(main', nextId', template')
    BY <2>1, FitsKept, Zenon DEF ThreadStep
  <2> QED BY <2>4, <2>5, Zenon DEF TemplatesFit
<1> QED BY <1>1, <1>2, <1>3 DEF IInv, ChainKept
LEMMA PauserType ==
  ASSUME IInv
  PROVE  pausers \in Nat /\ \A x \in Thread : Pauses(x, thr[x].pc) = 1 => pausers > 0
<1> DEFINE n == IF thr[Net].pc = "rest" THEN 0 ELSE 1
           k == Cardinality(Paused)
<1>1. pausers = k + n /\ k \in Nat /\ n \in {0, 1}
  BY PausedFinite DEF IInv, Control, Balanced
<1>2. ASSUME NEW x \in Thread, Pauses(x, thr[x].pc) = 1 PROVE n = 1 \/ k # 0
  <2>1. CASE x \in Worker /\ thr[x].pc \in Busy
    <3>1. x \in Paused
      BY <2>1, Zenon DEF Paused
    <3> QED BY <3>1, PausedFinite, FS_EmptySet, Zenon
  <2>2. CASE x = Net /\ thr[x].pc # "rest"
    BY <2>2
  <2> QED BY <1>2, <2>1, <2>2 DEF Pauses
<1> QED BY <1>1, <1>2

\* A thread whose locals become r
LEMMA OneThread ==
  ASSUME IInv, NEW th \in Thread, NEW r \in Threads, thr' = [thr EXCEPT ![th] = r],
         template' = template, Place(th, r.pc),
         th \in Worker /\ (r.fresh \/ r.pc \in {"copied", "hash"}) => r.b # NoTemplate,
         Fits(main, nextId, r.tmpl), Fits(main, nextId, r.b),
         pausers' = (pausers - Pauses(th, thr[th].pc)) + Pauses(th, r.pc)
  PROVE  ThreadStep(th) /\ thr'[th] = r
<1>1. /\ thr' \in [Thread -> Threads] /\ thr'[th] = r
      /\ \A x \in Thread \ {th} : thr'[x] = thr[x]
  BY DEF IInv, Types
<1>2. template' \in Templates /\ Fits(main, nextId, template')
  BY Zenon DEF IInv, Types, TemplatesFit
<1> QED BY <1>1, <1>2, Zenon DEF ThreadStep

LEMMA GotoStep ==
  ASSUME IInv, NEW th \in Thread, NEW q \in Pcs, Goto(th, q), template' = template, Place(th, q),
         th \in Worker /\ q \in {"copied", "hash"} => thr[th].fresh \/ thr[th].pc \in {"copied", "hash"},
         pausers' = (pausers - Pauses(th, thr[th].pc)) + Pauses(th, q)
  PROVE  ThreadStep(th) /\ thr'[th].pc = q
<1> DEFINE r == [thr[th] EXCEPT !.pc = q]
<1>1. /\ r \in Threads /\ thr' = [thr EXCEPT ![th] = r] /\ r.pc = q /\ r.fresh = thr[th].fresh
      /\ r.b = thr[th].b /\ r.tmpl = thr[th].tmpl
  BY Zenon DEF IInv, Types, Threads, Goto
<1> HIDE DEF r
<1>2. Fits(main, nextId, r.tmpl) /\ Fits(main, nextId, r.b)
  BY <1>1, Zenon DEF IInv, TemplatesFit
<1>3. th \in Worker /\ (r.fresh \/ r.pc \in {"copied", "hash"}) => r.b # NoTemplate
  BY <1>1, Zenon DEF IInv, Control, HasBlock
<1>4. Place(th, r.pc) /\ pausers' = (pausers - Pauses(th, thr[th].pc)) + Pauses(th, r.pc)
  BY <1>1
<1> QED BY <1>1, <1>2, <1>3, <1>4, OneThread, Zenon

\* Neither the lock nor m_threads changes.
LEMMA SameLock ==
  ASSUME IInv, NEW th \in Thread, lock' = lock, threads' = threads,
         th \in Worker => thr[th].pc # "dead",
         th \in Caller => /\ thr'[th].pc \in Holding => thr[th].pc \in Holding
                          /\ thr'[th].pc \in Starting => thr[th].pc \in Starting
  PROVE  LockStep(th)
<1>1. lock' \in Caller \cup {Free} /\ threads' \subseteq Worker
  BY Zenon DEF IInv, Types
<1>2. Started
  BY DEF IInv, Control
<1>3. /\ th \in Caller /\ thr'[th].pc \in Holding => lock' = th
      /\ th \in Caller /\ thr'[th].pc \in Starting => threads' = {}
  BY <1>2 DEF Started
<1>4. th \in Worker /\ thr'[th].pc # "dead" => th \in threads'
  BY <1>2, Zenon DEF Started
<1> QED BY <1>1, <1>3, <1>4, Zenon DEF LockStep

LEMMA SameLimits ==
  ASSUME IInv, left' = left, mstop' \in BOOLEAN
  PROVE  LimitsKept
BY Zenon DEF IInv, Types, LimitsKept

LEMMA FewerLeft ==
  ASSUME IInv, mstop' = mstop,
         \/ left.finds > 0 /\ left' = [left EXCEPT !.finds = @ - 1]
         \/ left.deliveries > 0 /\ left' = [left EXCEPT !.deliveries = @ - 1]
         \/ left.arrivals > 0 /\ left' = [left EXCEPT !.arrivals = @ - 1]
         \/ left.removals > 0 /\ left' = [left EXCEPT !.removals = @ - 1]
         \/ \E c \in Caller : left.calls[c] > 0 /\ left' = [left EXCEPT !.calls[c] = @ - 1]
  PROVE  LimitsKept
<1>1. left \in Limits /\ mstop' \in BOOLEAN
  BY Zenon DEF IInv, Types
<1>2. CASE left.finds > 0 /\ left' = [left EXCEPT !.finds = @ - 1]
  BY <1>1, <1>2 DEF Limits, LimitsKept
<1>3. CASE left.deliveries > 0 /\ left' = [left EXCEPT !.deliveries = @ - 1]
  BY <1>1, <1>3 DEF Limits, LimitsKept
<1>4. CASE left.arrivals > 0 /\ left' = [left EXCEPT !.arrivals = @ - 1]
  BY <1>1, <1>4 DEF Limits, LimitsKept
<1>5. CASE left.removals > 0 /\ left' = [left EXCEPT !.removals = @ - 1]
  BY <1>1, <1>5 DEF Limits, LimitsKept
<1>6. ASSUME NEW c \in Caller, left.calls[c] > 0, left' = [left EXCEPT !.calls[c] = @ - 1] PROVE LimitsKept
  <2> DEFINE f == [left.calls EXCEPT ![c] = @ - 1]
  <2>1. f \in [Caller -> Nat] /\ left' = [left EXCEPT !.calls = f]
    BY <1>1, <1>6 DEF Limits
  <2> HIDE DEF f
  <2> QED BY <1>1, <2>1 DEF Limits, LimitsKept
<1> QED BY <1>2, <1>3, <1>4, <1>5, <1>6
----------------------------------------------------------------------------
(***************************************************************************)
(* The actions.                                                            *)
(***************************************************************************)
\* create_block_template
LEMMA TakeTipInv ==
  ASSUME IInv, NEW th \in Thread, TakeTip(th), ChainKept
  PROVE  IInv'
<1> DEFINE tm == [NoTemplate EXCEPT !.prev = Tip.id]
           r == [thr[th] EXCEPT !.pc = "fill", !.tmpl = tm]
<1>1. Types /\ ChainOk /\ Place(th, "tip") /\ thr[th].pc = "tip"
  BY Zenon DEF IInv, Control, Places, TakeTip
<1>2. tm \in Templates /\ Fits(main, nextId, tm)
  BY <1>1, NewTemplates, Zenon
<1>3. /\ template' = template /\ pausers' = pausers /\ lock' = lock /\ threads' = threads
      /\ mstop' = mstop /\ left' = left
  BY Zenon DEF TakeTip, minerVars
<1> HIDE DEF tm
<1>4. /\ r \in Threads /\ thr' = [thr EXCEPT ![th] = r] /\ r.pc = "fill" /\ r.fresh = thr[th].fresh
      /\ r.b = thr[th].b /\ r.tmpl = tm
  BY <1>1, <1>2, Zenon DEF Types, Threads, Pcs, TakeTip, tm
<1> HIDE DEF r
<1>5. Place(th, r.pc)
  BY <1>1, <1>4, Zenon DEF Place, Busy
<1>6. th \in Worker /\ (r.fresh \/ r.pc \in {"copied", "hash"}) => r.b # NoTemplate
  BY <1>4, Zenon DEF IInv, Control, HasBlock
<1>7. Fits(main, nextId, r.b)
  BY <1>4, Zenon DEF IInv, TemplatesFit
<1>8. pausers' = (pausers - Pauses(th, thr[th].pc)) + Pauses(th, r.pc)
  BY <1>1, <1>3, <1>4, PauserType DEF Pauses, Busy
<1>9. ThreadStep(th) /\ thr'[th] = r
  BY <1>2, <1>3, <1>4, <1>5, <1>6, <1>7, <1>8, OneThread, Zenon
<1>10. LockStep(th)
  BY <1>1, <1>3, <1>4, <1>9, SameLock, Zenon DEF Holding, Starting
<1>11. LimitsKept
  BY <1>1, <1>3, SameLimits, Zenon DEF Types
<1> QED BY <1>9, <1>10, <1>11, InvStep, Zenon

LEMMA FillInv ==
  ASSUME IInv, NEW th \in Thread, Fill(th), ChainKept
  PROVE  IInv'
<1> DEFINE txs == FillBlockTemplate.txs
           tm == [thr[th].tmpl EXCEPT !.txs = txs]
           r == [thr[th] EXCEPT !.pc = "set", !.tmpl = tm]
<1>1. /\ Types /\ ChainOk /\ Place(th, "fill") /\ thr[th].pc = "fill"
      /\ thr[th].tmpl \in Templates /\ Fits(main, nextId, thr[th].tmpl)
  <2>1. thr[th].tmpl \in Templates
    BY DEF IInv, Types, Threads
  <2> QED BY <2>1, Zenon DEF IInv, Control, Places, Fill, TemplatesFit
<1>2. tm \in Templates /\ Fits(main, nextId, tm)
  BY <1>1, NewTemplates, Zenon
<1>3. /\ template' = template /\ pausers' = pausers /\ lock' = lock /\ threads' = threads
      /\ mstop' = mstop /\ left' = left /\ thr' = [thr EXCEPT ![th].pc = "set", ![th].tmpl.txs = txs]
  BY Zenon DEF Fill, minerVars
<1> HIDE DEF txs
<1>4. thr' = [thr EXCEPT ![th] = r]
  BY <1>1, <1>3, Zenon DEF Types, Threads, Templates
<1> HIDE DEF tm
<1>5. /\ r \in Threads /\ r.pc = "set" /\ r.fresh = thr[th].fresh
      /\ r.b = thr[th].b /\ r.tmpl = tm
  BY <1>1, <1>2, Zenon DEF Types, Threads, Pcs
<1> HIDE DEF r
<1>6. Place(th, r.pc)
  BY <1>1, <1>5, Zenon DEF Place, Busy
<1>7. th \in Worker /\ (r.fresh \/ r.pc \in {"copied", "hash"}) => r.b # NoTemplate
  BY <1>5, Zenon DEF IInv, Control, HasBlock
<1>8. Fits(main, nextId, r.b)
  BY <1>5, Zenon DEF IInv, TemplatesFit
<1>9. pausers' = (pausers - Pauses(th, thr[th].pc)) + Pauses(th, r.pc)
  BY <1>1, <1>3, <1>5, PauserType DEF Pauses, Busy
<1>10. ThreadStep(th) /\ thr'[th] = r
  BY <1>2, <1>3, <1>4, <1>5, <1>6, <1>7, <1>8, <1>9, OneThread, Zenon
<1>11. LockStep(th)
  BY <1>1, <1>3, <1>5, <1>10, SameLock, Zenon DEF Holding, Starting
<1>12. LimitsKept
  BY <1>1, <1>3, SameLimits, Zenon DEF Types
<1> QED BY <1>10, <1>11, <1>12, InvStep, Zenon
LEMMA AfterPlace ==
  ASSUME NEW th \in Thread, Place(th, "set")
  PROVE  /\ AfterTemplate(th) \in Pcs /\ Place(th, AfterTemplate(th))
         /\ Pauses(th, AfterTemplate(th)) = Pauses(th, "set")
         /\ AfterTemplate(th) \notin {"copied", "hash", "dead"}
         /\ th \in Caller => AfterTemplate(th) = "launch"
<1>1. th \in Worker \/ th \in Caller \/ th = Net \/ th = Idle
  BY Zenon DEF Thread
<1>2. CASE th \in Worker \/ th = Net
  <2>1. AfterTemplate(th) = "resume" /\ th \notin Caller
    BY <1>2, Kinds DEF AfterTemplate
  <2> QED BY <1>2, <2>1, Kinds DEF Pcs, Place, Pauses, Busy
<1>3. CASE th = Idle
  <2>1. AfterTemplate(th) = "rest" /\ th \notin Caller /\ th \notin Worker /\ th # Net
    BY <1>3, Kinds DEF AfterTemplate
  <2> QED BY <1>3, <2>1 DEF Pcs, Place, Pauses, Busy
<1>4. CASE th \in Caller
  <2>1. AfterTemplate(th) = "launch" /\ th \notin Worker /\ th # Net /\ th # Idle
    BY <1>4, Kinds DEF AfterTemplate
  <2> QED BY <1>4, <2>1 DEF Pcs, Place, Pauses, Busy
<1> QED BY <1>1, <1>2, <1>3, <1>4

\* set_block_template
LEMMA SetInv ==
  ASSUME IInv, NEW th \in Thread, SetBlockTemplate(th), ChainKept
  PROVE  IInv'
<1> DEFINE pc == AfterTemplate(th)
           r == [thr[th] EXCEPT !.pc = pc, !.tmpl = NoTemplate, !.fresh = FALSE]
<1>1. /\ Types /\ ChainOk /\ Place(th, "set") /\ thr[th].pc = "set"
      /\ thr[th].tmpl \in Templates /\ Fits(main, nextId, thr[th].tmpl)
  <2>1. thr[th].tmpl \in Templates
    BY DEF IInv, Types, Threads
  <2> QED BY <2>1, Zenon DEF IInv, Control, Places, SetBlockTemplate, TemplatesFit
<1>2. /\ template' = thr[th].tmpl /\ pausers' = pausers /\ lock' = lock /\ threads' = threads
      /\ mstop' = mstop /\ left' = left
  BY Zenon DEF SetBlockTemplate
<1>3. /\ thr' = [x \in Thread |-> IF x = th THEN r ELSE [thr[x] EXCEPT !.fresh = FALSE]]
      /\ thr'[th] = r /\ \A x \in Thread \ {th} : thr'[x] = [thr[x] EXCEPT !.fresh = FALSE]
  BY Zenon DEF SetBlockTemplate
<1>4. /\ pc \in Pcs /\ Place(th, pc) /\ Pauses(th, pc) = Pauses(th, "set")
      /\ pc \notin {"copied", "hash", "dead"} /\ (th \in Caller => pc = "launch")
  BY <1>1, AfterPlace, Zenon
<1> HIDE DEF pc
<1>5. NoTemplate \in Templates /\ Fits(main, nextId, NoTemplate)
  BY <1>1, NewTemplates, Zenon
<1>6. /\ r \in Threads /\ r.pc = pc /\ r.fresh = FALSE /\ r.b = thr[th].b /\ r.tmpl = NoTemplate
  BY <1>1, <1>4, <1>5, Zenon DEF Types, Threads
<1> HIDE DEF r
<1>7. ASSUME NEW x \in Thread \ {th}
      PROVE  /\ thr'[x] \in Threads /\ thr'[x].pc = thr[x].pc /\ thr'[x].b = thr[x].b
             /\ thr'[x].tmpl = thr[x].tmpl /\ thr'[x].fresh = FALSE
  <2>1. thr[x] \in Threads
    BY <1>1 DEF Types
  <2>2. thr'[x] = [thr[x] EXCEPT !.fresh = FALSE]
    BY <1>3, Zenon
  <2> QED BY <2>1, <2>2, Zenon DEF Threads
<1>8. thr' \in [Thread -> Threads]
  BY <1>3, <1>6, <1>7, Zenon
<1>9. Fits(main, nextId, r.b)
  BY <1>6, Zenon DEF IInv, TemplatesFit
<1>10. pausers' = (pausers - Pauses(th, thr[th].pc)) + Pauses(th, r.pc)
  BY <1>1, <1>2, <1>4, <1>6, PauserType DEF Pauses
<1>11. ThreadStep(th)
  BY <1>1, <1>2, <1>3, <1>4, <1>5, <1>6, <1>7, <1>8, <1>9, <1>10, Zenon DEF ThreadStep
<1>12. LockStep(th)
  BY <1>1, <1>2, <1>3, <1>4, <1>6, SameLock, Zenon DEF Holding, Starting
<1>13. LimitsKept
  BY <1>1, <1>2, SameLimits, Zenon DEF Types
<1> QED BY <1>11, <1>12, <1>13, InvStep, Zenon

LEMMA ResumeInv ==
  ASSUME IInv, NEW th \in Thread, Resume(th), ChainKept
  PROVE  IInv'
<1> DEFINE q == IF th = Net THEN "rest" ELSE "loop"
<1>1. Types /\ Place(th, "resume") /\ thr[th].pc = "resume"
  BY Zenon DEF IInv, Control, Places, Resume
<1>2. th \in Worker \/ th = Net
  BY <1>1 DEF Place, Thread
<1>3. /\ template' = template /\ lock' = lock /\ threads' = threads /\ mstop' = mstop /\ left' = left
      /\ Goto(th, q) /\ pausers' = (IF pausers > 0 THEN pausers - 1 ELSE 0)
  BY Zenon DEF Resume
<1>4. q \in Pcs /\ Place(th, q) /\ q \notin {"copied", "hash"} /\ th \notin Caller
  BY <1>2, Kinds DEF Pcs, Place
<1>5. Pauses(th, thr[th].pc) = 1 /\ Pauses(th, q) = 0
  BY <1>1, <1>2, Kinds DEF Pauses, Busy
<1>6. pausers \in Nat /\ pausers > 0
  BY <1>5, PauserType
<1> HIDE DEF q
<1>7. pausers' = (pausers - Pauses(th, thr[th].pc)) + Pauses(th, q)
  BY <1>3, <1>5, <1>6
<1>8. ThreadStep(th)
  BY <1>3, <1>4, <1>7, GotoStep, Zenon
<1>9. LockStep(th)
  BY <1>1, <1>3, <1>4, SameLock, Zenon
<1>10. LimitsKept
  BY <1>1, <1>3, SameLimits, Zenon DEF Types
<1> QED BY <1>8, <1>9, <1>10, InvStep, Zenon
\* worker_thread: the places of a worker, and what they mean for m_pausers_count
LEMMA WorkerPlaces ==
  ASSUME NEW w \in Worker
  PROVE  /\ w \in Thread /\ w \notin Caller
         /\ \A pc \in {"dead", "loop", "copied", "hash"} : Place(w, pc) /\ Pauses(w, pc) = 0 /\ pc \in Pcs
         /\ \A pc \in Busy : Place(w, pc) /\ Pauses(w, pc) = 1 /\ pc \in Pcs
BY Kinds DEF Place, Pauses, Busy, Pcs

LEMMA LoopInv ==
  ASSUME IInv, NEW w \in Worker, Loop(w), ChainKept
  PROVE  IInv'
<1>1. /\ Types /\ ChainOk /\ thr[w].pc = "loop" /\ w \in Thread /\ w \notin Caller
      /\ template \in Templates /\ Fits(main, nextId, template)
  BY Kinds, Zenon DEF IInv, Loop, Types, TemplatesFit
<1>2. /\ template' = template /\ pausers' = pausers /\ lock' = lock /\ threads' = threads
      /\ mstop' = mstop /\ left' = left
  BY Zenon DEF Loop, minerVars
<1>3. ASSUME NEW pc \in {"dead", "copied", "hash"}
      PROVE  Place(w, pc) /\ pausers' = (pausers - Pauses(w, thr[w].pc)) + Pauses(w, pc)
  <2>1. Place(w, pc) /\ Pauses(w, pc) = 0 /\ Pauses(w, thr[w].pc) = 0
    BY <1>1, WorkerPlaces, Zenon
  <2> QED BY <1>2, <2>1, PauserType
<1>4. LockStep(w) /\ LimitsKept
  BY <1>1, <1>2, SameLock, SameLimits, Zenon DEF Types
<1>5. CASE thr' = [thr EXCEPT ![w] = Resting("dead")]
  <2> DEFINE r == Resting("dead")
  <2>1. NoTemplate \in Templates /\ Fits(main, nextId, NoTemplate)
    BY <1>1, NewTemplates, Zenon
  <2>2. /\ r \in Threads /\ r.pc = "dead" /\ r.fresh = FALSE /\ r.b = NoTemplate
        /\ r.tmpl = NoTemplate
    BY <2>1 DEF Resting, Threads, Pcs
  <2> HIDE DEF r
  <2>3. thr' = [thr EXCEPT ![w] = r]
    BY <1>5 DEF r
  <2>4. ThreadStep(w)
    BY <1>1, <1>2, <1>3, <2>1, <2>2, <2>3, OneThread, Zenon
  <2> QED BY <1>1, <1>4, <2>4, InvStep, Zenon
<1>6. CASE template # NoTemplate /\ thr' = [thr EXCEPT ![w].pc = "copied", ![w].b = template]
  <2> DEFINE r == [thr[w] EXCEPT !.pc = "copied", !.b = template]
  <2>1. /\ r \in Threads /\ r.pc = "copied" /\ r.b = template /\ r.tmpl = thr[w].tmpl
        /\ thr' = [thr EXCEPT ![w] = r]
    BY <1>1, <1>6, Zenon DEF Types, Threads, Pcs
  <2> HIDE DEF r
  <2>2. Fits(main, nextId, r.tmpl)
    BY <1>1, <2>1, Zenon DEF IInv, TemplatesFit
  <2>3. ThreadStep(w)
    BY <1>1, <1>2, <1>3, <1>6, <2>1, <2>2, OneThread, Zenon
  <2> QED BY <1>1, <1>4, <2>3, InvStep, Zenon
<1>7. CASE thr[w].fresh /\ Goto(w, "hash")
  <2>1. ThreadStep(w)
    BY <1>1, <1>2, <1>3, <1>7, GotoStep, Zenon DEF Pcs
  <2> QED BY <1>1, <1>4, <2>1, InvStep, Zenon
<1> QED BY <1>5, <1>6, <1>7, Zenon DEF Loop

LEMMA ReadTemplateNoInv ==
  ASSUME IInv, NEW w \in Worker, ReadTemplateNo(w), ChainKept
  PROVE  IInv'
<1> DEFINE r == [thr[w] EXCEPT !.pc = "hash", !.fresh = TRUE]
<1>1. Types /\ thr[w].pc = "copied" /\ w \in Thread /\ w \notin Caller
  BY Kinds, Zenon DEF IInv, ReadTemplateNo
<1>2. /\ template' = template /\ pausers' = pausers /\ lock' = lock /\ threads' = threads
      /\ mstop' = mstop /\ left' = left
  BY Zenon DEF ReadTemplateNo, minerVars
<1>3. /\ r \in Threads /\ r.pc = "hash" /\ r.b = thr[w].b /\ r.tmpl = thr[w].tmpl
      /\ thr' = [thr EXCEPT ![w] = r]
  BY <1>1, Zenon DEF Types, Threads, Pcs, ReadTemplateNo
<1> HIDE DEF r
<1>4. Fits(main, nextId, r.tmpl) /\ Fits(main, nextId, r.b) /\ r.b # NoTemplate
  BY <1>1, <1>3, Zenon DEF IInv, TemplatesFit, Control, HasBlock
<1>5. Place(w, r.pc) /\ Pauses(w, r.pc) = 0 /\ Pauses(w, thr[w].pc) = 0
  BY <1>1, <1>3, WorkerPlaces, Zenon
<1>6. pausers' = (pausers - Pauses(w, thr[w].pc)) + Pauses(w, r.pc)
  BY <1>2, <1>5, PauserType
<1>7. ThreadStep(w)
  BY <1>1, <1>2, <1>3, <1>4, <1>5, <1>6, OneThread, Zenon
<1>8. LockStep(w) /\ LimitsKept
  BY <1>1, <1>2, SameLock, SameLimits, Zenon DEF Types
<1> QED BY <1>1, <1>7, <1>8, InvStep, Zenon

\* The steps of a worker that only go to another place
LEMMA WorkerGoto ==
  ASSUME IInv, NEW w \in Worker, NEW q \in {"loop"} \cup Busy, thr[w].pc # "dead", Goto(w, q),
         template' = template, lock' = lock, threads' = threads,
         pausers' = (pausers - Pauses(w, thr[w].pc)) + Pauses(w, q), LimitsKept, ChainKept
  PROVE  IInv'
<1>1. w \in Thread /\ w \notin Caller /\ Place(w, q) /\ q \in Pcs
  BY WorkerPlaces, Zenon
<1>2. q \notin {"copied", "hash"}
  BY DEF Busy
<1>3. ThreadStep(w)
  BY <1>1, <1>2, GotoStep, Zenon
<1>4. LockStep(w)
  BY <1>1, SameLock, Zenon
<1> QED BY <1>1, <1>3, <1>4, InvStep, Zenon

LEMMA HashFailsInv ==
  ASSUME IInv, NEW w \in Worker, HashFails(w), ChainKept
  PROVE  IInv'
<1>1. /\ template' = template /\ pausers' = pausers /\ lock' = lock /\ threads' = threads
      /\ mstop' = mstop /\ left' = left /\ thr[w].pc = "hash" /\ Goto(w, "loop")
  BY Zenon DEF HashFails, minerVars
<1>2. Pauses(w, "loop") = 0 /\ Pauses(w, thr[w].pc) = 0
  BY <1>1, WorkerPlaces, Zenon
<1>3. pausers' = (pausers - Pauses(w, thr[w].pc)) + Pauses(w, "loop")
  BY <1>1, <1>2, PauserType
<1>4. LimitsKept
  BY <1>1, SameLimits, Zenon DEF IInv, Types
<1>5. "loop" \in {"loop"} \cup Busy /\ thr[w].pc # "dead"
  BY <1>1
<1> QED BY <1>1, <1>3, <1>4, <1>5, WorkerGoto, Zenon
LEMMA FindInv ==
  ASSUME IInv, NEW w \in Worker, Find(w), ChainKept
  PROVE  IInv'
<1>1. /\ template' = template /\ pausers' = pausers + 1 /\ lock' = lock /\ threads' = threads
      /\ mstop' = mstop /\ left.finds > 0 /\ left' = [left EXCEPT !.finds = @ - 1]
      /\ thr[w].pc = "hash" /\ Goto(w, "add")
  BY Zenon DEF Find
<1>2. "add" \in Busy /\ thr[w].pc # "dead"
  BY <1>1 DEF Busy
<1>3. Pauses(w, "add") = 1 /\ Pauses(w, thr[w].pc) = 0
  BY <1>1, <1>2, WorkerPlaces, Zenon
<1>4. pausers' = (pausers - Pauses(w, thr[w].pc)) + Pauses(w, "add")
  BY <1>1, <1>3, PauserType
<1>5. LimitsKept
  BY <1>1, FewerLeft, Zenon
<1> QED BY <1>1, <1>2, <1>4, <1>5, WorkerGoto, Zenon

LEMMA AddFoundInv ==
  ASSUME IInv, NEW w \in Worker, AddFound(w), ChainKept
  PROVE  IInv'
<1> DEFINE q == IF IsMining THEN "tip" ELSE "resume"
<1>1. /\ template' = template /\ pausers' = pausers /\ lock' = lock /\ threads' = threads
      /\ mstop' = mstop /\ left' = left /\ thr[w].pc = "add" /\ Goto(w, q)
  BY Zenon DEF AddFound, minerVars
<1>2. q \in Busy /\ "add" \in Busy /\ thr[w].pc # "dead"
  BY <1>1 DEF Busy
<1> HIDE DEF q
<1>3. Pauses(w, q) = 1 /\ Pauses(w, thr[w].pc) = 1
  BY <1>1, <1>2, WorkerPlaces, Zenon
<1>4. pausers' = (pausers - Pauses(w, thr[w].pc)) + Pauses(w, q)
  BY <1>1, <1>3, PauserType
<1>5. LimitsKept
  BY <1>1, SameLimits, Zenon DEF IInv, Types
<1> QED BY <1>1, <1>2, <1>4, <1>5, WorkerGoto, Zenon

\* miner::start, miner::stop and miner::on_idle: none of their places is a pause.
LEMMA CallerGoto ==
  ASSUME IInv, NEW c \in Caller,
         NEW q \in {"rest", "start", "tip", "launch", "signal", "stop", "join"}, Goto(c, q),
         template' = template, pausers' = pausers, LockStep(c), LimitsKept, ChainKept
  PROVE  IInv'
<1>1. c \in Thread /\ c \notin Worker /\ c # Net /\ c # Idle
  BY Kinds, Zenon
<1>2. Place(c, q) /\ q \in Pcs
  BY <1>1 DEF Place, Pcs
<1>3. pausers' = (pausers - Pauses(c, thr[c].pc)) + Pauses(c, q)
  BY <1>1, PauserType DEF Pauses
<1>4. ThreadStep(c)
  BY <1>1, <1>2, <1>3, GotoStep, Zenon
<1> QED BY <1>1, <1>4, InvStep, Zenon

LEMMA CallInv ==
  ASSUME IInv, NEW c \in Caller, CallStart(c) \/ CallStop(c) \/ SendStopSignal(c), ChainKept
  PROVE  IInv'
<1>1. PICK q \in {"start", "signal", "stop"} : Goto(c, q)
  BY Zenon DEF CallStart, CallStop, SendStopSignal
<1>2. /\ template' = template /\ pausers' = pausers /\ lock' = lock /\ threads' = threads
      /\ mstop' \in BOOLEAN
  BY Zenon DEF CallStart, CallStop, SendStopSignal, minerVars, IInv, Types
<1>3. LimitsKept
  <2>1. CASE CallStart(c) \/ CallStop(c)
    BY <2>1, FewerLeft, Zenon DEF CallStart, CallStop, minerVars
  <2>2. CASE SendStopSignal(c)
    BY <1>2, <2>2, SameLimits, Zenon DEF SendStopSignal
  <2> QED BY <2>1, <2>2
<1>4. c \in Thread /\ c \notin Worker /\ thr'[c].pc = q
  BY <1>1, Kinds DEF Goto, IInv, Types, Threads
<1>5. q \notin Holding /\ q \notin Starting
  BY DEF Holding, Starting
<1>6. LockStep(c)
  BY <1>2, <1>4, <1>5, SameLock, Zenon
<1> QED BY <1>1, <1>2, <1>3, <1>6, CallerGoto, Zenon

\* While nobody holds the lock, or c does, no other caller is at a place that needs it.
LEMMA OthersOut ==
  ASSUME IInv, NEW c \in Caller, lock \in {c, Free}
  PROVE  \A x \in Caller \ {c} : thr[x].pc \notin Holding
BY Kinds, Zenon DEF IInv, Control, Started

LEMMA StartInv ==
  ASSUME IInv, NEW c \in Caller, Start(c), ChainKept
  PROVE  IInv'
<1>1. /\ template' = template /\ pausers' = pausers /\ threads' = threads /\ lock = Free
      /\ mstop' = mstop /\ left' = left /\ thr[c].pc = "start"
  BY Zenon DEF Start
<1>2. c \in Thread /\ c \notin Worker /\ \A q : Goto(c, q) => thr'[c].pc = q
  BY Kinds DEF Goto, IInv, Types, Threads
<1>3. LimitsKept
  BY <1>1, SameLimits, Zenon DEF IInv, Types
<1>4. CASE Goto(c, "rest") /\ lock' = lock
  <2>1. "rest" \notin Holding /\ "rest" \notin Starting
    BY DEF Holding, Starting
  <2>2. LockStep(c)
    BY <1>1, <1>2, <1>4, <2>1, SameLock, Zenon
  <2> QED BY <1>1, <1>3, <1>4, <2>2, CallerGoto, Zenon
<1>5. CASE ~StartRefused /\ lock' = c /\ Goto(c, IF template = NoTemplate THEN "tip" ELSE "launch")
  <2>1. threads' = {}
    BY <1>1, <1>5, Zenon DEF StartRefused
  <2>2. PICK q \in {"tip", "launch"} : Goto(c, q)
    BY <1>5, Zenon
  <2>3. \A x \in Caller \ {c} : thr[x].pc \notin Holding
    BY <1>1, OthersOut, Zenon
  <2>4. LockStep(c)
    BY <1>1, <1>2, <1>5, <2>1, <2>3, Zenon DEF LockStep
  <2> QED BY <1>1, <1>3, <2>2, <2>4, CallerGoto, Zenon
<1> QED BY <1>4, <1>5, Zenon DEF Start

LEMMA StopInv ==
  ASSUME IInv, NEW c \in Caller, Stop(c), ChainKept
  PROVE  IInv'
<1>1. /\ template' = template /\ pausers' = pausers /\ threads' = threads /\ lock = Free /\ lock' = c
      /\ mstop' = mstop /\ left' = left /\ Goto(c, "join")
  BY Zenon DEF Stop
<1>2. c \in Thread /\ c \notin Worker /\ thr'[c].pc = "join" /\ threads \subseteq Worker
  BY <1>1, Kinds DEF Goto, IInv, Types, Threads
<1>3. \A x \in Caller \ {c} : thr[x].pc \notin Holding
  BY <1>1, OthersOut, Zenon
<1>4. "join" \notin Starting
  BY DEF Starting
<1>5. LockStep(c)
  BY <1>1, <1>2, <1>3, <1>4, Zenon DEF LockStep
<1>6. LimitsKept
  BY <1>1, SameLimits, Zenon DEF IInv, Types
<1> QED BY <1>1, <1>5, <1>6, CallerGoto, Zenon

LEMMA JoinInv ==
  ASSUME IInv, NEW c \in Caller, Join(c), ChainKept
  PROVE  IInv'
<1>1. /\ template' = template /\ pausers' = pausers /\ threads' = {} /\ lock' = Free
      /\ mstop' = mstop /\ left' = left /\ Goto(c, "rest") /\ thr[c].pc = "join"
      /\ \A w \in threads : thr[w].pc = "dead"
  BY Zenon DEF Join
<1>2. c \in Thread /\ c \notin Worker /\ thr'[c].pc = "rest"
  BY <1>1, Kinds DEF Goto, IInv, Types, Threads
<1>3. "join" \in Holding /\ "rest" \notin Holding /\ "rest" \notin Starting
  BY DEF Holding, Starting
<1>4. lock = c /\ \A w \in Worker : thr[w].pc = "dead"
  BY <1>1, <1>3, Zenon DEF IInv, Control, Started
<1>5. \A x \in Caller \ {c} : thr[x].pc \notin Holding
  BY <1>4, OthersOut, Zenon
<1>6. LockStep(c)
  BY <1>1, <1>2, <1>3, <1>4, <1>5, Zenon DEF LockStep
<1>7. LimitsKept
  BY <1>1, SameLimits, Zenon DEF IInv, Types
<1> QED BY <1>1, <1>6, <1>7, CallerGoto, Zenon
LEMMA SubsetOfSize ==
  ASSUME NEW D, IsFiniteSet(D), NEW k \in Nat, k <= Cardinality(D)
  PROVE  \E S \in SUBSET D : Cardinality(S) = k
<1> DEFINE Has(m) == m <= Cardinality(D) => \E S \in SUBSET D : Cardinality(S) = m
           P == {m \in Nat : Has(m)}
<1>1. Cardinality(D) \in Nat
  BY FS_CardinalityType, Zenon
<1>2. 0 \in P
  <2>1. {} \in SUBSET D /\ Cardinality({}) = 0
    BY FS_EmptySet, Zenon
  <2> QED BY <2>1
<1>3. ASSUME NEW m \in P PROVE m + 1 \in P
  <2> SUFFICES ASSUME m + 1 <= Cardinality(D)
               PROVE  \E S \in SUBSET D : Cardinality(S) = m + 1
    OBVIOUS
  <2>1. m \in Nat /\ m <= Cardinality(D) /\ m # Cardinality(D)
    BY <1>1
  <2>2. PICK S \in SUBSET D : Cardinality(S) = m
    BY <2>1
  <2>3. PICK x \in D : x \notin S
    BY <2>1, <2>2, Zenon
  <2>4. IsFiniteSet(S)
    BY FS_Subset, Zenon
  <2>5. Cardinality(S \cup {x}) = m + 1 /\ S \cup {x} \in SUBSET D
    BY <2>2, <2>3, <2>4, FS_AddElement, Zenon
  <2> QED BY <2>5, Zenon
<1> HIDE DEF P
<1>4. P \in SUBSET Nat
  BY DEF P
<1>5. P = Nat
  BY <1>2, <1>3, <1>4, SetInduction
<1> QED BY <1>5 DEF P

LEMMA NewThreadsDead ==
  ASSUME NEW n \in Nat
  PROVE  NewThreads(n) \in SUBSET {w \in Worker : thr[w].pc = "dead"}
<1> DEFINE dead == {w \in Worker : thr[w].pc = "dead"}
           k == IF n <= Cardinality(dead) THEN n ELSE Cardinality(dead)
<1>1. NewThreads(n) = CHOOSE S \in SUBSET dead : Cardinality(S) = k
  BY Zenon DEF NewThreads
<1>2. dead \in SUBSET Worker /\ IsFiniteSet(Worker)
  BY MiningAssumption, Zenon
<1> HIDE DEF dead
<1>3. IsFiniteSet(dead)
  BY <1>2, FS_Subset, Zenon
<1>4. Cardinality(dead) \in Nat
  BY <1>3, FS_CardinalityType, Zenon
<1>5. k \in Nat /\ k <= Cardinality(dead)
  BY <1>4
<1> HIDE DEF k
<1>6. \E S \in SUBSET dead : Cardinality(S) = k
  BY <1>3, <1>5, SubsetOfSize, Zenon
<1>7. NewThreads(n) \in SUBSET dead
  BY <1>1, <1>6, Zenon
<1> QED BY <1>7 DEF dead

LEMMA LaunchInv ==
  ASSUME IInv, NEW c \in Caller, Launch(c), ChainKept
  PROVE  IInv'
<1>1. PICK n \in 1..left.size :
        /\ threads' = threads \cup NewThreads(n)
        /\ thr' = [x \in Thread |-> IF x \in NewThreads(n) THEN Resting("loop")
                                    ELSE IF x = c THEN Resting("rest") ELSE thr[x]]
  BY Zenon DEF Launch
<1> DEFINE S == NewThreads(n)
<1>2. n \in Nat
  BY DEF IInv, Types, Limits
<1>3. S \subseteq Worker /\ \A w \in S : thr[w].pc = "dead"
  BY <1>2, NewThreadsDead, Zenon
<1> HIDE DEF S
<1>4. /\ thr[c].pc = "launch" /\ mstop' = FALSE /\ lock' = Free
      /\ template' = template /\ pausers' = pausers /\ left' = left
  BY Zenon DEF Launch
<1>5. /\ c \in Thread /\ c \notin Worker /\ c # Net /\ c \notin S
      /\ Net \in Thread /\ Net \notin S
  BY <1>3, Kinds, Zenon
<1>6. Types /\ ChainOk /\ Control /\ TemplatesFit
  BY DEF IInv
<1>7. /\ NoTemplate \in Templates /\ Fits(main, nextId, NoTemplate)
  BY <1>6, NewTemplates, Zenon
<1>8. ASSUME NEW pc \in Pcs
      PROVE  /\ Resting(pc) \in Threads /\ Resting(pc).pc = pc /\ Resting(pc).fresh = FALSE
             /\ Resting(pc).b = NoTemplate /\ Resting(pc).tmpl = NoTemplate
  BY <1>7 DEF Resting, Threads
<1>9. "loop" \in Pcs /\ "rest" \in Pcs
  BY DEF Pcs
<1>10. /\ \A w \in S : thr'[w] = Resting("loop")
       /\ thr'[c] = Resting("rest")
       /\ \A x \in Thread \ {c} : x \notin S => thr'[x] = thr[x]
  <2>1. \A w \in S : w \in Thread
    BY <1>3, Kinds, Zenon
  <2> QED BY <1>1, <1>5, <2>1 DEF S
<1>11. thr' \in [Thread -> Threads]
  <2>1. \A x \in Thread : thr[x] \in Threads
    BY <1>6 DEF Types
  <2>2. Resting("loop") \in Threads /\ Resting("rest") \in Threads
    BY <1>8, <1>9, Zenon
  <2> QED BY <1>1, <2>1, <2>2
<1>12. lock = c /\ threads = {} /\ \A w \in Worker : thr[w].pc = "dead"
  <2>1. thr[c].pc \in Starting /\ thr[c].pc \in Holding
    BY <1>4 DEF Starting, Holding
  <2> QED BY <1>6, <2>1, Zenon DEF Control, Started
<1>13. Types'
  <2>1. threads' \subseteq Worker /\ lock' \in Caller \cup {Free} /\ mstop' \in BOOLEAN
    BY <1>1, <1>3, <1>4, <1>12, Zenon DEF S
  <2> QED BY <1>4, <1>6, <1>11, <2>1, Zenon DEF Types, ChainKept, ChainTypes
<1>14. Places'
  <2> SUFFICES ASSUME NEW x \in Thread PROVE Place(x, thr'[x].pc)
    BY Zenon DEF Places, Place, Busy
  <2>1. CASE x \in S
    <3>1. thr'[x].pc = "loop" /\ x \in Worker
      BY <1>3, <1>8, <1>9, <1>10, <2>1, Zenon
    <3> QED BY <3>1, WorkerPlaces, Zenon
  <2>2. CASE x = c
    <3>1. thr'[x].pc = "rest"
      BY <1>8, <1>9, <1>10, <2>2, Zenon
    <3> QED BY <1>5, <2>2, <3>1, Kinds, Zenon DEF Place
  <2>3. CASE x \notin S /\ x # c
    BY <1>6, <1>10, <2>3, Zenon DEF Control, Places
  <2> QED BY <2>1, <2>2, <2>3
<1>15. \A x \in Caller : thr'[x].pc \notin Holding
  <2>1. thr'[c].pc = "rest" /\ "rest" \notin Holding
    BY <1>8, <1>9, <1>10, Zenon DEF Holding, Starting
  <2>2. \A x \in Caller \ {c} : thr[x].pc \notin Holding /\ thr'[x] = thr[x]
    BY <1>3, <1>10, <1>12, OthersOut, Kinds, Zenon
  <2> QED BY <2>1, <2>2, Zenon
<1>16. ASSUME NEW w \in Worker, w \notin S PROVE thr'[w] = thr[w]
  BY <1>5, <1>10, <1>16, Kinds, Zenon
<1>17. Started'
  <2>1. \A w \in Worker : thr'[w].pc # "dead" => w \in threads'
    BY <1>1, <1>12, <1>16, Zenon DEF S
  <2>2. \A x \in Caller : thr'[x].pc \notin Starting
    BY <1>15, Zenon DEF Holding
  <2> QED BY <1>15, <2>1, <2>2, Zenon DEF Started, Holding, Starting
<1>18. HasBlock'
  <2> SUFFICES ASSUME NEW w \in Worker, thr'[w].fresh \/ thr'[w].pc \in {"copied", "hash"}
               PROVE  thr'[w].b # NoTemplate
    BY Zenon DEF HasBlock, NoTemplate
  <2>1. CASE w \in S
    <3>1. thr'[w].pc = "loop" /\ thr'[w].fresh = FALSE
      BY <1>8, <1>9, <1>10, <2>1, Zenon
    <3> QED BY <3>1
  <2>2. CASE w \notin S
    BY <1>6, <1>16, <2>2, Zenon DEF Control, HasBlock
  <2> QED BY <2>1, <2>2
<1>19. Balanced'
  <2>1. Paused = {}
    BY <1>12 DEF Paused, Busy
  <2>2. \A w \in S : thr'[w].pc = "loop"
    BY <1>8, <1>9, <1>10, Zenon
  <2>3. Paused' = {}
    BY <1>12, <1>16, <2>2 DEF Paused, Busy
  <2>4. thr'[Net].pc = thr[Net].pc
    BY <1>5, <1>10, Zenon
  <2> QED BY <1>4, <1>6, <2>1, <2>3, <2>4, Zenon DEF Control, Balanced
<1>20. TemplatesFit'
  <2>1. ASSUME NEW x \in Thread
        PROVE  Fits(main, nextId, thr'[x].tmpl) /\ Fits(main, nextId, thr'[x].b)
    <3>1. CASE x \in S \/ x = c
      BY <1>7, <1>8, <1>9, <1>10, <3>1, Zenon
    <3>2. CASE x \notin S /\ x # c
      BY <1>6, <1>10, <3>2, Zenon DEF TemplatesFit
    <3> QED BY <3>1, <3>2
  <2>2. ASSUME NEW x \in Thread PROVE thr'[x].tmpl \in Templates /\ thr'[x].b \in Templates
    BY <1>11 DEF Threads
  <2>3. Fits(main', nextId', template')
    BY <1>4, <1>6, FitsKept, Zenon DEF Types, TemplatesFit
  <2> QED BY <1>6, <2>1, <2>2, <2>3, FitsKept, Zenon DEF TemplatesFit
<1> QED BY <1>13, <1>14, <1>17, <1>18, <1>19, <1>20 DEF IInv, Control, ChainKept
LEMMA OnIdleInv ==
  ASSUME IInv, OnIdle, ChainKept
  PROVE  IInv'
<1>1. /\ template' = template /\ pausers' = pausers /\ lock' = lock /\ threads' = threads
      /\ mstop' = mstop /\ left' = left /\ Goto(Idle, "tip")
  BY Zenon DEF OnIdle, minerVars
<1>2. Idle \in Thread /\ Idle \notin Worker /\ Idle \notin Caller /\ Idle # Net
  BY Kinds, Zenon
<1>3. Place(Idle, "tip") /\ "tip" \in Pcs
  BY <1>2 DEF Place, Pcs
<1>4. pausers' = (pausers - Pauses(Idle, thr[Idle].pc)) + Pauses(Idle, "tip")
  BY <1>1, <1>2, PauserType DEF Pauses
<1>5. ThreadStep(Idle)
  BY <1>1, <1>2, <1>3, <1>4, GotoStep, Zenon
<1>6. LockStep(Idle)
  BY <1>1, <1>2, SameLock, Zenon
<1>7. LimitsKept
  BY <1>1, SameLimits, Zenon DEF IInv, Types
<1> QED BY <1>2, <1>5, <1>6, <1>7, InvStep, Zenon

\* A step of the thread that handles the blocks of the network
LEMMA NetStep ==
  ASSUME IInv, NEW q \in Busy, NEW txs \in Seq(Tx),
         thr' = [thr EXCEPT ![Net].pc = q, ![Net].txs = txs],
         template' = template, lock' = lock, threads' = threads,
         pausers' = IF thr[Net].pc = "rest" THEN pausers + 1 ELSE pausers,
         LimitsKept, ChainKept
  PROVE  IInv'
<1> DEFINE r == [thr[Net] EXCEPT !.pc = q, !.txs = txs]
<1>1. Net \in Thread /\ Net \notin Worker /\ Net \notin Caller /\ Net # Idle
  BY Kinds, Zenon
<1>2. q \in Pcs /\ Place(Net, q) /\ q # "rest"
  BY <1>1 DEF Busy, Pcs, Place
<1>3. /\ r \in Threads /\ r.pc = q /\ r.b = thr[Net].b /\ r.tmpl = thr[Net].tmpl
      /\ thr' = [thr EXCEPT ![Net] = r]
  BY <1>1, <1>2, Zenon DEF IInv, Types, Threads
<1> HIDE DEF r
<1>4. Fits(main, nextId, r.tmpl) /\ Fits(main, nextId, r.b)
  BY <1>1, <1>3, Zenon DEF IInv, TemplatesFit
<1>5. pausers' = (pausers - Pauses(Net, thr[Net].pc)) + Pauses(Net, r.pc)
  BY <1>1, <1>2, <1>3, PauserType DEF Pauses
<1>6. Place(Net, r.pc)
  BY <1>2, <1>3
<1>7. ThreadStep(Net)
  BY <1>1, <1>3, <1>4, <1>5, <1>6, OneThread, Zenon
<1>8. LockStep(Net)
  BY <1>1, SameLock, Zenon
<1> QED BY <1>1, <1>7, <1>8, InvStep, Zenon

LEMMA NetInv ==
  ASSUME IInv, NetBegin \/ NetBlock \/ NetRefused \/ NetAlternative \/ NetReorganize, ChainKept
  PROVE  IInv'
<1>1. CASE NetBegin
  <2>1. PICK txs \in Bodies : thr' = [thr EXCEPT ![Net].pc = "add", ![Net].txs = txs]
    BY <1>1, Zenon DEF NetBegin
  <2>2. /\ template' = template /\ pausers' = pausers + 1 /\ lock' = lock /\ threads' = threads
        /\ mstop' = mstop /\ left.deliveries > 0 /\ left' = [left EXCEPT !.deliveries = @ - 1]
        /\ thr[Net].pc = "rest"
    BY <1>1, Zenon DEF NetBegin
  <2>3. txs \in Seq(Tx) /\ "add" \in Busy
    BY MiningAssumption, Zenon DEF Busy
  <2>4. LimitsKept
    BY <2>2, FewerLeft, Zenon
  <2> QED BY <2>1, <2>2, <2>3, <2>4, NetStep, Zenon
<1>2. CASE NetBlock \/ NetRefused \/ NetAlternative \/ NetReorganize
  <2>1. PICK q \in {"tip", "resume"} : thr' = [thr EXCEPT ![Net].pc = q, ![Net].txs = <<>>]
    <3>1. NetDone \/ NetNotAdded
      BY <1>2, Zenon DEF NetBlock, NetRefused, NetAlternative, NetReorganize
    <3> QED BY <3>1, Zenon DEF NetDone, NetNotAdded
  <2>2. /\ template' = template /\ pausers' = pausers /\ lock' = lock /\ threads' = threads
        /\ mstop' = mstop /\ left' = left
    BY <1>2, Zenon DEF NetBlock, NetRefused, NetAlternative, NetReorganize, minerVars
  <2>3. thr[Net].pc = "add"
    BY <1>2, Zenon DEF NetBlock, NetRefused, NetAlternative, NetReorganize
  <2>4. q \in Busy /\ <<>> \in Seq(Tx)
    BY DEF Busy
  <2>5. pausers' = IF thr[Net].pc = "rest" THEN pausers + 1 ELSE pausers
    BY <2>2, <2>3
  <2>6. LimitsKept
    BY <2>2, SameLimits, Zenon DEF IInv, Types
  <2> QED BY <2>1, <2>2, <2>4, <2>5, <2>6, NetStep, Zenon
<1> QED BY <1>1, <1>2

LEMMA PoolInv ==
  ASSUME IInv, NEW t \in Tx, AddTx(t) \/ Expire(t), ChainKept
  PROVE  IInv'
<1>1. /\ template' = template /\ pausers' = pausers /\ lock' = lock /\ threads' = threads
      /\ mstop' = mstop /\ thr' = thr
  BY Zenon DEF AddTx, Expire, minerVars
<1>2. LimitsKept
  BY <1>1, FewerLeft, Zenon DEF AddTx, Expire
<1>3. Idle \in Thread /\ Idle \notin Worker /\ Idle \notin Caller /\ Idle # Net
  BY Kinds, Zenon
<1> DEFINE r == thr[Idle]
<1>4. r \in Threads /\ thr' = [thr EXCEPT ![Idle] = r]
  BY <1>1, <1>3 DEF IInv, Types
<1>5. Place(Idle, r.pc) /\ Fits(main, nextId, r.tmpl) /\ Fits(main, nextId, r.b)
  BY <1>3, Zenon DEF IInv, Control, Places, TemplatesFit
<1>6. pausers' = (pausers - Pauses(Idle, thr[Idle].pc)) + Pauses(Idle, r.pc)
  BY <1>1, <1>3, PauserType DEF Pauses
<1>7. ThreadStep(Idle)
  BY <1>1, <1>3, <1>4, <1>5, <1>6, OneThread, Zenon
<1>8. LockStep(Idle)
  BY <1>1, <1>3, SameLock, Zenon
<1> QED BY <1>2, <1>3, <1>7, <1>8, InvStep, Zenon
----------------------------------------------------------------------------
(***************************************************************************)
(* The theorems.                                                           *)
(***************************************************************************)
LEMMA InitInv ==
  ASSUME Init
  PROVE  IInv
<1> DEFINE g == NewBlock(1, <<>>)
<1>1. /\ main = <<g>> /\ nextId = 2 /\ aliasCache = {} /\ pool = <<>> /\ template = NoTemplate
      /\ mstop = TRUE /\ pausers = 0 /\ threads = {} /\ lock = Free /\ left \in Bounds
      /\ thr = [x \in Thread |-> Resting(IF x \in Worker THEN "dead" ELSE "rest")]
  BY Zenon DEF Init
<1>2. g \in BlockRecords /\ g.id = 1 /\ g.txs = <<>>
  BY DEF NewBlock, BlockRecords
<1> HIDE DEF g
<1>3. main \in Seq(BlockRecords) /\ main # <<>> /\ DOMAIN main = {1} /\ main[1] = g /\ Len(main) = 1
  BY <1>1, <1>2
<1>4. left \in Limits /\ left.blocks > 0
  <2>1. left \in [blocks : Nat \ {0}, finds : Nat, deliveries : Nat, calls : [Caller -> Nat],
                 size : Nat, arrivals : Nat, removals : Nat]
    BY <1>1, MiningAssumption, Zenon
  <2> QED BY <2>1 DEF Limits
<1>5. NoTemplate \in Templates /\ NoTemplate.prev = 0
  BY DEF NoTemplate, Templates
<1>6. ASSUME NEW x \in Thread
      PROVE  /\ thr[x] \in Threads /\ thr[x].pc = (IF x \in Worker THEN "dead" ELSE "rest")
             /\ thr[x].fresh = FALSE /\ thr[x].b = NoTemplate /\ thr[x].tmpl = NoTemplate
  BY <1>1, <1>5 DEF Resting, Threads, Pcs
<1>7. thr \in [Thread -> Threads]
  BY <1>1, <1>6, Zenon
<1>8. Types
  <2>1. nextId \in Nat /\ nextId > 1 /\ nextId <= left.blocks + 1
    BY <1>1, <1>4 DEF Limits
  <2>2. DOMAIN pool = {}
    BY <1>1
  <2> QED BY <1>1, <1>3, <1>4, <1>5, <1>7, <2>1, <2>2, Zenon DEF Types
<1>9. Control
  <2>1. Places
    BY <1>6, Kinds, Zenon DEF Places, Place
  <2>2. Started
    BY <1>6, Kinds, Zenon DEF Started, Holding, Starting
  <2>3. HasBlock
    BY <1>6, Kinds, Zenon DEF HasBlock
  <2>4. Paused = {}
    BY <1>6, Kinds, Zenon DEF Paused, Busy
  <2>5. Balanced
    <3>1. Cardinality(Paused) = 0
      BY <2>4, FS_EmptySet, Zenon
    <3>2. thr[Net].pc = "rest"
      BY <1>6, Kinds, Zenon
    <3> QED BY <1>1, <3>1, <3>2 DEF Balanced
  <2> QED BY <2>1, <2>2, <2>3, <2>5 DEF Control
<1>10. ChainOk
  <2>1. Mined(main) = {}
    BY <1>2, <1>3 DEF Mined, Range
  <2>2. AliasesIn(Mined(main)) = {} /\ DOMAIN pool = {}
    BY <1>1, <2>1 DEF AliasesIn
  <2>3. \A i \in DOMAIN main : main[i].id \in 1..(nextId - 1)
    BY <1>1, <1>2, <1>3
  <2> QED BY <1>1, <1>3, <2>2, <2>3, Zenon DEF ChainOk
<1>11. Fits(main, nextId, NoTemplate)
  BY <1>1, <1>2, <1>3, <1>5 DEF Fits
<1>12. TemplatesFit
  BY <1>1, <1>6, <1>11, Zenon DEF TemplatesFit
<1> QED BY <1>8, <1>9, <1>10, <1>12 DEF IInv

LEMMA NextInv ==
  ASSUME IInv, [Next]_vars
  PROVE  IInv'
<1>1. CASE Next
  <2>1. ChainKept
    BY <1>1, ChainInv DEF IInv
  <2>2. ASSUME NEW x \in Thread, Proceed(x) PROVE IInv'
    <3>1. CASE TakeTip(x)
      BY <2>1, <3>1, TakeTipInv, Zenon
    <3>2. CASE Fill(x)
      BY <2>1, <3>2, FillInv, Zenon
    <3>3. CASE SetBlockTemplate(x)
      BY <2>1, <3>3, SetInv, Zenon
    <3>4. CASE Resume(x)
      BY <2>1, <3>4, ResumeInv, Zenon
    <3>5. CASE x \in Worker /\ (Loop(x) \/ ReadTemplateNo(x) \/ HashFails(x) \/ AddFound(x))
      BY <2>1, <3>5, LoopInv, ReadTemplateNoInv, HashFailsInv, AddFoundInv, Zenon
    <3>6. CASE x \in Caller /\ (Start(x) \/ Launch(x) \/ SendStopSignal(x) \/ Stop(x) \/ Join(x))
      BY <2>1, <3>6, StartInv, LaunchInv, CallInv, StopInv, JoinInv, Zenon
    <3>7. CASE NetBlock \/ NetRefused \/ NetAlternative \/ NetReorganize
      BY <2>1, <3>7, NetInv, Zenon
    <3>8. CASE OnIdle
      BY <2>1, <3>8, OnIdleInv, Zenon
    <3> QED BY <2>2, <3>1, <3>2, <3>3, <3>4, <3>5, <3>6, <3>7, <3>8, Zenon DEF Proceed
  <2>3. ASSUME NEW w \in Worker, Find(w) PROVE IInv'
    BY <2>1, <2>3, FindInv, Zenon
  <2>4. ASSUME NEW c \in Caller, CallStart(c) \/ CallStop(c) PROVE IInv'
    BY <2>1, <2>4, CallInv, Zenon
  <2>5. CASE NetBegin
    BY <2>1, <2>5, NetInv, Zenon
  <2>6. ASSUME NEW t \in Tx, AddTx(t) \/ Expire(t) PROVE IInv'
    BY <2>1, <2>6, PoolInv, Zenon
  <2> QED BY <1>1, <2>2, <2>3, <2>4, <2>5, <2>6, Zenon DEF Next
<1>2. CASE UNCHANGED vars
  <2>1. /\ main' = main /\ nextId' = nextId /\ aliasCache' = aliasCache /\ pool' = pool
        /\ template' = template /\ mstop' = mstop /\ pausers' = pausers /\ threads' = threads
        /\ lock' = lock /\ thr' = thr /\ left' = left
    BY <1>2 DEF vars, chainVars, minerVars
  <2>2. Types'
    BY <2>1, Zenon DEF IInv, Types
  <2>3. Control'
    BY <2>1, Zenon DEF IInv, Control, Places, Started, HasBlock, Balanced, Paused
  <2>4. ChainOk'
    BY <2>1, Zenon DEF IInv, ChainOk
  <2>5. TemplatesFit'
    BY <2>1, Zenon DEF IInv, TemplatesFit
  <2> QED BY <2>2, <2>3, <2>4, <2>5 DEF IInv
<1> QED BY <1>1, <1>2

\* Whatever calls of start and stop, blocks and transactions come: the locks, the threads and
\* the pauses agree; no transaction and no alias is mined twice; and every template that is
\* built on the tip of the chain holds transactions that this chain can take.
THEOREM Inductive == Spec => []IInv
<1>1. Init => IInv
  BY InitInv
<1>2. IInv /\ [Next]_vars => IInv'
  BY NextInv
<1> QED BY <1>1, <1>2, PTL DEF Spec
\* m_pausers_count is the number of handlers that have paused the miner and not resumed it.
THEOREM PausersAlwaysExact == Spec => []PausersExact
<1>1. ASSUME IInv PROVE PausersExact
  <2>1. Types /\ Control /\ ChainOk /\ TemplatesFit
    BY <1>1 DEF IInv
  <2>2. pausers \in Nat
    BY <1>1, PauserType
  <2>3. nextId \in 2..(left.blocks + 1) /\ template.prev \in 0..(nextId - 1)
    <3>1. template.prev \in Nat /\ left.blocks \in Nat
      BY <2>1 DEF Types, Templates, Limits
    <3> QED BY <2>1, <3>1 DEF Types, TemplatesFit, Fits
  <2>4. TypeOK
    BY <2>1, <2>2, <2>3, Zenon DEF TypeOK, Types, ChainOk, Control, HasBlock
  <2> QED BY <2>1, <2>4, Zenon DEF PausersExact, Control, Balanced, Paused, Busy
<1> QED BY <1>1, Inductive, PTL

\* The threads of a start begin only when all threads of the miner have ended.
LEMMA OnlyLaunchStarts ==
  ASSUME IInv, Next, NEW w \in Worker, thr[w].pc = "dead", thr'[w].pc # "dead"
  PROVE  \E c \in Caller : Launch(c)
<1>1. w \in Thread /\ w # Net /\ w # Idle /\ thr \in [Thread -> Threads]
  BY Kinds, Zenon DEF IInv, Types
<1>2. ASSUME NEW x \in Thread, Proceed(x), ~(x \in Caller /\ Launch(x)) PROVE FALSE
  <2>1. ASSUME NEW q, Goto(x, q), thr[x].pc # "dead" PROVE FALSE
    BY <1>1, <2>1 DEF Goto
  <2>2. CASE TakeTip(x) \/ Fill(x)
    BY <1>1, <2>2 DEF TakeTip, Fill
  <2>3. CASE SetBlockTemplate(x)
    <3>1. w # x /\ thr'[w] = [thr[w] EXCEPT !.fresh = FALSE]
      BY <1>1, <2>3, Zenon DEF SetBlockTemplate
    <3>2. thr[w] \in Threads
      BY <1>1
    <3> QED BY <3>1, <3>2 DEF Threads
  <2>4. CASE Resume(x) \/ HashFails(x) \/ AddFound(x)
    BY <2>1, <2>4 DEF Resume, HashFails, AddFound
  <2>5. CASE Start(x) \/ SendStopSignal(x) \/ Stop(x) \/ Join(x)
    BY <2>1, <2>5 DEF Start, SendStopSignal, Stop, Join
  <2>6. CASE Loop(x) \/ ReadTemplateNo(x)
    BY <1>1, <2>6 DEF Loop, ReadTemplateNo, Goto
  <2>7. CASE NetBlock \/ NetRefused \/ NetAlternative \/ NetReorganize
    <3>1. NetDone \/ NetNotAdded
      BY <2>7, Zenon DEF NetBlock, NetRefused, NetAlternative, NetReorganize
    <3> QED BY <1>1, <3>1, Zenon DEF NetDone, NetNotAdded
  <2>8. CASE x = Idle /\ OnIdle
    BY <2>1, <2>8 DEF OnIdle
  <2> QED BY <1>2, <2>2, <2>3, <2>4, <2>5, <2>6, <2>7, <2>8, Zenon DEF Proceed
<1>3. ASSUME NEW v \in Worker, Find(v) PROVE FALSE
  BY <1>1, <1>3 DEF Find, Goto
<1>4. ASSUME NEW c \in Caller, CallStart(c) \/ CallStop(c) PROVE FALSE
  BY <1>1, <1>4 DEF CallStart, CallStop, Goto
<1>5. CASE NetBegin
  BY <1>1, <1>5 DEF NetBegin
<1>6. ASSUME NEW t \in Tx, AddTx(t) \/ Expire(t) PROVE FALSE
  BY <1>6, Zenon DEF AddTx, Expire
<1> QED BY <1>2, <1>3, <1>4, <1>5, <1>6, Zenon DEF Next

\* miner::start never runs threads beside those of an earlier start, whatever calls of
\* start and stop overlap: m_threads is empty under the lock only once they are joined.
THEOREM NeverOverlap == Spec => NoOverlap
<1>1. ASSUME IInv, [Next]_vars, NEW w \in Worker, thr[w].pc = "dead", thr'[w].pc # "dead"
      PROVE  \A v \in Worker : thr[v].pc = "dead"
  <2>1. Next
    BY <1>1 DEF vars
  <2>2. PICK c \in Caller : Launch(c)
    BY <1>1, <2>1, OnlyLaunchStarts, Zenon
  <2>3. thr[c].pc \in Starting
    BY <2>2 DEF Launch, Starting
  <2> QED BY <1>1, <2>3, Zenon DEF IInv, Control, Started
<1>2. ASSUME IInv, [Next]_vars
      PROVE  [(\E w \in Worker : thr[w].pc = "dead" /\ thr'[w].pc # "dead")
                => \A w \in Worker : thr[w].pc = "dead"]_vars
  BY <1>1, <1>2, Zenon
<1> QED BY <1>2, Inductive, PTL DEF Spec, NoOverlap

\* A block that was found on top of the chain is connected, when its transactions are still in
\* the pool and none of its aliases is taken twice or left over in the database's map: a template
\* on the tip was filled on the very chain that the tip ends.
THEOREM FoundBlocksVerify == Spec => MinedVerifies
<1> DEFINE In(w) == Range(thr[w].b.txs)
           Usable(w) ==
             /\ AddFound(w) /\ thr[w].b.prev = Tip.id /\ In(w) \subseteq DOMAIN pool
             /\ \A x, y \in In(w) : AliasOf[x] = AliasOf[y] => x = y \/ AliasOf[x] = NoAlias
             /\ AliasesIn(In(w)) \cap aliasCache \subseteq AliasesIn(Mined(main))
<1>1. ASSUME IInv, NEW w \in Worker, Usable(w) PROVE main' # main
  <2> DEFINE s == thr[w].b.txs
  <2>1. w \in Thread /\ Types /\ ChainOk /\ TemplatesFit
    BY <1>1, Kinds, Zenon DEF IInv
  <2>2. s \in Seq(Tx) /\ DOMAIN s = 1..Len(s) /\ Len(s) \in Nat
    BY <2>1 DEF Types, Threads, Templates
  <2>3. FitsChain(main, s)
    BY <1>1, <2>1, Zenon DEF TemplatesFit, Fits, Tip
  <2>4. \A i \in DOMAIN s : s[i] \in Range(s)
    BY DEF Range
  <2>5. /\ Range(s) \subseteq DOMAIN pool
        /\ \A x, y \in Range(s) : AliasOf[x] = AliasOf[y] => x = y \/ AliasOf[x] = NoAlias
        /\ AliasesIn(Range(s)) \cap aliasCache \subseteq AliasesIn(Mined(main))
    BY <1>1, Zenon
  <2>6. ASSUME NEW i \in DOMAIN s, NEW u \in Before(s, i)
        PROVE  \E j \in DOMAIN s : j # i /\ u = s[j]
    <3>1. i \in 1..(Len(s) + 1)
      BY <2>2
    <3>2. PICK j \in 1..(i - 1) : u = s[j]
      BY <2>2, <3>1, BeforeFacts, Zenon
    <3>3. j \in DOMAIN s /\ j # i
      BY <2>2
    <3> QED BY <3>2, <3>3, Zenon
  <2> HIDE DEF s
  <2>7. ASSUME NEW i \in DOMAIN s PROVE ~CannotTake(s, i)
    <3>1. s[i] \notin Mined(main) /\ s[i] \in DOMAIN pool
      BY <2>3, <2>4, <2>5, Zenon DEF FitsChain
    <3>2. ASSUME s[i] \in Before(s, i) PROVE FALSE
      <4>1. PICK j \in DOMAIN s : j # i /\ s[i] = s[j]
        BY <2>6, <3>2, Zenon
      <4> QED BY <2>3, <4>1, Zenon DEF FitsChain
    <3> QED BY <3>1, <3>2, Zenon DEF CannotTake
  <2>8. ASSUME NEW i \in DOMAIN s PROVE ~BadOnceTaken(s, i)
    <3>1. InputsOk(main, s[i]) /\ AliasOf[s[i]] \notin AliasesIn(Mined(main))
      BY <2>3, <2>4, Zenon DEF FitsChain
    <3>2. AliasOf[s[i]] = NoAlias \/ AliasOf[s[i]] \in AliasesIn(Range(s))
      BY <2>4, Zenon DEF AliasesIn
    <3> QED BY <2>1, <2>5, <3>1, <3>2, Zenon DEF BadOnceTaken, ChainOk
  <2>9. ASSUME NEW i \in DOMAIN s PROVE ~DbRefuses(s, i)
    <3>1. ASSUME NEW u \in Before(s, i)
          PROVE  Images[s[i]] \cap Images[u] = {} /\ (AliasOf[u] = AliasOf[s[i]] => AliasOf[u] = NoAlias)
      <4>1. PICK j \in DOMAIN s : j # i /\ u = s[j]
        BY <2>6, Zenon
      <4>2. s[i] # s[j] /\ Images[s[i]] \cap Images[s[j]] = {}
        BY <2>3, <4>1, Zenon DEF FitsChain
      <4> QED BY <2>4, <2>5, <4>1, <4>2, Zenon
    <3>2. Images[s[i]] \cap ImagesIn(Before(s, i)) = {}
      BY <3>1 DEF ImagesIn
    <3>3. AliasOf[s[i]] \notin AliasesIn(Before(s, i))
      BY <3>1, Zenon DEF AliasesIn
    <3> QED BY <3>2, <3>3, Zenon DEF DbRefuses
  <2>10. Connects(s)
    BY <2>7, <2>8, <2>9, Zenon DEF Connects, Problems, DbProblems
  <2>11. Connect(s)
    BY <1>1, <2>10, Zenon DEF AddFound, s
  <2> QED BY <2>1, <2>2, <2>10, <2>11, ConnectStep, Zenon
<1>2. ASSUME IInv
      PROVE  [\A w \in Worker :
                LET b == thr[w].b
                    S == Range(b.txs)
                IN /\ AddFound(w) /\ b.prev = Tip.id /\ S \subseteq DOMAIN pool
                   /\ \A x, y \in S : AliasOf[x] = AliasOf[y] => x = y \/ AliasOf[x] = NoAlias
                   /\ AliasesIn(S) \cap aliasCache \subseteq AliasesIn(Mined(main))
                   => main' # main]_vars
  BY <1>1, <1>2, Zenon
<1> QED BY <1>2, Inductive, PTL DEF MinedVerifies
=============================================================================

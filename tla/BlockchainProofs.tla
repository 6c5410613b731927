--------------------------- MODULE BlockchainProofs ---------------------------
(***************************************************************************)
(* Proofs about the main chain and its switches, for every block tree and  *)
(* every set of checkpoints: facts about the block tree and the operators  *)
(* of Blockchain, the inductive invariant, which holds initially and is    *)
(* kept by every step, and what follows from it.                           *)
(***************************************************************************)
EXTENDS Blockchain, DataLemmas

(***************************************************************************)
(* The block tree.                                                         *)
(***************************************************************************)
LEMMA Tree == IsTree(Block, Genesis, Path)
BY BlockAssumption, Zenon DEF IsTree, ParentIn

\* A block's path ends in the block; that of a block other than the genesis block
\* is the path of its parent and the block.
LEMMA PathEnds ==
  ASSUME NEW b \in Block
  PROVE  /\ Len(Path[Genesis]) = 1 /\ Genesis \in Block
         /\ Path[b] \in Seq(Block) /\ Len(Path[b]) \in Nat \ {0}
         /\ Path[b][Len(Path[b])] = b
         /\ b # Genesis => /\ Parent(b) \in Block
                           /\ Path[b] = Append(Path[Parent(b)], b)
                           /\ Len(Path[b]) = Len(Path[Parent(b)]) + 1
                           /\ Len(Path[Parent(b)]) \in Nat \ {0}
                           /\ Work[b] > Work[Parent(b)]
<1>1. Len(Path[Genesis]) = 1 /\ Genesis \in Block
  BY BlockAssumption
<1>2. b # Genesis => Work[b] > Work[Parent(b)]
  BY BlockAssumption, Zenon DEF Parent
<1>3. Parent(b) = ParentIn(Path, b)
  BY Zenon DEF Parent, ParentIn
<1> QED BY <1>1, <1>2, <1>3, Tree, TreeEnds

\* Every prefix of a path is the path of the block it ends in, and every path
\* begins with the genesis block.
LEMMA PrefixIsPath ==
  ASSUME NEW b \in Block, NEW i \in 1..Len(Path[b])
  PROVE  /\ Path[b][i] \in Block
         /\ Path[Path[b][i]] = SubSeq(Path[b], 1, i)
         /\ Len(Path[Path[b][i]]) = i
         /\ Path[b][1] = Genesis
         /\ i > 1 => Parent(Path[b][i]) = Path[b][i - 1] /\ Path[b][i] # Genesis
<1>1. Parent(Path[b][i]) = ParentIn(Path, Path[b][i])
  BY DEF Parent, ParentIn
<1> QED BY <1>1, Tree, TreePrefix

\* A block is on another's path at its own height only.
LEMMA OnPath ==
  ASSUME NEW b \in Block, NEW x \in Range(Path[b])
  PROVE  /\ x \in Block /\ Len(Path[x]) \in 1..Len(Path[b])
         /\ Path[b][Len(Path[x])] = x
         /\ Path[x] = SubSeq(Path[b], 1, Len(Path[x]))
BY Tree, TreeOnPath

----------------------------------------------------------------------------
(***************************************************************************)
(* Lists of blocks, and positions in them.                                 *)
(***************************************************************************)
LEMMA RangeOfPrefix ==
  ASSUME NEW c \in Seq(Block), NEW k \in 0..Len(c)
  PROVE  Range(SubSeq(c, 1, k)) \subseteq Range(c)
<1>1. \A i \in DOMAIN SubSeq(c, 1, k) : i \in DOMAIN c /\ SubSeq(c, 1, k)[i] = c[i]
  OBVIOUS
<1> QED BY <1>1, Zenon DEF Range

LEMMA PrefixFacts ==
  ASSUME NEW c \in Seq(Block), NEW k \in 0..Len(c)
  PROVE  SubSeq(c, 1, k) \in Seq(Block) /\ Len(SubSeq(c, 1, k)) = k
OBVIOUS

LEMMA Rejoin ==
  ASSUME NEW c \in Seq(Block), NEW k \in 1..Len(c)
  PROVE  c = SubSeq(c, 1, k) \o SubSeq(c, k + 1, Len(c))
OBVIOUS

LEMMA ListFacts ==
  ASSUME NEW c \in Seq(Block)
  PROVE  /\ Len(c) \in Nat /\ DOMAIN c = 1..Len(c) /\ c \o <<>> = c
         /\ \A i \in 1..Len(c) : c[i] \in Block /\ c[i] \in Range(c)
         /\ c # <<>> => Len(c) \in Nat \ {0} /\ Len(c) \in 1..Len(c) /\ c[Len(c)] \in Block
BY DEF Range

LEMMA NoBlocks == <<>> \in Seq(Block) /\ Range(<<>>) = {}
BY DEF Range

\* The part of a list above its first k elements
LEMMA AboveFacts ==
  ASSUME NEW c \in Seq(Block), NEW k \in Nat, k <= Len(c)
  PROVE  LET d == SubSeq(c, k + 1, Len(c))
         IN  /\ Len(d) = Len(c) - k /\ Len(d) \in Nat
             /\ \A j \in 1..Len(d) : d[j] = c[k + j]
OBVIOUS

LEMMA Beyond ==
  ASSUME NEW c \in Nat \ {0}, NEW l \in Nat, c <= l, NEW j \in 1..(l - c)
  PROVE  c + j \in 1..l /\ c + j > 1
OBVIOUS

LEMMA Forward ==
  ASSUME NEW c \in Nat \ {0}, NEW m \in Nat, NEW j \in 1..m
  PROVE  /\ c + j \in 0..(c + m) /\ c + j - 1 \in 0..(c + m)
         /\ c + j - 1 \in c..(c + j - 1)
         /\ j + 1 \in 1..(m + 1) /\ j + 1 \in Nat /\ j + 1 > 0 /\ c + (j + 1) - 1 = c + j
OBVIOUS

LEMMA NotLast ==
  ASSUME NEW m \in Nat, NEW j \in 1..(m + 1), j <= m
  PROVE  j \in 1..m
OBVIOUS

LEMMA FirstOf ==
  ASSUME NEW c \in Nat \ {0}, NEW m \in Nat
  PROVE  /\ c + 1 - 1 = c /\ 1 \in 1..(m + 1) /\ c \in 1..c /\ c \in 1..(c + m)
         /\ c \in 0..(c + m)
OBVIOUS

LEMMA OneIsPositive == 1 > 0
OBVIOUS

LEMMA Upper ==
  ASSUME NEW k \in Nat, NEW l \in Nat, NEW i \in (k + 1)..l
  PROVE  i \in 1..l /\ i - 1 <= l
OBVIOUS

----------------------------------------------------------------------------
(***************************************************************************)
(* The inductive invariant.                                                *)
(***************************************************************************)
\* The length of what the old and the new chain of a switch have in common
Common == Height(branch[1])

\* The block a switch leads to
Target == branch[Len(branch)]

Versions == {VersionAt[h] : h \in DOMAIN VersionAt}

\* The types; every block of the chain is of a version of the table.
Types ==
  /\ TypeOK
  /\ \A i \in DOMAIN main : Version[main[i]] \in Versions

\* The chain is a path of the tree and sound, and the cache knows its aliases.
Chain ==
  /\ main = Path[Tail_id]
  /\ Sound(main)
  /\ AliasesIn(Mined(main)) \subseteq aliasCache

\* What a switch works on: the chain it began with, and a branch that leaves it.
Fork ==
  IF step = "idle" THEN old = <<>>
  ELSE /\ before # <<>> /\ before = Path[before[Len(before)]]
       /\ branch # <<>> /\ Common \in 1..Len(before)
       /\ Path[Target] = SubSeq(before, 1, Common) \o branch
       /\ Range(branch) \subseteq alt
       /\ Range(branch) \cap Range(before) = {}
       /\ Work[Target] > Work[before[Len(before)]] \/ Target \in Checkpoints

\* Where each step of a switch stands.
Progress ==
  /\ step = "pop" => before = main \o old /\ Len(main) >= Common
  /\ step \notin {"idle", "pop"} =>
       split = Common /\ old = SubSeq(before, Common + 1, Len(before))
  /\ step = "connect" =>
       n \in 1..(Len(branch) + 1) /\ main = SubSeq(Path[Target], 1, Common + n - 1)
  /\ step = "push" => n > 0 /\ main = Path[Target]
  /\ step \in {"unwind", "restore"} => fail \in 1..Len(branch)
  /\ step = "unwind" =>
       /\ Len(main) \in Common..(Common + fail - 1)
       /\ main = SubSeq(Path[Target], 1, Len(main))
  /\ step = "restore" =>
       n \in 1..(Len(old) + 1) /\ main = SubSeq(before, 1, Common + n - 1)

\* Which containers a block may be in, also while a switch runs.
Roles ==
  /\ Range(main) \cap invalid = {}
  /\ (alt \ Range(branch)) \cap invalid = {}
  /\ step = "idle" => Range(main) \cap alt = {} /\ branch = <<>>
  /\ step # "idle" =>
       /\ Range(before) \cap invalid = {}
       /\ Range(SubSeq(before, 1, Common)) \cap alt = {}
  /\ step \notin {"idle", "push"} => Range(before) \cap alt = {}
  /\ step \in {"unwind", "restore"} => Range(branch) \cap invalid \subseteq {branch[fail]}
  /\ step \notin {"unwind", "restore"} => Range(branch) \cap invalid = {}

\* Where checkpoints may be: no block disagrees with one, and a switch pops none.
Checked ==
  /\ \A b \in Range(main) \cup alt : CheckBlock(b)
  /\ alt \cap Checkpoints \subseteq (IF step = "idle" THEN {} ELSE {Target})
  /\ step # "idle" =>
       /\ \A b \in Range(before) : CheckBlock(b)
       /\ \A i \in (Common + 1)..Len(before) : before[i] \notin Checkpoints

IInv == Types /\ Chain /\ Fork /\ Progress /\ Roles /\ Checked

----------------------------------------------------------------------------
(***************************************************************************)
(* The transactions of a chain.                                            *)
(***************************************************************************)
\* A chain's transactions are those below its last block and those of it.
LEMMA MinedAppend ==
  ASSUME NEW c \in Seq(Block), NEW b \in Block
  PROVE  Mined(Append(c, b)) = Mined(c) \cup TxSet(b)
<1>1. DOMAIN Append(c, b) = DOMAIN c \cup {Len(c) + 1}
  OBVIOUS
<1>2. \A h \in DOMAIN c : Append(c, b)[h] = c[h]
  OBVIOUS
<1>3. Append(c, b)[Len(c) + 1] = b
  OBVIOUS
<1> QED BY <1>1, <1>2, <1>3, Zenon DEF Mined

LEMMA MinedSplit ==
  ASSUME NEW c \in Seq(Block), c # <<>>
  PROVE  /\ Mined(c) = Mined(SubSeq(c, 1, Len(c) - 1)) \cup TxSet(c[Len(c)])
         /\ SubSeq(c, 1, Len(c) - 1) \in Seq(Block)
         /\ Len(SubSeq(c, 1, Len(c) - 1)) = Len(c) - 1
<1>1. c = Append(SubSeq(c, 1, Len(c) - 1), c[Len(c)])
  OBVIOUS
<1>2. Len(c) \in Nat \ {0} /\ c[Len(c)] \in Block
  OBVIOUS
<1>3. SubSeq(c, 1, Len(c) - 1) \in Seq(Block)
  BY <1>2
<1>4. Len(SubSeq(c, 1, Len(c) - 1)) = Len(c) - 1
  BY <1>1, <1>2, <1>3, AppendFacts
<1> QED BY <1>1, <1>2, <1>3, <1>4, MinedAppend, Zenon

\* What a shorter chain has mined, a longer one has.
LEMMA MinedPrefix ==
  ASSUME NEW c \in Seq(Block), NEW k \in 0..Len(c)
  PROVE  Mined(SubSeq(c, 1, k)) \subseteq Mined(c)
<1>1. \A i \in DOMAIN SubSeq(c, 1, k) : i \in DOMAIN c /\ SubSeq(c, 1, k)[i] = c[i]
  OBVIOUS
<1> QED BY <1>1, Zenon DEF Mined

\* A chain that is cut stays sound.
LEMMA SoundPrefix ==
  ASSUME NEW c \in Seq(Block), NEW k \in 0..Len(c), Sound(c)
  PROVE  Sound(SubSeq(c, 1, k))
<1> DEFINE d == SubSeq(c, 1, k)
<1>1. \A i \in DOMAIN d : i \in DOMAIN c /\ d[i] = c[i]
  OBVIOUS
<1>2. \A i \in DOMAIN d : SubSeq(d, 1, i - 1) = SubSeq(c, 1, i - 1)
  OBVIOUS
<1> HIDE DEF d
<1>3. Sound(d)
  BY <1>1, <1>2, Zenon DEF Sound
<1> QED BY <1>3 DEF d

\* The checks on a block's transactions, with those of the database, keep the
\* chain sound as long as the cache knows the chain's aliases.
LEMMA SoundAppend ==
  ASSUME TypeOK, Chain, NEW b \in Block, Accepted(b)
  PROVE  Sound(Append(main, b))
<1> DEFINE c == Append(main, b)
           txs == TxsOf[b]
<1>1. /\ main \in Seq(Block) /\ DOMAIN main = 1..Len(main)
      /\ DOMAIN c = 1..(Len(main) + 1) /\ c[Len(main) + 1] = b /\ Len(main) \in Nat
      /\ \A i \in 1..Len(main) : c[i] = main[i]
  BY DEF TypeOK
<1>2. \A i \in DOMAIN c : SubSeq(c, 1, i - 1) = SubSeq(main, 1, i - 1)
  BY <1>1
<1>3. SubSeq(main, 1, Len(main)) = main
  BY <1>1
<1>4. txs \in Seq(Tx) /\ DOMAIN txs = 1..Len(txs) /\ Len(txs) \in Nat
  BY BlockAssumption
<1> HIDE DEF c
<1>5. \A k \in DOMAIN txs : /\ ~CannotTake(b, k) /\ ~BadOnceTaken(b, k)
                             /\ ~DbRefuses(b, k)
  BY Zenon DEF Accepted, Valid, TxProblems, DbProblems
<1>6. \A k \in DOMAIN txs : /\ txs[k] \notin Mined(main)
                             /\ txs[k] \notin TakenBefore(b, k)
                             /\ Images[txs[k]] \cap ImagesIn(Mined(main)) = {}
                             /\ Deps[txs[k]] \subseteq Mined(main)
                             /\ AliasOf[txs[k]] \notin aliasCache
  BY <1>5, Zenon DEF CannotTake, BadOnceTaken
<1>7. \A k \in DOMAIN txs : /\ Images[txs[k]] \cap ImagesIn(TakenBefore(b, k)) = {}
                             /\ AliasOf[txs[k]] \notin AliasesIn(TakenBefore(b, k))
  BY <1>5, Zenon DEF DbRefuses
<1>8. ASSUME NEW k \in DOMAIN txs, NEW l \in DOMAIN txs, l < k
      PROVE  /\ Images[txs[k]] \cap Images[txs[l]] = {}
             /\ AliasOf[txs[k]] = AliasOf[txs[l]] => AliasOf[txs[k]] = NoAlias
  <2>1. txs[l] \in TakenBefore(b, k)
    BY <1>4, <1>8 DEF TakenBefore
  <2>2. Images[txs[l]] \subseteq ImagesIn(TakenBefore(b, k))
    BY <2>1, Zenon DEF ImagesIn
  <2>3. AliasOf[txs[l]] # NoAlias => AliasOf[txs[l]] \in AliasesIn(TakenBefore(b, k))
    BY <2>1, Zenon DEF AliasesIn
  <2> QED BY <1>7, <2>2, <2>3
<1>9. ASSUME NEW t \in TxSet(b), NEW u \in TxSet(b) \ {t}
      PROVE  /\ Images[t] \cap Images[u] = {}
             /\ AliasOf[t] = AliasOf[u] => AliasOf[t] = NoAlias
  <2>1. PICK k \in DOMAIN txs : t = txs[k]
    BY Zenon DEF TxSet, Range
  <2>2. PICK l \in DOMAIN txs : u = txs[l]
    BY Zenon DEF TxSet, Range
  <2>3. l < k \/ k < l
    BY <1>4, <2>1, <2>2
  <2>4. CASE l < k
    BY <1>8, <2>1, <2>2, <2>4, Zenon
  <2>5. CASE k < l
    BY <1>8, <2>1, <2>2, <2>5
  <2> QED BY <2>3, <2>4, <2>5
<1>10. ASSUME NEW t \in TxSet(b)
       PROVE  LET others == Mined(main) \cup (TxSet(b) \ {t})
              IN /\ t \notin Mined(main)
                 /\ Images[t] \cap ImagesIn(others) = {}
                 /\ AliasOf[t] \notin AliasesIn(others)
                 /\ Deps[t] \subseteq Mined(main)
  <2> DEFINE others == Mined(main) \cup (TxSet(b) \ {t})
  <2>1. PICK k \in DOMAIN txs : t = txs[k]
    BY Zenon DEF TxSet, Range
  <2>2. t \notin Mined(main) /\ Deps[t] \subseteq Mined(main)
    BY <1>6, <2>1
  <2>3. Images[t] \cap ImagesIn(others) = {}
    <3>1. \A u \in Mined(main) : Images[t] \cap Images[u] = {}
      BY <1>6, <2>1 DEF ImagesIn
    <3>2. \A u \in others : Images[t] \cap Images[u] = {}
      BY <1>9, <3>1
    <3> QED BY <3>2, Zenon DEF ImagesIn
  <2>4. AliasOf[t] \notin AliasesIn(others)
    <3>1. \A u \in Mined(main) : AliasOf[u] # NoAlias => AliasOf[u] \in aliasCache
      BY Zenon DEF Chain, AliasesIn
    <3>2. \A u \in others : AliasOf[u] # NoAlias => AliasOf[t] # AliasOf[u]
      BY <1>6, <1>9, <2>1, <3>1
    <3> QED BY <3>2, Zenon DEF AliasesIn
  <2> QED BY <2>2, <2>3, <2>4
<1>11. Sound(c)
  <2> SUFFICES ASSUME NEW i \in DOMAIN c, NEW t \in TxSet(c[i])
               PROVE  LET below == Mined(SubSeq(c, 1, i - 1))
                          others == below \cup (TxSet(c[i]) \ {t})
                      IN /\ t \notin below
                         /\ Images[t] \cap ImagesIn(others) = {}
                         /\ AliasOf[t] \notin AliasesIn(others)
                         /\ Deps[t] \subseteq below
    BY Zenon DEF Sound
  <2>1. CASE i \in 1..Len(main)
    <3>1. c[i] = main[i] /\ SubSeq(c, 1, i - 1) = SubSeq(main, 1, i - 1) /\ i \in DOMAIN main
      BY <1>1, <1>2, <2>1
    <3>2. Sound(main)
      BY DEF Chain
    <3> QED BY <3>1, <3>2, Zenon DEF Sound
  <2>2. CASE i \notin 1..Len(main)
    <3>1. i = Len(main) + 1 /\ c[i] = b
      BY <1>1, <2>2
    <3>2. SubSeq(c, 1, i - 1) = main
      BY <1>1, <1>2, <1>3, <3>1
    <3>3. t \in TxSet(b)
      BY <3>1
    <3> QED BY <3>1, <3>2, <3>3, <1>10, Zenon
  <2> QED BY <2>1, <2>2, Zenon
<1> QED BY <1>11 DEF c

----------------------------------------------------------------------------
(***************************************************************************)
(* What adding, refusing and popping a block do to the chain.              *)
(***************************************************************************)
\* A block that is accepted makes the chain its path; its transactions move from
\* the pool to the chain.
LEMMA AcceptStep ==
  ASSUME Types, Chain, NEW b \in Block \ {Genesis}, Accepted(b), Accept(b)
  PROVE  /\ main' = Append(main, b) /\ main' = Path[b] /\ main' \in Seq(Block)
         /\ Tail_id' = b /\ Len(main') = Len(main) + 1 /\ main' # <<>>
         /\ Chain'
         /\ pool' \subseteq Tx /\ aliasCache' \subseteq AliasesIn(Tx)
         /\ hf' \in Versions
         /\ \A i \in DOMAIN main' : Version[main'[i]] \in Versions
         /\ CheckBlock(b)
         /\ pool' \cup Mined(main') = pool \cup Mined(main)
<1>1. /\ main \in Seq(Block) /\ main' = Append(main, b) /\ Len(main) \in Nat
      /\ Parent(b) = Tail_id /\ hf = Version[b] /\ CheckBlock(b)
  BY DEF Types, TypeOK, Accept, Accepted, Valid, HeaderOk
<1>2. main' = Path[b]
  BY <1>1, PathEnds DEF Chain
<1>3. Len(main') = Len(main) + 1 /\ main' \in Seq(Block) /\ main' # <<>> /\ main'[Len(main')] = b
  BY <1>1, AppendFacts
<1>4. TxSet(b) \subseteq pool /\ TxSet(b) \subseteq Tx
  <2>1. \A k \in DOMAIN TxsOf[b] : TxsOf[b][k] \in pool
    BY Zenon DEF Accepted, Valid, TxProblems, CannotTake
  <2>2. \A t \in TxSet(b) : t \in pool
    BY <2>1, Zenon DEF TxSet, Range
  <2> QED BY <2>2 DEF Types, TypeOK
<1>5. Mined(main') = Mined(main) \cup TxSet(b)
  BY <1>1, MinedAppend
<1>6. Sound(main')
  BY <1>1, SoundAppend DEF Types
<1>7. AliasesIn(Mined(main')) \subseteq aliasCache'
  <2>1. aliasCache' = aliasCache \cup AliasesIn(TxSet(b))
    BY DEF Accept
  <2>2. AliasesIn(Mined(main) \cup TxSet(b)) \subseteq AliasesIn(Mined(main)) \cup AliasesIn(TxSet(b))
    BY Zenon DEF AliasesIn
  <2> QED BY <1>5, <2>1, <2>2, Zenon DEF Chain
<1>8. Chain'
  BY <1>2, <1>3, <1>6, <1>7 DEF Chain, Tail_id
<1>9. pool' \subseteq Tx /\ aliasCache' \subseteq AliasesIn(Tx)
  <2>1. AliasesIn(TxSet(b)) \subseteq AliasesIn(Tx)
    BY <1>4, Zenon DEF AliasesIn
  <2> QED BY <2>1 DEF Types, TypeOK, Accept
<1>10. hf' \in Versions
  <2>1. Len(main) + 1 \in DOMAIN VersionAt
    BY <1>2, <1>3, BlockAssumption, Zenon
  <2>2. hf \in Versions
    BY DEF Types, TypeOK, Versions
  <2>3. hf' = Raised(hf, Len(main) + 1)
    BY DEF Accept
  <2>4. VersionAt[Len(main) + 1] \in Versions
    BY <2>1 DEF Versions
  <2> QED BY <2>2, <2>3, <2>4 DEF Raised
<1>11. ASSUME NEW i \in DOMAIN main' PROVE Version[main'[i]] \in Versions
  <2>1. CASE i \in DOMAIN main
    <3>1. main'[i] = main[i]
      BY <1>1, <2>1
    <3> QED BY <2>1, <3>1 DEF Types
  <2>2. CASE i \notin DOMAIN main
    <3>1. main'[i] = b
      BY <1>1, <1>3, <2>2
    <3> QED BY <1>1, <3>1 DEF Types, TypeOK, Versions
  <2> QED BY <2>1, <2>2
<1>12. pool' \cup Mined(main') = pool \cup Mined(main)
  <2>1. pool' = pool \ TxSet(b)
    BY DEF Accept
  <2> QED BY <1>4, <1>5, <2>1
<1> QED BY <1>1, <1>2, <1>3, <1>8, <1>9, <1>10, <1>11, <1>12, Zenon DEF Tail_id

\* A block that is refused leaves the chain and the pool as they were.
LEMMA RefuseStep ==
  ASSUME Types, Chain, NEW b \in Block, Refuse(b)
  PROVE  /\ main' = main /\ pool' = pool /\ hf' = hf /\ Tail_id' = Tail_id
         /\ Chain'
         /\ aliasCache' \subseteq AliasesIn(Tx)
<1>1. main' = main /\ pool' = pool /\ hf' = hf /\ aliasCache' = aliasCache \cup LeftInCache(b)
  BY DEF Refuse
<1>2. Chain'
  BY <1>1 DEF Chain, Tail_id
<1>3. ASSUME NEW i \in FirstIndex(DbProblems(b))
      PROVE  AliasesIn(TakenBefore(b, i)) \subseteq AliasesIn(Tx)
  <2>1. TxsOf[b] \in Seq(Tx) /\ i \in DOMAIN TxsOf[b]
    BY BlockAssumption DEF FirstIndex, DbProblems
  <2>2. TakenBefore(b, i) \subseteq Tx
    BY <2>1 DEF TakenBefore
  <2> QED BY <2>2, Zenon DEF AliasesIn
<1>4. LeftInCache(b) \subseteq AliasesIn(Tx)
  BY <1>3, Zenon DEF LeftInCache
<1> QED BY <1>1, <1>2, <1>4 DEF Types, TypeOK, Tail_id

\* A block that is popped makes the chain its parent's path; its transactions move
\* from the chain to the pool.
LEMMA PopStep ==
  ASSUME Types, Chain, Len(main) > 1, PopBlockFromBlockchain
  PROVE  /\ main' = SubSeq(main, 1, Len(main) - 1) /\ main' \in Seq(Block) /\ main' # <<>>
         /\ Len(main') = Len(main) - 1
         /\ main = Append(main', Tail_id)
         /\ Chain'
         /\ pool' \subseteq Tx /\ aliasCache' \subseteq AliasesIn(Tx) /\ hf' = hf
         /\ \A i \in DOMAIN main' : Version[main'[i]] \in Versions
         /\ pool' \cup Mined(main') = pool \cup Mined(main)
<1> DEFINE k == Len(main) - 1
<1>1. /\ main \in Seq(Block) /\ k \in Nat \ {0} /\ k + 1 = Len(main) /\ main # <<>>
      /\ main' = SubSeq(main, 1, k) /\ main' \in Seq(Block)
      /\ Tail_id \in Block /\ main = Path[Tail_id] /\ main[k + 1] = Tail_id
  BY DEF Types, TypeOK, PopBlockFromBlockchain, Chain, Tail_id
<1>2. Len(main') = k /\ main' # <<>> /\ main'[k] = main[k] /\ main = Append(main', Tail_id)
  <2>1. Len(main') = k
    BY <1>1, MinedSplit
  <2>2. main'[k] = main[k]
    BY <1>1
  <2>3. main' # <<>>
    BY <1>1, <2>1, Zenon
  <2>4. main = Append(main', Tail_id)
    BY <1>1
  <2> QED BY <2>1, <2>2, <2>3, <2>4
<1>3. Path[main[k]] = main' /\ main[k] \in Block
  BY <1>1, PrefixIsPath
<1>4. Mined(main) = Mined(main') \cup TxSet(Tail_id)
  BY <1>1, MinedSplit, Zenon
<1>5. Sound(main')
  BY <1>1, SoundPrefix DEF Chain
<1>6. AliasesIn(Mined(main')) \subseteq aliasCache'
  <2>1. aliasCache' = aliasCache \ AliasesIn(TxSet(Tail_id))
    BY DEF PopBlockFromBlockchain
  <2>2. AliasesIn(Mined(main')) \subseteq AliasesIn(Mined(main))
    BY <1>4, Zenon DEF AliasesIn
  <2>3. \A t \in TxSet(Tail_id) : AliasOf[t] \notin AliasesIn(Mined(main'))
    <3>1. k + 1 \in DOMAIN main /\ SubSeq(main, 1, (k + 1) - 1) = main'
      BY <1>1
    <3>2. ASSUME NEW t \in TxSet(Tail_id)
          PROVE  AliasOf[t] \notin AliasesIn(Mined(main') \cup (TxSet(Tail_id) \ {t}))
      <4> HIDE DEF k
      <4> QED BY <1>1, <3>1 DEF Chain, Sound
    <3> QED BY <3>2, Zenon DEF AliasesIn
  <2>4. AliasesIn(Mined(main')) \cap AliasesIn(TxSet(Tail_id)) = {}
    BY <2>3, Zenon DEF AliasesIn
  <2> QED BY <2>1, <2>2, <2>4 DEF Chain
<1>7. Chain'
  BY <1>2, <1>3, <1>5, <1>6 DEF Chain, Tail_id
<1>8. TxSet(Tail_id) \subseteq Tx
  <2>1. TxsOf[Tail_id] \in Seq(Tx)
    BY <1>1, BlockAssumption
  <2> QED BY <2>1 DEF TxSet, Range
<1>9. pool' = pool \cup TxSet(Tail_id) /\ hf' = hf /\ aliasCache' \subseteq aliasCache
  BY DEF PopBlockFromBlockchain
<1>10. \A i \in DOMAIN main' : Version[main'[i]] \in Versions
  <2>1. \A i \in DOMAIN main' : i \in DOMAIN main /\ main'[i] = main[i]
    BY <1>1
  <2> QED BY <2>1 DEF Types
<1>11. pool' \subseteq Tx /\ aliasCache' \subseteq AliasesIn(Tx)
  BY <1>8, <1>9 DEF Types, TypeOK
<1>12. pool' \cup Mined(main') = pool \cup Mined(main)
  BY <1>4, <1>9
<1> QED BY <1>1, <1>2, <1>7, <1>9, <1>10, <1>11, <1>12, Zenon

\* Raised picks a version of the table.
LEMMA RaisedType ==
  ASSUME NEW v \in Versions, NEW b \in Block
  PROVE  Raised(v, Len(Path[b])) \in Versions
<1>1. Len(Path[b]) \in DOMAIN VersionAt
  BY BlockAssumption, Zenon
<1> QED BY <1>1, Zenon DEF Raised, Versions

\* The rescan after a switch goes through versions of the table: induction over the
\* height.
LEMMA ReorganizedScan ==
  ASSUME Types, Chain, NEW lo \in 1..Len(main)
  PROVE  \E f :
           /\ \A h \in lo..Len(main) : f[h] \in Versions
           /\ f[lo] = Raised(IF hf > Version[main[lo]] THEN Version[main[lo]] ELSE hf, lo)
           /\ \A h \in (lo + 1)..Len(main) :
                f[h] = IF Version[main[h]] = f[h - 1] THEN Raised(f[h - 1], h) ELSE f[h - 1]
           /\ Reorganized(main, lo) = f[Len(main)]
<1> DEFINE lowered == IF hf > Version[main[lo]] THEN Version[main[lo]] ELSE hf
           After(v, h) == IF Version[main[h]] = v THEN Raised(v, h) ELSE v
           Is(g) == g = [h \in lo..Len(main) |->
                           IF h = lo THEN Raised(lowered, lo)
                           ELSE IF Version[main[h]] = g[h - 1] THEN Raised(g[h - 1], h)
                           ELSE g[h - 1]]
           f == CHOOSE g : Is(g)
<1>1. /\ main \in Seq(Block) /\ Len(main) \in Nat /\ DOMAIN main = 1..Len(main)
      /\ Tail_id \in Block /\ main = Path[Tail_id] /\ hf \in Versions
      /\ lo \in Nat /\ lo <= Len(main)
  BY DEF Types, TypeOK, Chain, Tail_id, Versions
<1>2. ASSUME NEW h \in 1..Len(main), NEW v \in Versions PROVE Raised(v, h) \in Versions
  BY <1>1, PrefixIsPath, RaisedType, Zenon
<1>3. lowered \in Versions
  BY <1>1 DEF Types
<1> HIDE DEF lowered
<1>4. Raised(lowered, lo) \in Versions
  BY <1>2, <1>3, Zenon
<1>5. ASSUME NEW h \in (lo + 1)..Len(main), NEW v \in Versions PROVE After(v, h) \in Versions
  BY <1>1, <1>2
<1> HIDE DEF After
<1>6. \E g \in [lo..Len(main) -> Versions] :
        /\ g[lo] = Raised(lowered, lo)
        /\ \A h \in (lo + 1)..Len(main) : g[h] = After(g[h - 1], h)
  <2> DEFINE succ == [h \in Nat |-> [v \in Versions |->
                        IF h \in (lo + 1)..Len(main) THEN After(v, h) ELSE v]]
  <2>1. succ \in [Nat -> [Versions -> Versions]]
    BY <1>5
  <2>2. \A h \in (lo + 1)..Len(main) : \A v \in Versions : succ[h][v] = After(v, h)
    BY <1>1
  <2> HIDE DEF succ
  <2>3. PICK g \in [lo..Len(main) -> Versions] :
          /\ g[lo] = Raised(lowered, lo)
          /\ \A h \in (lo + 1)..Len(main) : g[h] = succ[h][g[h - 1]]
    <3>1. Recursive(lo, Len(main), Versions, Raised(lowered, lo), succ) # {}
      BY <1>1, <1>4, <2>1, RecursionOnInterval, Zenon
    <3> QED BY <3>1 DEF Recursive
  <2>4. \A h \in (lo + 1)..Len(main) : g[h - 1] \in Versions
    BY <1>1, <2>3
  <2> QED BY <2>2, <2>3, <2>4
<1>7. \E g : Is(g)
  <2>1. PICK g \in [lo..Len(main) -> Versions] :
          /\ g[lo] = Raised(lowered, lo)
          /\ \A h \in (lo + 1)..Len(main) : g[h] = After(g[h - 1], h)
    BY <1>6
  <2>2. \A h \in lo..Len(main) : h # lo => h \in (lo + 1)..Len(main)
    BY <1>1
  <2>3. Is(g)
    BY <2>1, <2>2 DEF After
  <2> QED BY <2>3
<1>8. Is(f)
  <2> HIDE DEF Is
  <2> QED BY <1>7, Zenon
<1> HIDE DEF f
<1>9. f[lo] = Raised(lowered, lo)
  BY <1>1, <1>8
<1>10. \A h \in (lo + 1)..Len(main) : f[h] = After(f[h - 1], h)
  BY <1>1, <1>8 DEF After
<1>11. \A h \in lo..Len(main) : f[h] \in Versions
  <2> DEFINE S == {h \in lo..Len(main) : f[h] \in Versions}
  <2>1. lo \in S
    BY <1>1, <1>4, <1>9
  <2>2. ASSUME NEW h \in lo..(Len(main) - 1), h \in S PROVE h + 1 \in S
    <3>1. h + 1 \in (lo + 1)..Len(main) /\ h + 1 \in lo..Len(main) /\ (h + 1) - 1 = h
      BY <1>1
    <3> QED BY <1>5, <1>10, <2>2, <3>1, Zenon
  <2> HIDE DEF S
  <2>3. \A h \in lo..Len(main) : h \in S
    BY <1>1, <2>1, <2>2, IntervalInduction, Zenon
  <2> QED BY <2>3 DEF S
<1>12. Reorganized(main, lo) = f[Len(main)]
  BY Zenon DEF Reorganized, lowered, f
<1> QED BY <1>9, <1>10, <1>11, <1>12, Zenon DEF lowered, After

\* So it ends in one.
LEMMA ReorganizedType ==
  ASSUME Types, Chain, NEW lo \in 1..Len(main)
  PROVE  Reorganized(main, lo) \in Versions
<1>1. Len(main) \in lo..Len(main)
  BY DEF Types, TypeOK
<1> QED BY <1>1, ReorganizedScan, Zenon

----------------------------------------------------------------------------
(***************************************************************************)
(* The branch that an alternative block completes.                         *)
(***************************************************************************)
\* The branch of an alternative block that is accepted leaves the main chain after
\* k blocks and runs through alternative blocks only.
LEMMA AltChainLeaves ==
  ASSUME Types, Chain, Range(main) \cap alt = {},
         NEW b \in Block \ {Genesis}, AlternativeAccepted(b)
  PROVE  \E k \in 1..Len(main) :
           /\ k < Len(Path[b])
           /\ AltChain(b) = SubSeq(Path[b], k + 1, Len(Path[b]))
           /\ \A j \in (k + 1)..(Len(Path[b]) - 1) : Path[b][j] \in alt
           /\ SubSeq(Path[b], 1, k) = SubSeq(main, 1, k)
<1> DEFINE p == Path[b]
           from == {i \in 1..Len(p) : \A j \in i..(Len(p) - 1) : p[j] \in alt}
           first == CHOOSE i \in from : \A j \in from : i <= j
<1>1. /\ p \in Seq(Block) /\ Len(p) \in Nat \ {0, 1} /\ p[Len(p)] = b
      /\ main \in Seq(Block) /\ Len(main) \in Nat /\ Tail_id \in Block /\ main = Path[Tail_id]
      /\ alt \subseteq Block \ {Genesis}
  <2>1. p \in Seq(Block) /\ Len(p) \in Nat \ {0, 1} /\ p[Len(p)] = b
    BY PathEnds
  <2>2. /\ main \in Seq(Block) /\ Len(main) \in Nat /\ Tail_id \in Block
        /\ main = Path[Tail_id] /\ alt \subseteq Block \ {Genesis}
    BY DEF Types, TypeOK, Chain, Tail_id
  <2> QED BY <2>1, <2>2, Zenon
<1>2. p[1] = Genesis
  BY <1>1, PrefixIsPath
<1>3. Len(p) \in from /\ from \in SUBSET Nat
  BY <1>1
<1>4. first \in from /\ \A j \in from : first <= j
  <2>1. \E i \in from : \A j \in from : i <= j
    <3> HIDE DEF from
    <3> QED BY <1>3, LeastElement
  <2> HIDE DEF from
  <2> QED BY <2>1
<1>5. AltChain(b) = SubSeq(p, first, Len(p))
  BY DEF AltChain
<1> HIDE DEF first
<1>6. first \in 1..Len(p) /\ \A j \in first..(Len(p) - 1) : p[j] \in alt
  BY <1>4
<1>7. first # 1
  <2>1. 1 \in 1..(Len(p) - 1) /\ p[1] \notin alt
    BY <1>1, <1>2
  <2> QED BY <1>6, <2>1
<1>8. first \in 2..Len(p) /\ first - 1 \in 1..Len(p) /\ first \in 1..Len(p) /\ first > 1
  BY <1>1, <1>6, <1>7
<1>9. p[first - 1] \notin alt
  <2>1. SUFFICES ASSUME p[first - 1] \in alt PROVE FALSE
    OBVIOUS
  <2>2. \A j \in (first - 1)..(Len(p) - 1) : p[j] \in alt
    BY <1>1, <1>6, <1>8, <2>1
  <2>3. first - 1 \in from
    BY <1>8, <2>2, Zenon
  <2> HIDE DEF from
  <2> QED BY <1>4, <1>8, <2>3
<1>10. AltChain(b)[1] = p[first]
  BY <1>1, <1>5, <1>8
<1>11. Parent(p[first]) = p[first - 1]
  BY <1>8, PrefixIsPath, Zenon
<1>12. p[first - 1] \in Range(main)
  <2>1. CASE p[first] = b
    BY <1>9, <1>11, <2>1, Zenon DEF AlternativeAccepted
  <2>2. CASE p[first] # b
    BY <1>10, <1>11, <2>2, Zenon DEF AlternativeAccepted
  <2> QED BY <2>1, <2>2, Zenon
<1> DEFINE k == first - 1
<1>13. k \in 1..Len(p) /\ k < Len(p) /\ k + 1 = first /\ p[k] \in Block
       /\ Path[p[k]] = SubSeq(p, 1, k) /\ Len(Path[p[k]]) = k
  <2>1. k \in 1..Len(p) /\ k < Len(p) /\ k + 1 = first
    BY <1>1, <1>8
  <2> QED BY <2>1, PrefixIsPath, Zenon
<1>14. k \in 1..Len(main) /\ Path[p[k]] = SubSeq(main, 1, k)
  <2>1. p[k] \in Range(Path[Tail_id])
    BY <1>1, <1>12, Zenon
  <2>2. /\ Len(Path[p[k]]) \in 1..Len(Path[Tail_id])
        /\ Path[p[k]] = SubSeq(Path[Tail_id], 1, Len(Path[p[k]]))
    BY <1>1, <2>1, OnPath, Zenon
  <2> QED BY <1>1, <1>13, <2>2, Zenon
<1> HIDE DEF k, p
<1>15. AltChain(b) = SubSeq(p, k + 1, Len(p)) /\ \A j \in (k + 1)..(Len(p) - 1) : p[j] \in alt
  BY <1>5, <1>6, <1>13, Zenon
<1> QED BY <1>13, <1>14, <1>15, Zenon DEF p

\* What holds of the branch and of the old chain while a switch runs.
LEMMA ForkFacts ==
  ASSUME TypeOK, Fork, step # "idle"
  PROVE  /\ before \in Seq(Block) /\ before[Len(before)] \in Block /\ Len(before) \in Nat \ {0}
         /\ branch \in Seq(Block) /\ Len(branch) \in Nat \ {0}
         /\ Target \in Block \ {Genesis} /\ Target \in Range(branch)
         /\ Common \in Nat \ {0} /\ Common <= Len(before)
         /\ Common \in 1..Len(before) /\ Common \in 0..Len(before)
         /\ Path[Target] \in Seq(Block) /\ Len(Path[Target]) = Common + Len(branch)
         /\ SubSeq(Path[Target], 1, Common) = SubSeq(before, 1, Common)
         /\ \A j \in 1..Len(branch) :
              /\ branch[j] = Path[Target][Common + j] /\ branch[j] \in Block \ {Genesis}
              /\ Path[branch[j]] = SubSeq(Path[Target], 1, Common + j)
              /\ Parent(branch[j]) = Path[Target][Common + j - 1]
         /\ Parent(branch[1]) = before[Common]
<1> DEFINE p == Path[Target]
<1>1. /\ before \in Seq(Block) /\ before[Len(before)] \in Block /\ Len(before) \in Nat \ {0}
      /\ branch \in Seq(Block) /\ Len(branch) \in Nat \ {0}
  BY DEF TypeOK, Fork
<1>2. Target \in Range(branch)
  BY <1>1 DEF Target, Range
<1>3. Range(branch) \subseteq Block \ {Genesis}
  BY Zenon DEF TypeOK, Fork
<1>4. Common \in Nat \ {0} /\ Common <= Len(before) /\ p = SubSeq(before, 1, Common) \o branch
  BY <1>1 DEF Fork
<1>5. Target \in Block \ {Genesis} /\ p \in Seq(Block)
  BY <1>2, <1>3, PathEnds
<1> HIDE DEF p
<1>6. SubSeq(before, 1, Common) \in Seq(Block) /\ Len(SubSeq(before, 1, Common)) = Common
  BY <1>1, <1>4
<1>7. /\ Len(p) = Common + Len(branch)
      /\ \A i \in 1..(Common + Len(branch)) :
           p[i] = IF i <= Common THEN SubSeq(before, 1, Common)[i] ELSE branch[i - Common]
  BY <1>1, <1>4, <1>6, ConcatFacts
<1>8. \A i \in 1..Common : p[i] = before[i]
  BY <1>1, <1>4, <1>6, <1>7
<1>9. SubSeq(p, 1, Common) = SubSeq(before, 1, Common)
  BY <1>1, <1>4, <1>5, <1>7, <1>8
<1>10. ASSUME NEW j \in 1..Len(branch)
       PROVE  /\ branch[j] = p[Common + j] /\ branch[j] \in Block \ {Genesis}
              /\ Path[branch[j]] = SubSeq(p, 1, Common + j)
              /\ Parent(branch[j]) = p[Common + j - 1]
  <2>1. Common + j \in 1..(Common + Len(branch)) /\ Common + j > 1 /\ ~(Common + j <= Common)
        /\ (Common + j) - Common = j
    BY <1>1, <1>4
  <2>2. branch[j] = p[Common + j]
    BY <1>7, <2>1, Zenon
  <2>3. branch[j] \in Block \ {Genesis}
    BY <1>1, <1>3 DEF Range
  <2>4. Common + j \in 1..Len(Path[Target])
    BY <1>7, <2>1, Zenon DEF p
  <2>5. /\ Path[Path[Target][Common + j]] = SubSeq(Path[Target], 1, Common + j)
        /\ Parent(Path[Target][Common + j]) = Path[Target][Common + j - 1]
    <3>1. PICK q \in 1..Len(Path[Target]) : q = Common + j /\ q > 1
      BY <2>1, <2>4, Zenon
    <3>2. Path[Path[Target][q]] = SubSeq(Path[Target], 1, q) /\ Parent(Path[Target][q]) = Path[Target][q - 1]
      BY <1>5, <3>1, PrefixIsPath
    <3>3. Common + j = q /\ Common + j - 1 = q - 1
      BY <1>4, <3>1
    <3> QED BY <3>2, <3>3
  <2> QED BY <2>2, <2>3, <2>5 DEF p
<1>11. Parent(branch[1]) = before[Common]
  <2>1. 1 \in 1..Len(branch) /\ Common + 1 - 1 = Common /\ Common \in 1..Common
    BY <1>1, <1>4
  <2> QED BY <1>8, <1>10, <2>1, Zenon
<1>12. Common \in 1..Len(before) /\ Common \in 0..Len(before)
  BY <1>1, <1>4
<1> QED BY <1>1, <1>2, <1>4, <1>5, <1>7, <1>9, <1>10, <1>11, <1>12, Zenon DEF p

----------------------------------------------------------------------------
(***************************************************************************)
(* The genesis block.                                                      *)
(***************************************************************************)
\* The genesis block is of no checkpoint's height.
LEMMA CheckGenesis == CheckBlock(Genesis)
<1>1. ASSUME NEW c \in Checkpoints PROVE Height(c) # Height(Genesis)
  <2>1. c \in Block \ {Genesis}
    BY BlockAssumption, Zenon
  <2>2. Len(Path[c]) = Len(Path[Parent(c)]) + 1 /\ Len(Path[Parent(c)]) \in Nat \ {0}
        /\ Len(Path[Genesis]) = 1
    BY <2>1, PathEnds
  <2> QED BY <2>2 DEF Height
<1> QED BY <1>1 DEF CheckBlock

----------------------------------------------------------------------------
(***************************************************************************)
(* The invariant holds initially and is kept by every step.                *)
(***************************************************************************)
LEMMA InitInv == Init => IInv
<1> SUFFICES ASSUME Init PROVE IInv
  BY Zenon
<1>1. /\ main = <<Genesis>> /\ Genesis \in Block /\ Tail_id = Genesis /\ Path[Genesis] = <<Genesis>>
      /\ TxSet(Genesis) = {}
  BY BlockAssumption DEF Init, Tail_id, TxSet, Range
<1>2. Len(main) = 1 /\ DOMAIN main = {1} /\ main[1] = Genesis
  BY <1>1
<1>3. Mined(main) = {} /\ Range(main) = {Genesis}
  BY <1>1, <1>2, Zenon DEF Mined, Range
<1>4. Types
  <2>1. hf \in {VersionAt[h] : h \in DOMAIN VersionAt}
    <3>1. 1 \in DOMAIN VersionAt
      BY <1>1, <1>2, BlockAssumption, Zenon
    <3> QED BY <3>1 DEF Init
  <2>2. main \in Seq(Block) /\ main # <<>> /\ MaxCrashes \in Nat
    BY <1>1, BlockAssumption
  <2>3. TypeOK
    <3>1. /\ alt \subseteq Block \ {Genesis} /\ invalid \subseteq Block \ {Genesis}
          /\ pool \subseteq Tx /\ aliasCache \subseteq AliasesIn(Tx)
          /\ step \in {"idle", "pop", "connect", "push", "unwind", "restore"}
          /\ discard \in BOOLEAN /\ panicked \in BOOLEAN
      BY Zenon DEF Init
    <3>2. branch \in Seq(Block) /\ old \in Seq(Block) /\ before \in Seq(Block)
      BY DEF Init
    <3>3. {split, n, fail} \subseteq Nat /\ crashes \in 0..MaxCrashes
      BY <2>2 DEF Init
    <3> QED BY <2>1, <2>2, <3>1, <3>2, <3>3 DEF TypeOK
  <2> QED BY <1>2, <2>3, BlockAssumption DEF Types, Versions
<1>5. Chain
  <2>1. Sound(main)
    BY <1>1, <1>2, Zenon DEF Sound
  <2>2. AliasesIn({}) = {}
    BY Zenon DEF AliasesIn
  <2> QED BY <1>1, <1>3, <2>1, <2>2 DEF Chain
<1>6. Fork /\ Progress /\ Roles
  BY <1>3 DEF Init, Fork, Progress, Roles, Range
<1>7. Checked
  BY <1>3, CheckGenesis, Zenon DEF Init, Checked
<1> QED BY <1>4, <1>5, <1>6, <1>7 DEF IInv

LEMMA AddToMainInv ==
  ASSUME IInv, NEW b \in Block \ {Genesis}, AddToMain(b)
  PROVE  IInv'
<1>1. /\ step = "idle" /\ b \notin Range(main) \cup alt \cup invalid /\ main \in Seq(Block)
      /\ UNCHANGED <<alt, step, branch, old, split, n, fail, discard, before, panicked, crashes>>
  BY Zenon DEF AddToMain, HaveBlock, IInv, Types, TypeOK, switchVars
<1> USE DEF IInv
<1>2. CASE Accepted(b)
  <2>1. Accept(b) /\ invalid' = invalid
    BY <1>2, Zenon DEF AddToMain
  <2>2. /\ main' = Append(main, b) /\ main' \in Seq(Block) /\ main' # <<>> /\ Chain'
        /\ pool' \subseteq Tx /\ aliasCache' \subseteq AliasesIn(Tx) /\ hf' \in Versions
        /\ \A i \in DOMAIN main' : Version[main'[i]] \in Versions
        /\ CheckBlock(b)
    BY <1>2, <2>1, AcceptStep, Zenon
  <2>3. Range(main') = Range(main) \cup {b}
    BY <1>1, <2>2, RangeOfAppend
  <2>4. Types'
    BY <1>1, <2>1, <2>2, Zenon DEF Types, TypeOK, Versions
  <2>5. Fork' /\ Progress'
    BY <1>1, Zenon DEF Fork, Progress
  <2>6. Roles'
    BY <1>1, <2>1, <2>3, Zenon DEF Roles
  <2>7. Checked'
    BY <1>1, <2>2, <2>3 DEF Checked
  <2> QED BY <2>2, <2>4, <2>5, <2>6, <2>7
<1>3. CASE ~Accepted(b)
  <2>1. Refuse(b) /\ invalid' = invalid \cup MarkedInvalid(b) /\ MarkedInvalid(b) \subseteq {b}
    BY <1>3, Zenon DEF AddToMain, MarkedInvalid
  <2>2. /\ main' = main /\ pool' = pool /\ hf' = hf /\ Chain'
        /\ aliasCache' \subseteq AliasesIn(Tx)
    BY <2>1, RefuseStep, Zenon
  <2>4. Types'
    BY <1>1, <2>1, <2>2, Zenon DEF Types, TypeOK, Versions
  <2>5. Fork' /\ Progress'
    BY <1>1 DEF Fork, Progress
  <2>6. Roles'
    <3>1. Range(branch) = {}
      BY <1>1 DEF Roles, Range
    <3> QED BY <1>1, <2>1, <2>2, <3>1, Zenon DEF Roles
  <2>7. Checked'
    BY <1>1, <2>2, Zenon DEF Checked
  <2> QED BY <2>2, <2>4, <2>5, <2>6, <2>7, Zenon
<1> QED BY <1>2, <1>3, Zenon

LEMMA AddAlternativeInv ==
  ASSUME IInv, NEW b \in Block \ {Genesis}, AddAlternative(b)
  PROVE  IInv'
<1> USE DEF IInv
<1>1. /\ step = "idle" /\ b \notin Range(main) \cup alt \cup invalid /\ main \in Seq(Block)
      /\ alt \subseteq Block \ {Genesis} /\ main # <<>>
      /\ alt' = alt \cup {b} /\ CheckBlock(b) /\ old = <<>> /\ branch = <<>>
      /\ Range(main) \cap alt = {} /\ IsAlternativeBlockAllowed(Len(main), b)
      /\ UNCHANGED <<main, invalid, pool, aliasCache, hf, old, split, n, fail, panicked, crashes>>
  BY Zenon DEF AddAlternative, AlternativeAccepted, HaveBlock, Types, TypeOK, switchVars, Fork, Roles
<1>2. Range(branch) = {}
  BY <1>1, NoBlocks, Zenon
<1>3. Chain'
  BY <1>1, Zenon DEF Chain, Tail_id
<1>4. CASE ~Reorganizes(b)
  <2>1. step' = step /\ branch' = branch /\ discard' = discard /\ before' = before
    BY <1>4 DEF AddAlternative, switchVars
  <2>2. b \notin Checkpoints
    BY <1>4, Zenon DEF Reorganizes
  <2>3. Types'
    BY <1>1, <2>1, Zenon DEF Types, TypeOK, Versions
  <2>4. Fork' /\ Progress'
    BY <1>1, <2>1, Zenon DEF Fork, Progress
  <2>5. Roles'
    BY <1>1, <1>2, <2>1 DEF Roles
  <2>6. Checked'
    BY <1>1, <2>1, <2>2 DEF Checked
  <2> QED BY <1>3, <2>3, <2>4, <2>5, <2>6, Zenon
<1>5. CASE Reorganizes(b)
  <2>1. step' = "pop" /\ branch' = AltChain(b) /\ before' = main /\ discard' = (b \in Checkpoints)
    BY <1>5 DEF AddAlternative
  <2>2. PICK k \in 1..Len(main) :
          /\ k < Len(Path[b])
          /\ AltChain(b) = SubSeq(Path[b], k + 1, Len(Path[b]))
          /\ \A j \in (k + 1)..(Len(Path[b]) - 1) : Path[b][j] \in alt
          /\ SubSeq(Path[b], 1, k) = SubSeq(main, 1, k)
    BY <1>1, AltChainLeaves, Zenon DEF AddAlternative
  <2> DEFINE p == Path[b]
  <2>3. /\ p \in Seq(Block) /\ Len(p) \in Nat \ {0} /\ p[Len(p)] = b /\ Len(main) \in Nat
        /\ k \in Nat \ {0} /\ k + 1 \in 2..Len(p)
        /\ k + 1 \in 1..Len(p) /\ k \in 1..Len(p) /\ k \in 0..Len(main) /\ Len(main) >= k
    <3>1. p \in Seq(Block) /\ Len(p) \in Nat \ {0} /\ p[Len(p)] = b
      BY PathEnds, Zenon
    <3>2. Len(main) \in Nat
      BY <1>1
    <3> QED BY <2>2, <3>1, <3>2
  <2>4. /\ branch' \in Seq(Block) /\ Len(branch') = Len(p) - k /\ branch' # <<>>
        /\ \A j \in 1..Len(branch') : branch'[j] = p[k + j]
    <3>1. branch' = SubSeq(p, k + 1, Len(p))
      BY <2>1, <2>2
    <3>2. p \in Seq(Block) /\ k \in Nat /\ k < Len(p)
      BY <2>2, <2>3, Zenon
    <3> QED BY <3>1, <3>2, SuffixFacts, Zenon
  <2>5. Target' = b
    <3>1. Len(branch') \in 1..Len(branch') /\ k + Len(branch') = Len(p)
      BY <2>3, <2>4
    <3> QED BY <2>3, <2>4, <3>1, Zenon DEF Target
  <2>6. Common' = k
    <3>1. branch'[1] = p[k + 1]
      BY <2>3, <2>4
    <3>2. Len(Path[p[k + 1]]) = k + 1
      BY <2>3, PrefixIsPath, Zenon
    <3> QED BY <2>3, <3>1, <3>2 DEF Common, Height
  <2>7. Range(branch') \subseteq alt'
    <3>1. ASSUME NEW j \in 1..Len(branch') PROVE branch'[j] \in alt \cup {b}
      <4>1. j \in 1..(Len(p) - k) /\ Len(p) \in Nat /\ k \in Nat
        BY <2>3, <2>4, Zenon
      <4>2. k + j = Len(p) \/ k + j \in (k + 1)..(Len(p) - 1)
        BY <4>1
      <4> QED BY <2>2, <2>3, <2>4, <4>2, Zenon
    <3> QED BY <1>1, <2>4, <3>1 DEF Range
  <2>8. Range(branch') \cap Range(main) = {}
    BY <1>1, <2>7, Zenon
  <2>9. Types'
    BY <1>1, <2>1, <2>4 DEF Types, TypeOK, Versions
  <2>10. Fork'
    <3>1. p = SubSeq(p, 1, k) \o SubSeq(p, k + 1, Len(p))
      BY <2>3, Rejoin, Zenon
    <3>2. p = SubSeq(main, 1, k) \o branch'
      BY <2>1, <2>2, <3>1, Zenon
    <3>3. main = Path[main[Len(main)]]
      BY Zenon DEF Chain, Tail_id
    <3>4. Work[b] > Work[main[Len(main)]] \/ b \in Checkpoints
      <4>1. main[Len(main)] \in Block
        BY <1>1, ListFacts, Zenon
      <4>2. Work[b] \in Nat /\ Work[main[Len(main)]] \in Nat
        BY <4>1, BlockAssumption, Zenon
      <4> QED BY <1>5, <4>2, Zenon DEF Reorganizes, Tail_id
    <3> QED BY <1>1, <2>1, <2>2, <2>4, <2>5, <2>6, <2>7, <2>8, <3>2, <3>3, <3>4, Zenon DEF Fork
  <2>11. Progress'
    <3>1. main \o old = main
      BY <1>1, ListFacts, Zenon
    <3> QED BY <1>1, <2>1, <2>3, <2>6, <3>1, Zenon DEF Progress
  <2>12. Roles'
    <3>1. Range(SubSeq(main, 1, k)) \subseteq Range(main)
      BY <1>1, <2>3, RangeOfPrefix, Zenon
    <3>2. alt \cap invalid = {} /\ alt' \cap invalid = {} /\ Range(main) \cap invalid = {}
      BY <1>1, <1>2 DEF Roles
    <3>3. Range(main) \cap alt' = {}
      BY <1>1, Zenon
    <3> QED BY <1>1, <2>1, <2>6, <2>7, <3>1, <3>2, <3>3 DEF Roles
  <2>13. ASSUME NEW i \in (k + 1)..Len(main) PROVE main[i] \notin Checkpoints
    <3>1. SUFFICES ASSUME main[i] \in Checkpoints PROVE FALSE
      BY Zenon
    <3>2. i \in 1..Len(main) /\ Tail_id \in Block /\ main = Path[Tail_id]
      BY <1>1, <2>3, Upper, ListFacts, Zenon DEF Chain, Tail_id
    <3>3. Len(Path[main[i]]) = i /\ main[i] \in Block /\ main[i] \in Range(main)
      BY <1>1, <3>2, PrefixIsPath, ListFacts, Zenon
    <3>4. Height(main[i]) = i - 1 /\ i - 1 <= Len(main)
      BY <2>3, <3>2, <3>3, Upper, Zenon DEF Height
    <3>5. i - 1 < Height(b)
      BY <1>1, <3>1, <3>4, Zenon DEF IsAlternativeBlockAllowed, CheckpointsUpTo
    <3>6. i < Len(p)
      BY <2>3, <3>2, <3>5 DEF Height
    <3>7. i \in 1..Len(p) /\ p[i] \in alt
      BY <2>2, <2>3, <3>6
    <3>8. CheckBlock(p[i]) /\ Height(p[i]) = i - 1
      BY <2>3, <3>7, PrefixIsPath, Zenon DEF Checked, Height
    <3>9. p[i] = main[i]
      BY <3>1, <3>4, <3>8, Zenon DEF CheckBlock
    <3> QED BY <1>1, <3>3, <3>7, <3>9, Zenon
  <2>14. Checked'
    <3>1. \A c \in Range(main) : CheckBlock(c)
      BY Zenon DEF Checked
    <3> QED BY <1>1, <2>1, <2>5, <2>6, <2>13, <3>1, Zenon DEF Checked
  <2> QED BY <1>3, <2>9, <2>10, <2>11, <2>12, <2>14, Zenon
<1> QED BY <1>4, <1>5

LEMMA PopToSplitInv ==
  ASSUME IInv, PopToSplit
  PROVE  IInv' /\ pool' \cup Mined(main') = pool \cup Mined(main)
<1> USE DEF IInv
<1>1. /\ step = "pop" /\ Tail_id # Parent(branch[1]) /\ PopBlockFromBlockchain
      /\ old' = <<Tail_id>> \o old
      /\ UNCHANGED <<alt, invalid, step, branch, split, n, fail, discard, before, panicked, crashes>>
  BY DEF PopToSplit
<1>2. /\ main \in Seq(Block) /\ main # <<>> /\ old \in Seq(Block) /\ Len(main) \in Nat \ {0}
      /\ Len(old) \in Nat /\ Tail_id \in Block
      /\ before = main \o old /\ Len(main) >= Common
  <2>1. /\ main \in Seq(Block) /\ main # <<>> /\ old \in Seq(Block)
    BY DEF Types, TypeOK
  <2>2. Len(main) \in Nat \ {0} /\ Len(old) \in Nat /\ Tail_id \in Block
    BY <2>1, ListFacts, Zenon DEF Tail_id
  <2>3. before = main \o old /\ Len(main) >= Common
    BY <1>1, Zenon DEF Progress
  <2> QED BY <2>1, <2>2, <2>3, Zenon
<1>3. /\ Common \in Nat \ {0} /\ Parent(branch[1]) = before[Common] /\ before \in Seq(Block)
      /\ Len(before) \in Nat /\ Common <= Len(before)
  BY <1>1, ForkFacts, Zenon DEF Types
<1>4. Len(main) # Common
  <2>1. before[Len(main)] = Tail_id
    BY <1>2 DEF Tail_id
  <2> QED BY <1>1, <1>3, <2>1
<1>5. Len(main) > 1
  BY <1>2, <1>3, <1>4
<1>6. /\ main' = SubSeq(main, 1, Len(main) - 1) /\ main' \in Seq(Block) /\ main' # <<>>
      /\ Len(main') = Len(main) - 1 /\ main = Append(main', Tail_id)
      /\ Chain'
      /\ pool' \subseteq Tx /\ aliasCache' \subseteq AliasesIn(Tx) /\ hf' = hf
      /\ \A i \in DOMAIN main' : Version[main'[i]] \in Versions
      /\ pool' \cup Mined(main') = pool \cup Mined(main)
  BY <1>1, <1>5, PopStep, Zenon
<1>7. Common' = Common /\ Target' = Target
  BY <1>1, Zenon DEF Common, Target
<1>8. old' \in Seq(Block)
  BY <1>1, <1>2
<1>9. Range(main') \subseteq Range(main)
  <2>1. Len(main) - 1 \in 0..Len(main)
    BY <1>2
  <2> QED BY <1>2, <1>6, <2>1, RangeOfPrefix, Zenon
<1>10. Types'
  BY <1>1, <1>6, <1>8, Zenon DEF Types, TypeOK, Versions
<1>11. Fork'
  BY <1>1, <1>7, Zenon DEF Fork
<1>12. Progress'
  <2>1. before = main' \o old'
    <3>1. <<Tail_id>> \in Seq(Block)
      BY <1>2
    <3>2. main' \o (<<Tail_id>> \o old) = (main' \o <<Tail_id>>) \o old
      <4>1. \A c, d, e \in Seq(Block) : c \o (d \o e) = (c \o d) \o e
        BY ConcatAssoc
      <4>2. main' \in Seq(Block) /\ old \in Seq(Block)
        BY <1>2, <1>6
      <4> QED BY <3>1, <4>1, <4>2, Zenon
    <3>3. main' \o <<Tail_id>> = main
      BY <1>2, <1>6, AppendConcat, Zenon
    <3> QED BY <1>1, <1>2, <3>2, <3>3, Zenon
  <2>2. Len(main') >= Common
    BY <1>2, <1>3, <1>4, <1>6
  <2> QED BY <1>1, <1>7, <2>1, <2>2 DEF Progress
<1>13. Roles'
  BY <1>1, <1>7, <1>9, Zenon DEF Roles
<1>14. Checked'
  BY <1>1, <1>7, <1>9, Zenon DEF Checked
<1> QED BY <1>6, <1>10, <1>11, <1>12, <1>13, <1>14, Zenon

LEMMA BeginConnectInv ==
  ASSUME IInv, BeginConnect
  PROVE  IInv'
<1> USE DEF IInv
<1>1. /\ step = "pop" /\ Tail_id = Parent(branch[1])
      /\ step' = "connect" /\ split' = Len(main) /\ n' = 1
      /\ UNCHANGED <<main, alt, invalid, pool, aliasCache, hf, branch, old, fail, discard,
                     before, panicked, crashes>>
  BY Zenon DEF BeginConnect
<1>2. /\ main \in Seq(Block) /\ main # <<>> /\ old \in Seq(Block) /\ Len(main) \in Nat \ {0}
      /\ Len(old) \in Nat /\ Tail_id \in Block /\ main = Path[Tail_id]
      /\ before = main \o old /\ Len(main) >= Common
  <2>1. /\ main \in Seq(Block) /\ main # <<>> /\ old \in Seq(Block)
    BY DEF Types, TypeOK
  <2>2. Len(main) \in Nat \ {0} /\ Len(old) \in Nat /\ Tail_id \in Block
    BY <2>1, ListFacts, Zenon DEF Tail_id
  <2>3. before = main \o old /\ Len(main) >= Common
    BY <1>1 DEF Progress
  <2> QED BY <2>1, <2>2, <2>3, Zenon DEF Chain
<1>3. /\ Common \in Nat \ {0} /\ Parent(branch[1]) = before[Common] /\ before \in Seq(Block)
      /\ Len(before) \in Nat /\ Common <= Len(before) /\ before[Len(before)] \in Block
      /\ SubSeq(Path[Target], 1, Common) = SubSeq(before, 1, Common)
      /\ Len(branch) \in Nat \ {0}
  BY <1>1, ForkFacts, Zenon DEF Types
<1>4. Len(main) = Common
  <2>1. Len(Path[before[Common]]) = Common
    <3>1. PICK z \in Block : before = Path[z]
      BY <1>1, <1>3, Zenon DEF Fork
    <3>2. Common \in 1..Len(Path[z])
      BY <1>3, <3>1
    <3> QED BY <3>1, <3>2, PrefixIsPath, Zenon
  <2> QED BY <1>1, <1>2, <1>3, <2>1, Zenon
<1>5. main = SubSeq(before, 1, Common) /\ old = SubSeq(before, Common + 1, Len(before))
  BY <1>2, <1>4, ConcatParts
<1>6. Common' = Common /\ Target' = Target
  BY <1>1 DEF Common, Target
<1>7. Types'
  <2>1. n' \in Nat
    BY <1>1
  <2>2. {split', n', fail'} \subseteq Nat
    BY <1>1, <1>2, <2>1, Zenon DEF Types, TypeOK
  <2> QED BY <1>1, <2>2, Zenon DEF Types, TypeOK, Versions
<1>8. Chain'
  BY <1>1, Zenon DEF Chain, Tail_id
<1>9. Fork'
  BY <1>1, <1>6, Zenon DEF Fork
<1>10. Progress'
  <2>1. Common + 1 - 1 = Common /\ 1 \in 1..(Len(branch) + 1)
    BY <1>3, FirstOf, Zenon
  <2> QED BY <1>1, <1>3, <1>4, <1>5, <1>6, <2>1, Zenon DEF Progress
<1>11. Roles'
  BY <1>1, <1>6 DEF Roles
<1>12. Checked'
  BY <1>1, <1>6, Zenon DEF Checked
<1> QED BY <1>7, <1>8, <1>9, <1>10, <1>11, <1>12, Zenon

\* The disconnected chain is the part of the old one above the split.
LEMMA OldFacts ==
  ASSUME TypeOK, Fork, Progress, step \notin {"idle", "pop"}
  PROVE  /\ old \in Seq(Block) /\ Len(old) = Len(before) - Common /\ Len(old) \in Nat
         /\ \A j \in 1..Len(old) :
              /\ old[j] = before[Common + j] /\ old[j] \in Block \ {Genesis}
              /\ Path[old[j]] = SubSeq(before, 1, Common + j)
              /\ Len(Path[old[j]]) = Common + j
              /\ old[j] \in Range(before)
<1>1. /\ old = SubSeq(before, Common + 1, Len(before)) /\ old \in Seq(Block)
      /\ before \in Seq(Block) /\ Common \in Nat \ {0} /\ Len(before) \in Nat /\ Common <= Len(before)
  BY ForkFacts, Zenon DEF Progress, TypeOK
<1>2. Len(old) = Len(before) - Common /\ Len(old) \in Nat
  BY <1>1, AboveFacts, Zenon
<1>3. \A j \in 1..Len(old) : old[j] = before[Common + j]
  BY <1>1, AboveFacts, Zenon
<1>4. PICK z \in Block : before = Path[z]
  BY ForkFacts, Zenon DEF Fork
<1>5. ASSUME NEW j \in 1..Len(old)
      PROVE  /\ old[j] \in Block \ {Genesis} /\ Path[old[j]] = SubSeq(before, 1, Common + j)
             /\ Len(Path[old[j]]) = Common + j
             /\ old[j] \in Range(before)
  <2>1. PICK q \in 1..Len(Path[z]) : q = Common + j /\ q > 1
    <3>1. Common + j \in 1..Len(before) /\ Common + j > 1
      BY <1>1, <1>2, Beyond, Zenon
    <3> QED BY <1>4, <3>1, Zenon
  <2>2. Path[z][q] \in Block /\ Path[Path[z][q]] = SubSeq(Path[z], 1, q) /\ Path[z][q] # Genesis
        /\ Len(Path[Path[z][q]]) = q
    BY <2>1, PrefixIsPath, Zenon
  <2>3. old[j] = Path[z][q]
    BY <1>3, <1>4, <2>1, Zenon
  <2>4. old[j] \in Range(before)
    BY <1>1, <1>4, <2>1, <2>3, ListFacts, Zenon
  <2>5. Common + j = q
    BY <2>1, Zenon
  <2> QED BY <1>4, <2>2, <2>3, <2>4, <2>5, Zenon
<1> QED BY <1>1, <1>2, <1>3, <1>5, Zenon

\* What a failed switch gives up: the block that failed and those after it.
LEMMA FailedFacts ==
  ASSUME branch \in Seq(Block), fail \in 1..Len(branch)
  PROVE  Failed \subseteq Range(branch) /\ branch[fail] \in Failed /\ Target \in Failed
<1> DEFINE f == SubSeq(branch, fail, Len(branch))
<1>1. Len(branch) \in Nat /\ fail \in Nat /\ Len(f) = Len(branch) - fail + 1
      /\ f \in Seq(Block)
  OBVIOUS
<1>2. \A i \in 1..Len(f) : f[i] = branch[fail + i - 1] /\ fail + i - 1 \in 1..Len(branch)
  BY <1>1
<1>3. f[1] = branch[fail] /\ f[Len(f)] = branch[Len(branch)] /\ 1 \in 1..Len(f) /\ Len(f) \in 1..Len(f)
  <2>1. 1 \in 1..Len(f) /\ Len(f) \in 1..Len(f) /\ fail + 1 - 1 = fail
        /\ fail + Len(f) - 1 = Len(branch)
    BY <1>1
  <2> HIDE DEF f
  <2> QED BY <1>2, <2>1, Zenon
<1> HIDE DEF f
<1>4. Failed = Range(f)
  BY DEF Failed, f
<1>5. DOMAIN f = 1..Len(f) /\ DOMAIN branch = 1..Len(branch)
  BY <1>1
<1>6. Failed \subseteq Range(branch)
  BY <1>2, <1>4, <1>5, Zenon DEF Range
<1>7. branch[fail] \in Failed /\ Target \in Failed
  BY <1>3, <1>4, <1>5, Zenon DEF Range, Target
<1> QED BY <1>6, <1>7

LEMMA ConnectInv ==
  ASSUME IInv, Connect
  PROVE  IInv' /\ pool' \cup Mined(main') = pool \cup Mined(main)
<1> USE DEF IInv
<1> DEFINE b == branch[n]
<1>1. /\ step = "connect" /\ n <= Len(branch)
      /\ UNCHANGED <<alt, branch, old, split, discard, before, panicked, crashes>>
  BY Zenon DEF Connect
<1>2. /\ Common \in Nat \ {0} /\ Len(branch) \in Nat \ {0} /\ Target \in Block \ {Genesis}
      /\ branch \in Seq(Block) /\ Path[Target] \in Seq(Block)
      /\ Len(Path[Target]) = Common + Len(branch) /\ n \in 1..Len(branch)
      /\ main = SubSeq(Path[Target], 1, Common + n - 1) /\ split = Common
      /\ main \in Seq(Block)
  <2>1. /\ Common \in Nat \ {0} /\ Len(branch) \in Nat \ {0} /\ Target \in Block \ {Genesis}
        /\ branch \in Seq(Block) /\ Path[Target] \in Seq(Block)
        /\ Len(Path[Target]) = Common + Len(branch)
    BY <1>1, ForkFacts, Zenon DEF Types
  <2>2. /\ n \in 1..(Len(branch) + 1) /\ main = SubSeq(Path[Target], 1, Common + n - 1)
        /\ split = Common
    BY <1>1, Zenon DEF Progress
  <2>3. n \in 1..Len(branch)
    BY <1>1, <2>1, <2>2, NotLast, Zenon
  <2> QED BY <2>1, <2>2, <2>3, Zenon DEF Types, TypeOK
<1>3. b \in Block \ {Genesis} /\ Path[b] = SubSeq(Path[Target], 1, Common + n) /\ b \in Range(branch)
      /\ Len(main) = Common + n - 1 /\ Len(Path[b]) = Common + n
  <2>1. b \in Block \ {Genesis} /\ Path[b] = SubSeq(Path[Target], 1, Common + n)
    BY <1>1, <1>2, ForkFacts, Zenon DEF Types
  <2>2. b \in Range(branch)
    BY <1>2, ListFacts, Zenon
  <2>3. Common + n \in 0..Len(Path[Target]) /\ Common + n - 1 \in 0..Len(Path[Target])
    BY <1>2, Forward, Zenon
  <2>4. Len(main) = Common + n - 1 /\ Len(Path[b]) = Common + n
    BY <1>2, <2>1, <2>3, PrefixFacts, Zenon
  <2> QED BY <2>1, <2>2, <2>4, Zenon
<1>4. b \in alt /\ b \notin Range(before) /\ b \notin invalid
  BY <1>1, <1>3, Zenon DEF Fork, Roles
<1>5. b \notin Range(main)
  <2>1. Tail_id \in Block /\ main = Path[Tail_id]
    BY ListFacts, Zenon DEF Types, TypeOK, Chain, Tail_id
  <2>2. SUFFICES ASSUME b \in Range(Path[Tail_id]) PROVE FALSE
    BY <2>1, Zenon
  <2>3. Len(Path[b]) \in 1..Len(main)
    BY <2>1, <2>2, OnPath, Zenon
  <2> QED BY <1>2, <1>3, <2>3
<1>6. Common' = Common /\ Target' = Target
  BY <1>1, Zenon DEF Common, Target
<1> HIDE DEF b
<1>7. CASE Accepted(b)
  <2>1. Accept(b) /\ n' = n + 1 /\ UNCHANGED <<invalid, step, fail>>
    BY <1>7 DEF Connect, b
  <2>2. /\ main' = Append(main, b) /\ main' = Path[b] /\ main' \in Seq(Block) /\ main' # <<>>
        /\ Chain'
        /\ pool' \subseteq Tx /\ aliasCache' \subseteq AliasesIn(Tx) /\ hf' \in Versions
        /\ \A i \in DOMAIN main' : Version[main'[i]] \in Versions
        /\ CheckBlock(b)
        /\ pool' \cup Mined(main') = pool \cup Mined(main)
    BY <1>3, <1>7, <2>1, AcceptStep, Zenon
  <2>3. Range(main') = Range(main) \cup {b}
    <3>1. main \in Seq(Block) /\ b \in Block
      BY <1>2, <1>3, Zenon
    <3>2. Range(Append(main, b)) = Range(main) \cup {b}
      BY <3>1, RangeOfAppend
    <3> QED BY <2>2, <3>2, Zenon
  <2>4. Types'
    <3>1. n' \in Nat /\ split \in Nat /\ fail \in Nat
      BY <1>2, <2>1 DEF Types, TypeOK
    <3> QED BY <1>1, <2>1, <2>2, <3>1, Zenon DEF Types, TypeOK, Versions
  <2>5. Fork'
    BY <1>1, <1>6, <2>1, Zenon DEF Fork
  <2>6. Progress'
    <3>1. n' \in 1..(Len(branch) + 1) /\ Common + n' - 1 = Common + n
      BY <1>2, <2>1, Forward, Zenon
    <3>2. main' = SubSeq(Path[Target], 1, Common + n' - 1)
      BY <1>3, <2>2, <3>1, Zenon
    <3> QED BY <1>1, <1>6, <2>1, <3>1, <3>2, Zenon DEF Progress
  <2>7. Roles'
    BY <1>1, <1>4, <1>6, <2>1, <2>3 DEF Roles
  <2>8. Checked'
    BY <1>1, <1>6, <2>1, <2>2, <2>3, Zenon DEF Checked
  <2> QED BY <2>2, <2>4, <2>5, <2>6, <2>7, <2>8, Zenon
<1>8. CASE ~Accepted(b)
  <2>1. /\ Refuse(b) /\ invalid' = invalid \cup MarkedInvalid(b) /\ MarkedInvalid(b) \subseteq {b}
        /\ step' = "unwind" /\ fail' = n /\ n' = n
    BY <1>8, Zenon DEF Connect, MarkedInvalid, b
  <2>2. /\ main' = main /\ pool' = pool /\ hf' = hf /\ Chain'
        /\ aliasCache' \subseteq AliasesIn(Tx)
    BY <1>3, <2>1, RefuseStep
  <2>3. Types'
    BY <1>1, <1>2, <1>3, <2>1, <2>2, Zenon DEF Types, TypeOK, Versions
  <2>4. Fork'
    BY <1>1, <1>6, <2>1, Zenon DEF Fork
  <2>5. Progress'
    <3>1. Len(main) \in Common..(Common + n - 1) /\ main = SubSeq(Path[Target], 1, Len(main))
      <4>1. Common + n - 1 \in Common..(Common + n - 1)
        BY <1>2, Forward, Zenon
      <4>2. main = SubSeq(Path[Target], 1, Common + n - 1) /\ Len(main) = Common + n - 1
        BY <1>2, <1>3, Zenon
      <4> QED BY <4>1, <4>2, Zenon
    <3> QED BY <1>1, <1>2, <1>6, <2>1, <2>2, <3>1, Zenon DEF Progress
  <2>6. Roles'
    <3>1. branch'[fail'] = b
      BY <1>1, <2>1, Zenon DEF b
    <3>2. invalid' \subseteq invalid \cup {b} /\ Range(branch) \cap invalid = {}
      BY <1>1, <2>1 DEF Roles
    <3> QED BY <1>1, <1>3, <1>4, <1>5, <1>6, <2>1, <2>2, <3>1, <3>2 DEF Roles
  <2>7. Checked'
    BY <1>1, <1>6, <2>1, <2>2, Zenon DEF Checked
  <2> QED BY <2>2, <2>3, <2>4, <2>5, <2>6, <2>7, Zenon
<1> QED BY <1>7, <1>8, Zenon

LEMMA BeginPushOldInv ==
  ASSUME IInv, BeginPushOld
  PROVE  IInv'
<1> USE DEF IInv
<1>1. /\ step = "connect" /\ n > Len(branch) /\ step' = "push" /\ n' = 1
      /\ UNCHANGED <<main, alt, invalid, pool, aliasCache, hf, branch, old, split, fail,
                     discard, before, panicked, crashes>>
  BY Zenon DEF BeginPushOld
<1>2. main = Path[Target] /\ split = Common /\ old = SubSeq(before, Common + 1, Len(before))
  <2>1. /\ Common \in Nat \ {0} /\ Len(branch) \in Nat \ {0} /\ Path[Target] \in Seq(Block)
        /\ Len(Path[Target]) = Common + Len(branch)
    BY <1>1, ForkFacts, Zenon DEF Types
  <2>2. /\ n \in 1..(Len(branch) + 1) /\ main = SubSeq(Path[Target], 1, Common + n - 1)
        /\ split = Common /\ old = SubSeq(before, Common + 1, Len(before))
    BY <1>1, Zenon DEF Progress
  <2>3. Common + n - 1 = Len(Path[Target])
    <3>1. n > Len(branch) /\ n \in 1..(Len(branch) + 1)
      BY <1>1, <2>2, Zenon
    <3> QED BY <2>1, <3>1
  <2> QED BY <2>1, <2>2, <2>3, WholeSeq, Zenon
<1>3. Common' = Common /\ Target' = Target
  BY <1>1, Zenon DEF Common, Target
<1>4. Types'
  BY <1>1 DEF Types, TypeOK, Versions
<1>5. Chain'
  BY <1>1, Zenon DEF Chain, Tail_id
<1>6. Fork'
  BY <1>1, <1>3, Zenon DEF Fork
<1>7. Progress'
  <2>1. 1 > 0
    BY OneIsPositive, Zenon
  <2> QED BY <1>1, <1>2, <1>3, <2>1, Zenon DEF Progress
<1>8. Roles'
  BY <1>1, <1>3 DEF Roles
<1>9. Checked'
  BY <1>1, <1>3, Zenon DEF Checked
<1> QED BY <1>4, <1>5, <1>6, <1>7, <1>8, <1>9

LEMMA PushOldInv ==
  ASSUME IInv, PushOld
  PROVE  IInv'
<1> USE DEF IInv
<1> DEFINE b == old[n]
<1>1. /\ step = "push" /\ n <= Len(old) /\ n' = n + 1
      /\ alt \subseteq alt' /\ alt' \subseteq alt \cup {b}
      /\ UNCHANGED <<main, invalid, pool, aliasCache, hf, step, branch, old, split, fail,
                     discard, before, panicked, crashes>>
  BY Zenon DEF PushOld
<1>2. n \in 1..Len(old) /\ Len(old) \in Nat
  <2>1. Len(old) \in Nat
    BY <1>1, OldFacts, Zenon DEF Types
  <2>2. n \in Nat /\ n > 0
    BY <1>1, Zenon DEF Types, TypeOK, Progress
  <2> QED BY <1>1, <2>1, <2>2
<1>3. /\ b = before[Common + n] /\ b \in Block \ {Genesis} /\ b \in Range(before)
      /\ Len(Path[b]) = Common + n
  BY <1>1, <1>2, OldFacts, Zenon DEF Types
<1>4. /\ Common \in Nat \ {0} /\ before \in Seq(Block) /\ Common <= Len(before)
      /\ Len(before) \in Nat /\ Len(old) = Len(before) - Common
  BY <1>1, ForkFacts, OldFacts, Zenon DEF Types
<1>5. b \notin Range(SubSeq(before, 1, Common))
  <2>1. PICK z \in Block : before = Path[z]
    BY <1>1, ForkFacts, Zenon DEF Fork, Types
  <2>2. Common \in 1..Len(Path[z])
    BY <1>4, <2>1
  <2>3. PICK y \in Block : SubSeq(before, 1, Common) = Path[y] /\ Len(Path[y]) = Common
    BY <2>1, <2>2, PrefixIsPath, Zenon
  <2>4. SUFFICES ASSUME b \in Range(Path[y]) PROVE FALSE
    BY <2>3, Zenon
  <2>5. Len(Path[b]) \in 1..Common
    BY <2>3, <2>4, OnPath
  <2> QED BY <1>2, <1>3, <1>4, <2>5
<1>6. b \notin Checkpoints /\ CheckBlock(b)
  <2>1. Common + n \in (Common + 1)..Len(before)
    BY <1>2, <1>4
  <2> QED BY <1>1, <1>3, <2>1, Zenon DEF Checked
<1>7. Common' = Common /\ Target' = Target
  BY <1>1, Zenon DEF Common, Target
<1> HIDE DEF b
<1>8. Types'
  <2>1. n' \in Nat
    BY <1>1, <1>2, <1>4, Forward, Zenon
  <2> QED BY <1>1, <1>3, <2>1, Zenon DEF Types, TypeOK, Versions
<1>9. Chain'
  BY <1>1, Zenon DEF Chain, Tail_id
<1>10. Fork'
  BY <1>1, <1>7, Zenon DEF Fork
<1>11. Progress'
  <2>1. n' > 0
    BY <1>1, <1>2, <1>4, Forward, Zenon
  <2> QED BY <1>1, <1>7, <2>1, Zenon DEF Progress
<1>12. Roles'
  <2>1. b \notin invalid
    BY <1>1, <1>3, Zenon DEF Roles
  <2> QED BY <1>1, <1>5, <1>7, <2>1, Zenon DEF Roles
<1>13. Checked'
  BY <1>1, <1>6, <1>7 DEF Checked
<1> QED BY <1>8, <1>9, <1>10, <1>11, <1>12, <1>13

\* The chain of a switch's target is the common part and the branch.
LEMMA TargetChain ==
  ASSUME TypeOK, Fork, step # "idle"
  PROVE  Range(Path[Target]) = Range(SubSeq(before, 1, Common)) \cup Range(branch)
<1>1. SubSeq(before, 1, Common) \in Seq(Block) /\ branch \in Seq(Block)
  <2>1. before \in Seq(Block) /\ Common \in 0..Len(before) /\ branch \in Seq(Block)
    BY ForkFacts, Zenon
  <2> QED BY <2>1, PrefixFacts, Zenon
<1>2. Path[Target] = SubSeq(before, 1, Common) \o branch
  BY Zenon DEF Fork
<1>3. \A c, d \in Seq(Block) : Range(c \o d) = Range(c) \cup Range(d)
  BY RangeOfConcat, Zenon
<1> QED BY <1>1, <1>2, <1>3, Zenon

\* The end of a switch resets its variables.
LEMMA NoSwitchTypes ==
  ASSUME NoSwitch
  PROVE  /\ branch' \in Seq(Block) /\ old' \in Seq(Block) /\ before' \in Seq(Block)
         /\ {split', n', fail'} \subseteq Nat
         /\ discard' \in BOOLEAN
         /\ Range(branch') = {}
<1>1. branch' \in Seq(Block) /\ old' \in Seq(Block) /\ before' \in Seq(Block)
  BY NoBlocks, Zenon DEF NoSwitch
<1>2. {split', n', fail'} \subseteq Nat
  BY DEF NoSwitch
<1>3. discard' \in BOOLEAN
  BY Zenon DEF NoSwitch
<1>4. Range(branch') = {}
  BY NoBlocks, Zenon DEF NoSwitch
<1> QED BY <1>1, <1>2, <1>3, <1>4

LEMMA FinishSwitchInv ==
  ASSUME IInv, FinishSwitch
  PROVE  IInv' /\ main = Path[Target]
<1> USE DEF IInv
<1>1. /\ step = "push" /\ alt' = alt \ Range(branch) /\ hf' = Reorganized(main, split)
      /\ step' = "idle" /\ branch' = <<>> /\ old' = <<>> /\ NoSwitch
      /\ UNCHANGED <<main, invalid, pool, aliasCache, panicked, crashes>>
  BY Zenon DEF FinishSwitch, NoSwitch
<1>2. main = Path[Target] /\ split = Common
  BY <1>1, Zenon DEF Progress
<1>3. Range(main) = Range(SubSeq(before, 1, Common)) \cup Range(branch)
  BY <1>1, <1>2, TargetChain, Zenon DEF Types
<1>4. hf' \in Versions
  <2>1. /\ Common \in Nat \ {0} /\ Len(branch) \in Nat
        /\ Len(Path[Target]) = Common + Len(branch)
    BY <1>1, ForkFacts, Zenon DEF Types
  <2>2. split \in 1..Len(main)
    BY <1>2, <2>1, FirstOf, Zenon
  <2> QED BY <1>1, <2>2, ReorganizedType, Zenon
<1>5. Types'
  BY <1>1, <1>4, NoSwitchTypes DEF Types, TypeOK, Versions
<1>6. Chain'
  BY <1>1, Zenon DEF Chain, Tail_id
<1>7. Fork' /\ Progress'
  BY <1>1, Zenon DEF Fork, Progress
<1>8. Roles'
  BY <1>1, <1>3, NoSwitchTypes DEF Roles
<1>9. Checked'
  <2>1. Target \in Range(branch)
    BY <1>1, ForkFacts, Zenon DEF Types
  <2> QED BY <1>1, <2>1, Zenon DEF Checked
<1> QED BY <1>2, <1>5, <1>6, <1>7, <1>8, <1>9, Zenon

LEMMA UnwindInv ==
  ASSUME IInv, Unwind
  PROVE  IInv' /\ pool' \cup Mined(main') = pool \cup Mined(main)
<1> USE DEF IInv
<1>1. /\ step = "unwind" /\ Len(main) # split /\ PopBlockFromBlockchain
      /\ UNCHANGED <<alt, invalid, step, branch, old, split, n, fail, discard, before,
                     panicked, crashes>>
  BY Zenon DEF Unwind, switchVars
<1>2. /\ split = Common /\ fail \in 1..Len(branch) /\ Len(main) \in Common..(Common + fail - 1)
      /\ main = SubSeq(Path[Target], 1, Len(main))
  BY <1>1 DEF Progress
<1>3. /\ Common \in Nat \ {0} /\ Len(branch) \in Nat \ {0} /\ Path[Target] \in Seq(Block)
      /\ Len(Path[Target]) = Common + Len(branch) /\ main \in Seq(Block) /\ Len(main) \in Nat
  <2>1. main \in Seq(Block)
    BY Zenon DEF Types, TypeOK
  <2>2. Len(main) \in Nat
    BY <2>1
  <2> QED BY <1>1, <2>1, <2>2, ForkFacts, Zenon DEF Types
<1>4. Len(main) > 1 /\ Len(main) - 1 \in Common..(Common + fail - 1)
  <2> DEFINE l == Len(main)
             c == Common
             k == Len(branch)
  <2>1. l # c /\ l \in Nat /\ c \in Nat \ {0} /\ k \in Nat /\ fail \in 1..k
        /\ l \in c..(c + fail - 1)
    BY <1>1, <1>2, <1>3, Zenon
  <2> HIDE DEF l, c, k
  <2>2. l > 1 /\ l - 1 \in c..(c + fail - 1)
    BY <2>1
  <2> QED BY <2>2 DEF l, c
<1>5. /\ main' = SubSeq(main, 1, Len(main) - 1) /\ main' \in Seq(Block) /\ main' # <<>>
      /\ Len(main') = Len(main) - 1
      /\ Chain'
      /\ pool' \subseteq Tx /\ aliasCache' \subseteq AliasesIn(Tx) /\ hf' = hf
      /\ \A i \in DOMAIN main' : Version[main'[i]] \in Versions
      /\ pool' \cup Mined(main') = pool \cup Mined(main)
  BY <1>1, <1>4, PopStep
<1>6. Common' = Common /\ Target' = Target
  BY <1>1 DEF Common, Target
<1>7. Range(main') \subseteq Range(main)
  <2>1. Len(main) - 1 \in 0..Len(main)
    BY <1>3, <1>4
  <2> QED BY <1>3, <1>5, <2>1, RangeOfPrefix, Zenon
<1>8. Types'
  BY <1>1, <1>5, Zenon DEF Types, TypeOK, Versions
<1>9. Fork'
  BY <1>1, <1>6, Zenon DEF Fork
<1>10. Progress'
  <2>1. \A i \in 1..Len(main) : main[i] = Path[Target][i]
    <3>1. \A i \in 1..Len(main) : SubSeq(Path[Target], 1, Len(main))[i] = Path[Target][i]
      BY <1>2, <1>3
    <3> QED BY <1>2, <3>1, Zenon
  <2>2. SubSeq(main, 1, Len(main) - 1) = SubSeq(Path[Target], 1, Len(main) - 1)
    <3>1. Len(main) <= Len(Path[Target])
      BY <1>2, <1>3
    <3> QED BY <1>3, <1>4, <2>1, <3>1
  <2>3. main' = SubSeq(Path[Target], 1, Len(main'))
    BY <1>5, <2>2, Zenon
  <2> QED BY <1>1, <1>4, <1>5, <1>6, <2>3, Zenon DEF Progress
<1>11. Roles'
  BY <1>1, <1>6, <1>7 DEF Roles
<1>12. Checked'
  BY <1>1, <1>6, <1>7, Zenon DEF Checked
<1> QED BY <1>5, <1>8, <1>9, <1>10, <1>11, <1>12

LEMMA BeginRestoreInv ==
  ASSUME IInv, BeginRestore
  PROVE  IInv'
<1> USE DEF IInv
<1>1. /\ step = "unwind" /\ Len(main) = split /\ hf' = Reorganized(main, split)
      /\ step' = "restore" /\ n' = 1
      /\ UNCHANGED <<main, alt, invalid, pool, aliasCache, branch, old, split, fail,
                     discard, before, panicked, crashes>>
  BY Zenon DEF BeginRestore
<1>2. /\ split = Common /\ old = SubSeq(before, Common + 1, Len(before))
      /\ main = SubSeq(Path[Target], 1, Len(main))
  BY <1>1, Zenon DEF Progress
<1>3. /\ Common \in Nat \ {0} /\ SubSeq(Path[Target], 1, Common) = SubSeq(before, 1, Common)
      /\ Len(old) \in Nat
  BY <1>1, ForkFacts, OldFacts, Zenon DEF Types
<1>4. hf' \in Versions
  <2>1. split \in 1..Len(main)
    BY <1>1, <1>2, <1>3, FirstOf, Zenon
  <2> QED BY <1>1, <2>1, ReorganizedType, Zenon
<1>5. Common' = Common /\ Target' = Target
  BY <1>1, Zenon DEF Common, Target
<1>6. Types'
  BY <1>1, <1>4 DEF Types, TypeOK, Versions
<1>7. Chain'
  BY <1>1, Zenon DEF Chain, Tail_id
<1>8. Fork'
  BY <1>1, <1>5, Zenon DEF Fork
<1>9. Progress'
  <2>1. Common + 1 - 1 = Common /\ 1 \in 1..(Len(old) + 1)
    BY <1>3, FirstOf, Zenon
  <2>2. main = SubSeq(before, 1, Common)
    BY <1>1, <1>2, <1>3, Zenon
  <2> QED BY <1>1, <1>2, <1>5, <2>1, <2>2, Zenon DEF Progress
<1>10. Roles'
  BY <1>1, <1>5, Zenon DEF Roles
<1>11. Checked'
  BY <1>1, <1>5, Zenon DEF Checked
<1> QED BY <1>6, <1>7, <1>8, <1>9, <1>10, <1>11

\* While a chain is restored it is a part of the chain the switch began with.
LEMMA RestoreFacts ==
  ASSUME IInv, step = "restore"
  PROVE  /\ split = Common /\ split \in 1..Len(main)
         /\ n \in 1..(Len(old) + 1) /\ Len(old) = Len(before) - Common /\ Len(old) \in Nat
         /\ Len(main) = Common + n - 1 /\ main = SubSeq(before, 1, Len(main))
         /\ Range(main) \subseteq Range(before)
         /\ branch \in Seq(Block) /\ fail \in 1..Len(branch)
         /\ n = Len(old) + 1 => main = before
         /\ Common \in Nat \ {0}
<1> USE DEF IInv
<1>1. /\ split = Common /\ n \in 1..(Len(old) + 1) /\ fail \in 1..Len(branch)
      /\ main = SubSeq(before, 1, Common + n - 1)
  BY Zenon DEF Progress
<1>2. /\ before \in Seq(Block) /\ Len(before) \in Nat /\ Common \in Nat \ {0}
      /\ Common <= Len(before) /\ branch \in Seq(Block)
  BY ForkFacts, Zenon DEF Types
<1>3. Len(old) = Len(before) - Common /\ Len(old) \in Nat
  BY OldFacts, Zenon DEF Types
<1>4. PICK k \in 1..Len(before) : k = Common + n - 1
  BY <1>1, <1>2, <1>3
<1>5. Len(main) = k /\ main = SubSeq(before, 1, k)
  <2>1. k \in 0..Len(before)
    OBVIOUS
  <2> QED BY <1>1, <1>2, <1>4, <2>1, PrefixFacts, Zenon
<1>6. split \in 1..Len(main)
  BY <1>1, <1>2, <1>4, <1>5
<1>7. Range(main) \subseteq Range(before)
  <2>1. k \in 0..Len(before)
    OBVIOUS
  <2> QED BY <1>2, <1>5, <2>1, RangeOfPrefix, Zenon
<1>8. ASSUME n = Len(old) + 1 PROVE main = before
  <2>1. k = Len(before)
    BY <1>2, <1>3, <1>4, <1>8
  <2> QED BY <1>2, <1>5, <2>1, WholeSeq, Zenon
<1> QED BY <1>1, <1>2, <1>3, <1>4, <1>5, <1>6, <1>7, <1>8, Zenon

LEMMA RestoreInv ==
  ASSUME IInv, Restore
  PROVE  IInv' /\ pool' \cup Mined(main') = pool \cup Mined(main)
<1> DEFINE b == old[n]
<1> USE DEF IInv
<1>1. /\ step = "restore" /\ n <= Len(old) /\ Accepted(b) /\ Accept(b) /\ n' = n + 1
      /\ UNCHANGED <<alt, invalid, step, branch, old, split, fail, discard, before, panicked,
                     crashes>>
  BY Zenon DEF Restore
<1>2. /\ n \in 1..Len(old) /\ Len(old) \in Nat /\ Common \in Nat \ {0}
      /\ Range(main) \subseteq Range(before)
  <2>1. /\ n \in 1..(Len(old) + 1) /\ Len(old) \in Nat /\ split = Common
        /\ Common \in Nat \ {0} /\ Range(main) \subseteq Range(before)
    BY <1>1, RestoreFacts, Zenon
  <2> QED BY <1>1, <2>1, NotLast, Zenon
<1>3. /\ b \in Block \ {Genesis} /\ Path[b] = SubSeq(before, 1, Common + n)
      /\ b \in Range(before)
  BY <1>1, <1>2, OldFacts, Zenon DEF Types
<1> HIDE DEF b
<1>4. /\ main' = Append(main, b) /\ main' = Path[b] /\ main' \in Seq(Block) /\ main' # <<>>
      /\ Chain'
      /\ pool' \subseteq Tx /\ aliasCache' \subseteq AliasesIn(Tx) /\ hf' \in Versions
      /\ \A i \in DOMAIN main' : Version[main'[i]] \in Versions
      /\ CheckBlock(b)
      /\ pool' \cup Mined(main') = pool \cup Mined(main)
  BY <1>1, <1>3, AcceptStep, Zenon
<1>5. Range(main') = Range(main) \cup {b}
  <2>1. main \in Seq(Block) /\ b \in Block
    BY <1>3, Zenon DEF Types, TypeOK
  <2>2. Range(Append(main, b)) = Range(main) \cup {b}
    BY <2>1, RangeOfAppend
  <2> QED BY <1>4, <2>2, Zenon
<1>6. Common' = Common /\ Target' = Target
  BY <1>1 DEF Common, Target
<1>7. Types'
  <2>1. n' \in Nat /\ split \in Nat /\ fail \in Nat
    BY <1>1, <1>2, Forward, Zenon DEF Types, TypeOK
  <2> QED BY <1>1, <1>4, <2>1, Zenon DEF Types, TypeOK, Versions
<1>8. Fork'
  BY <1>1, <1>6, Zenon DEF Fork
<1>9. Progress'
  <2>1. n' \in 1..(Len(old) + 1) /\ Common + n' - 1 = Common + n
    BY <1>1, <1>2, Forward, Zenon
  <2>2. main' = SubSeq(before, 1, Common + n' - 1)
    BY <1>3, <1>4, <2>1, Zenon
  <2> QED BY <1>1, <1>6, <2>1, <2>2, Zenon DEF Progress
<1>10. Roles'
  BY <1>1, <1>3, <1>5, <1>6, Zenon DEF Roles
<1>11. Checked'
  BY <1>1, <1>4, <1>5, <1>6, Zenon DEF Checked
<1> QED BY <1>4, <1>7, <1>8, <1>9, <1>10, <1>11, Zenon

LEMMA FinishRollbackInv ==
  ASSUME IInv, FinishRollback
  PROVE  IInv' /\ main = before
<1> USE DEF IInv
<1>1. /\ step = "restore" /\ n > Len(old) /\ hf' = Reorganized(main, split)
      /\ alt' = alt \ Failed /\ invalid' = invalid \cup Failed
      /\ step' = "idle" /\ branch' = <<>> /\ old' = <<>> /\ NoSwitch
      /\ UNCHANGED <<main, pool, aliasCache, panicked, crashes>>
  BY Zenon DEF FinishRollback, NoSwitch
<1>2. main = before /\ split \in 1..Len(main)
  <2>1. /\ n \in 1..(Len(old) + 1) /\ Len(old) \in Nat /\ split \in 1..Len(main)
        /\ n = Len(old) + 1 => main = before
    BY <1>1, RestoreFacts, Zenon
  <2> QED BY <1>1, <2>1
<1>3. Failed \subseteq Range(branch) /\ branch[fail] \in Failed /\ Target \in Failed
  BY <1>1, RestoreFacts, FailedFacts, Zenon
<1>4. hf' \in Versions
  BY <1>1, <1>2, ReorganizedType, Zenon
<1>5. Types'
  <2>1. Failed \subseteq Block \ {Genesis}
    BY <1>1, <1>3, Zenon DEF Fork, Types, TypeOK
  <2> QED BY <1>1, <1>4, <2>1, NoSwitchTypes, Zenon DEF Types, TypeOK, Versions
<1>6. Chain'
  BY <1>1, Zenon DEF Chain, Tail_id
<1>7. Fork' /\ Progress'
  BY <1>1, Zenon DEF Fork, Progress
<1>8. Roles'
  BY <1>1, <1>2, <1>3, NoSwitchTypes, Zenon DEF Roles, Fork
<1>9. Checked'
  BY <1>1, <1>3, Zenon DEF Checked
<1> QED BY <1>2, <1>5, <1>6, <1>7, <1>8, <1>9, Zenon

LEMMA PanicInv ==
  ASSUME IInv, Panic
  PROVE  IInv' /\ pool' \cup Mined(main') = pool \cup Mined(main)
<1> DEFINE b == old[n]
<1> USE DEF IInv
<1>1. /\ step = "restore" /\ n <= Len(old) /\ Refuse(b) /\ panicked' = TRUE
      /\ alt' = alt \ Failed /\ invalid' = invalid \cup MarkedInvalid(b) \cup Failed
      /\ MarkedInvalid(b) \subseteq {b}
      /\ step' = "idle" /\ branch' = <<>> /\ old' = <<>> /\ NoSwitch /\ crashes' = crashes
  BY Zenon DEF Panic, NoSwitch, MarkedInvalid
<1>2. /\ n \in 1..Len(old) /\ Len(old) \in Nat /\ Common \in Nat \ {0}
      /\ Range(main) \subseteq Range(before) /\ Len(main) < Common + n
  <2>1. /\ n \in 1..(Len(old) + 1) /\ Len(old) \in Nat /\ split = Common
        /\ Common \in Nat \ {0} /\ Range(main) \subseteq Range(before)
        /\ Len(main) = Common + n - 1
    BY <1>1, RestoreFacts, Zenon
  <2> QED BY <1>1, <2>1
<1>3. b \in Block \ {Genesis} /\ Len(Path[b]) = Common + n /\ b \in Range(before)
  BY <1>1, <1>2, OldFacts, Zenon DEF Types
<1> HIDE DEF b
<1>4. Failed \subseteq Range(branch) /\ branch[fail] \in Failed /\ Target \in Failed
  BY <1>1, RestoreFacts, FailedFacts, Zenon
<1>5. /\ main' = main /\ pool' = pool /\ hf' = hf /\ Chain'
      /\ aliasCache' \subseteq AliasesIn(Tx)
  BY <1>1, <1>3, RefuseStep, Zenon
<1>6. b \notin Range(main)
  <2>1. Tail_id \in Block /\ main = Path[Tail_id]
    BY ListFacts, Zenon DEF Types, TypeOK, Chain, Tail_id
  <2>2. SUFFICES ASSUME b \in Range(Path[Tail_id]) PROVE FALSE
    BY <2>1, Zenon
  <2>3. Len(Path[b]) \in 1..Len(main)
    BY <2>1, <2>2, OnPath, Zenon
  <2> QED BY <1>2, <1>3, <2>3
<1>7. Types'
  <2>1. Failed \subseteq Block \ {Genesis}
    BY <1>1, <1>4, Zenon DEF Fork, Types, TypeOK
  <2>2. panicked' \in BOOLEAN
    BY <1>1
  <2> QED BY <1>1, <1>3, <1>5, <2>1, <2>2, NoSwitchTypes, Zenon DEF Types, TypeOK, Versions
<1>8. Fork' /\ Progress'
  BY <1>1, Zenon DEF Fork, Progress
<1>9. Roles'
  <2>1. Failed \cap Range(before) = {}
    BY <1>1, <1>4, Zenon DEF Fork
  <2>2. Range(main') \cap invalid' = {}
    BY <1>1, <1>2, <1>5, <1>6, <2>1, Zenon DEF Roles
  <2>3. alt' \cap invalid' = {}
    BY <1>1, <1>3, <1>4, Zenon DEF Roles
  <2>4. Range(main') \cap alt' = {}
    BY <1>1, <1>2, <1>5 DEF Roles
  <2> QED BY <1>1, <2>2, <2>3, <2>4, NoSwitchTypes, Zenon DEF Roles
<1>10. Checked'
  BY <1>1, <1>4, <1>5, Zenon DEF Checked
<1> QED BY <1>5, <1>7, <1>8, <1>9, <1>10, Zenon

LEMMA TxInv ==
  ASSUME IInv, NEW tx \in Tx, TxArrives(tx) \/ TxLeaves(tx)
  PROVE  IInv'
<1> USE DEF IInv
<1>1. /\ pool' \subseteq Tx
      /\ UNCHANGED <<main, alt, invalid, aliasCache, hf, step, branch, old, split, n, fail,
                     discard, before, panicked, crashes>>
  BY Zenon DEF TxArrives, TxLeaves, switchVars, Types, TypeOK
<1>2. Common' = Common /\ Target' = Target
  BY <1>1 DEF Common, Target
<1>3. Types'
  BY <1>1, Zenon DEF Types, TypeOK, Versions
<1>4. Chain' /\ Fork' /\ Progress'
  BY <1>1, <1>2, Zenon DEF Chain, Tail_id, Fork, Progress
<1>5. Roles' /\ Checked'
  BY <1>1, <1>2, Zenon DEF Roles, Checked
<1> QED BY <1>3, <1>4, <1>5

\* What the blocks of a chain hold are transactions.
LEMMA MinedType ==
  ASSUME NEW c \in Seq(Block)
  PROVE  Mined(c) \subseteq Tx
<1>1. ASSUME NEW b \in Block PROVE TxSet(b) \subseteq Tx
  BY BlockAssumption DEF TxSet, Range
<1>2. \A h \in DOMAIN c : c[h] \in Block
  OBVIOUS
<1> QED BY <1>1, <1>2, Zenon DEF Mined

LEMMA CrashInv ==
  ASSUME IInv, Crash
  PROVE  IInv'
<1> USE DEF IInv
<1>1. /\ crashes < MaxCrashes /\ crashes' = crashes + 1
      /\ pool' \subseteq pool /\ alt' = {} /\ invalid' = {}
      /\ aliasCache' = AliasesIn(Mined(main))
      /\ hf' = Raised(Version[Tail_id], Len(main))
      /\ step' = "idle" /\ branch' = <<>> /\ old' = <<>> /\ NoSwitch
      /\ UNCHANGED <<main, panicked>>
  BY DEF Crash, NoSwitch
<1>2. /\ main \in Seq(Block) /\ Tail_id \in Block /\ main = Path[Tail_id]
      /\ Version[Tail_id] \in Versions
  <2>1. main \in Seq(Block) /\ main # <<>> /\ main = Path[Tail_id]
    BY Zenon DEF Types, TypeOK, Chain
  <2>2. Len(main) \in DOMAIN main /\ main[Len(main)] \in Block
    BY <2>1
  <2> QED BY <2>1, <2>2, Zenon DEF Types, Tail_id
<1>3. hf' \in Versions
  BY <1>1, <1>2, RaisedType, Zenon
<1>4. aliasCache' \subseteq AliasesIn(Tx)
  <2>1. Mined(main) \subseteq Tx
    BY <1>2, MinedType, Zenon
  <2> QED BY <1>1, <2>1, Zenon DEF AliasesIn
<1>5. crashes' \in 0..MaxCrashes
  <2>1. MaxCrashes \in Nat /\ crashes \in 0..MaxCrashes
    BY BlockAssumption, Zenon DEF Types, TypeOK
  <2> QED BY <1>1, <2>1
<1>6. Types'
  BY <1>1, <1>3, <1>4, <1>5, NoSwitchTypes, Zenon DEF Types, TypeOK, Versions
<1>7. Chain'
  BY <1>1, Zenon DEF Chain, Tail_id
<1>8. Fork' /\ Progress'
  BY <1>1, Zenon DEF Fork, Progress
<1>9. Roles'
  BY <1>1, NoSwitchTypes, Zenon DEF Roles
<1>10. Checked'
  BY <1>1, Zenon DEF Checked
<1> QED BY <1>6, <1>7, <1>8, <1>9, <1>10, Zenon

LEMMA StutterInv ==
  ASSUME IInv, UNCHANGED vars
  PROVE  IInv'
<1> USE DEF IInv
<1>1. UNCHANGED <<main, alt, invalid, pool, aliasCache, hf, step, branch, old, split, n, fail,
                  discard, before, panicked, crashes>>
  BY Zenon DEF vars, switchVars
<1>2. Common' = Common /\ Target' = Target
  BY <1>1 DEF Common, Target
<1>3. Types'
  BY <1>1, Zenon DEF Types, TypeOK, Versions
<1>4. Chain' /\ Fork' /\ Progress'
  BY <1>1, <1>2, Zenon DEF Chain, Tail_id, Fork, Progress
<1>5. Roles' /\ Checked'
  BY <1>1, <1>2, Zenon DEF Roles, Checked
<1> QED BY <1>3, <1>4, <1>5, Zenon

LEMMA SwitchStepInv ==
  ASSUME IInv, SwitchStep
  PROVE  IInv' /\ pool' \cup Mined(main') = pool \cup Mined(main)
<1>1. CASE PopToSplit \/ Connect \/ Unwind \/ Restore \/ Panic
  BY <1>1, PopToSplitInv, ConnectInv, UnwindInv, RestoreInv, PanicInv, Zenon
<1>2. CASE BeginConnect \/ BeginPushOld \/ PushOld \/ FinishSwitch \/ BeginRestore \/ FinishRollback
  <2>1. IInv'
    BY <1>2, BeginConnectInv, BeginPushOldInv, PushOldInv, FinishSwitchInv, BeginRestoreInv,
       FinishRollbackInv
  <2>2. main' = main /\ pool' = pool
    BY <1>2, Zenon DEF BeginConnect, BeginPushOld, PushOld, FinishSwitch, BeginRestore, FinishRollback
  <2> QED BY <2>1, <2>2, Zenon
<1> QED BY <1>1, <1>2, Zenon DEF SwitchStep

\* The inductive invariant holds in every reachable state: one step per action.
THEOREM Inductive == Spec => []IInv
<1>1. Init => IInv
  BY InitInv, Zenon
<1>2. IInv /\ [Next]_vars => IInv'
  <2> SUFFICES ASSUME IInv, [Next]_vars PROVE IInv'
    BY Zenon
  <2>1. ASSUME NEW b \in Block \ {Genesis}, AddToMain(b) \/ AddAlternative(b) PROVE IInv'
    BY <2>1, AddToMainInv, AddAlternativeInv, Zenon
  <2>2. CASE SwitchStep
    BY <2>2, SwitchStepInv, Zenon
  <2>3. ASSUME NEW tx \in Tx, TxArrives(tx) \/ TxLeaves(tx) PROVE IInv'
    BY <2>3, TxInv
  <2>4. CASE Crash
    BY <2>4, CrashInv, Zenon
  <2>5. CASE UNCHANGED vars
    BY <2>5, StutterInv
  <2> QED BY <2>1, <2>2, <2>3, <2>4, <2>5 DEF Next
<1> QED BY <1>1, <1>2, PTL DEF Spec

----------------------------------------------------------------------------
(***************************************************************************)
(* What follows.                                                           *)
(***************************************************************************)
\* At every committed step of add_new_block, its switches and rollbacks, and after
\* every crash, the database holds one sound branch of the block tree.
THEOREM AlwaysConsistent == Spec => []ChainConsistent
<1>1. IInv => ChainConsistent
  BY Zenon DEF IInv, Types, Chain, ChainConsistent
<1> QED BY <1>1, Inductive, PTL

\* Between operations a block is in one of the main chain, m_alternative_chains and
\* m_invalid_blocks, whatever switches and rollbacks came before.
THEOREM RolesApart == Spec => []OneRole
<1>1. IInv => OneRole
  <2> SUFFICES ASSUME IInv, step = "idle" PROVE OneRole
    BY Zenon DEF OneRole
  <2>1. Range(branch) = {}
    BY DEF IInv, Roles, Range
  <2> QED BY <2>1, Zenon DEF IInv, Roles, OneRole
<1> QED BY <1>1, Inductive, PTL

\* Whatever switch_to_alternative_blockchain and rollback_blockchain_switching pop,
\* refuse or add again, a transaction stays in the pool or in the chain.
THEOREM NoTransactionLost == Spec => SwitchKeepsTxs
<1>1. IInv /\ [Next]_vars => [SwitchStep => pool' \cup Mined(main') = pool \cup Mined(main)]_vars
  BY SwitchStepInv
<1> QED BY <1>1, Inductive, PTL DEF Spec, SwitchKeepsTxs
=============================================================================

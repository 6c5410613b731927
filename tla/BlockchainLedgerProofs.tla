------------------------ MODULE BlockchainLedgerProofs ------------------------
(***************************************************************************)
(* Proofs about what the chain promises: it keeps its checkpoints, between *)
(* operations it is the best one, and it implements Ledger.  They rest on  *)
(* the inductive invariant of BlockchainProofs.                            *)
(***************************************************************************)
EXTENDS BlockchainProofs

(***************************************************************************)
(* The chain, and the block whose turn it is.                              *)
(***************************************************************************)
LEMMA MainFacts ==
  ASSUME Types, Chain
  PROVE  /\ main \in Seq(Block) /\ main # <<>> /\ Len(main) \in Nat \ {0} /\ Len(main) \in Nat
         /\ Len(main) \in 1..Len(main) /\ Tail_id \in Block /\ main = Path[Tail_id]
<1>1. main \in Seq(Block) /\ main # <<>>
  BY Zenon DEF Types, TypeOK
<1> QED BY <1>1, ListFacts, Zenon DEF Chain, Tail_id

LEMMA NextOfBranch ==
  ASSUME IInv, Connect
  PROVE  branch[n] \in Block
<1>1. /\ n <= Len(branch) /\ branch \in Seq(Block) /\ n \in 1..(Len(branch) + 1)
  BY Zenon DEF Connect, IInv, Types, TypeOK, Progress
<1>2. Len(branch) \in Nat
  BY <1>1, ListFacts, Zenon
<1>3. n \in 1..Len(branch)
  BY <1>1, <1>2, NotLast, Zenon
<1> QED BY <1>1, <1>3, ListFacts, Zenon

LEMMA NextOfOld ==
  ASSUME IInv, step = "restore", n <= Len(old)
  PROVE  n \in 1..Len(old) /\ old[n] \in Block \ {Genesis}
<1>1. n \in 1..(Len(old) + 1) /\ Len(old) \in Nat
  BY RestoreFacts, Zenon
<1>2. n \in 1..Len(old)
  BY <1>1, NotLast, Zenon
<1> QED BY <1>2, OldFacts, Zenon DEF IInv, Types

\* The height a rescan begins at is one of the chain.
LEMMA SplitFacts ==
  ASSUME IInv, FinishSwitch \/ FinishRollback \/ BeginRestore
  PROVE  split \in 1..Len(main)
<1> USE DEF IInv
<1>1. CASE FinishSwitch
  <2>1. step = "push" /\ split = Common /\ main = Path[Target]
    BY <1>1, Zenon DEF FinishSwitch, Progress
  <2>2. /\ Common \in Nat \ {0} /\ Len(branch) \in Nat
        /\ Len(Path[Target]) = Common + Len(branch)
    BY <2>1, ForkFacts, Zenon DEF Types
  <2> QED BY <2>1, <2>2, FirstOf, Zenon
<1>2. CASE FinishRollback
  BY <1>2, RestoreFacts, Zenon DEF FinishRollback
<1>3. CASE BeginRestore
  BY <1>3, MainFacts, Zenon DEF BeginRestore
<1> QED BY <1>1, <1>2, <1>3, Zenon

----------------------------------------------------------------------------
(***************************************************************************)
(* Checkpoints.                                                            *)
(***************************************************************************)
\* A switch and its rollback pop blocks that are no checkpoints.
LEMMA PoppedBlock ==
  ASSUME IInv, PopToSplit \/ Unwind
  PROVE  Tail_id \notin Checkpoints /\ Len(main) > 1 /\ step # "idle"
<1> USE DEF IInv
<1>1. /\ main \in Seq(Block) /\ Len(main) \in Nat \ {0} /\ Tail_id \in Block
      /\ main = Path[Tail_id]
  BY DEF Types, TypeOK, Chain, Tail_id
<1>2. step \in {"pop", "unwind"}
  BY DEF PopToSplit, Unwind
<1>3. /\ before \in Seq(Block) /\ Len(before) \in Nat /\ Common \in Nat \ {0}
      /\ Common <= Len(before) /\ branch \in Seq(Block) /\ Len(branch) \in Nat
      /\ Target \in Block /\ Path[Target] \in Seq(Block) /\ Len(Path[Target]) = Common + Len(branch)
      /\ Parent(branch[1]) = before[Common]
  BY <1>2, ForkFacts, Zenon DEF Types
<1>4. CASE PopToSplit
  <2>1. /\ before = main \o old /\ Len(main) >= Common /\ old \in Seq(Block)
        /\ Tail_id # before[Common]
    BY <1>3, <1>4, Zenon DEF PopToSplit, Progress, Types, TypeOK
  <2>2. Len(main) <= Len(before) /\ before[Len(main)] = Tail_id
    BY <1>1, <2>1 DEF Tail_id
  <2>3. Len(main) \in (Common + 1)..Len(before)
    <3>1. Len(main) # Common
      BY <2>1, <2>2, Zenon
    <3> QED BY <1>1, <1>3, <2>1, <2>2, <3>1
  <2>4. before[Len(main)] \notin Checkpoints
    BY <1>2, <2>3, Zenon DEF Checked
  <2> QED BY <1>1, <1>2, <1>3, <2>2, <2>3, <2>4
<1>5. CASE Unwind
  <2>1. /\ fail \in 1..Len(branch) /\ Len(main) \in Common..(Common + fail - 1)
        /\ main = SubSeq(Path[Target], 1, Len(main)) /\ Len(main) # Common /\ step = "unwind"
    BY <1>5 DEF Unwind, Progress
  <2>2. PICK j \in 1..Len(branch) : Len(main) = Common + j
    <3>1. Len(main) - Common \in 1..Len(branch) /\ Len(main) = Common + (Len(main) - Common)
      BY <1>1, <1>3, <2>1
    <3> QED BY <3>1, Zenon
  <2>3. Tail_id = Path[Target][Len(main)]
    <3>1. Len(main) \in 1..Len(main) /\ Len(main) <= Len(Path[Target])
      BY <1>1, <1>3, <2>2
    <3>2. SubSeq(Path[Target], 1, Len(main))[Len(main)] = Path[Target][Len(main)]
      BY <1>1, <1>3, <3>1
    <3> QED BY <2>1, <3>2, Zenon DEF Tail_id
  <2>4. Tail_id \in Range(branch)
    <3>1. branch[j] = Path[Target][Common + j]
      BY <1>2, ForkFacts, Zenon DEF Types
    <3> QED BY <1>3, <2>2, <2>3, <3>1 DEF Range
  <2>5. Tail_id # Target
    <3>1. Len(main) < Len(Path[Target])
      BY <1>1, <1>3, <2>1
    <3> QED BY <1>1, <3>1
  <2>6. Tail_id \notin Checkpoints
    BY <1>2, <2>4, <2>5, Zenon DEF Fork, Checked
  <2> QED BY <1>1, <1>2, <1>3, <2>2, <2>6
<1> QED BY <1>4, <1>5, Zenon

\* No step takes a checkpoint from the chain.
LEMMA CheckpointsKept ==
  ASSUME IInv, [Next]_vars
  PROVE  Checkpoints \cap Range(main) \subseteq Range(main')
<1>1. main \in Seq(Block)
  BY Zenon DEF IInv, Types, TypeOK
<1>2. ASSUME NEW b \in Block, main' = Append(main, b) PROVE Range(main) \subseteq Range(main')
  BY <1>1, <1>2, RangeOfAppend
<1>3. ASSUME NEW b \in Block \ {Genesis}, AddToMain(b) PROVE Range(main) \subseteq Range(main')
  BY <1>2, <1>3, Zenon DEF AddToMain, Accept, Refuse
<1>4. CASE PopToSplit \/ Unwind
  <2>1. Tail_id \notin Checkpoints /\ Len(main) > 1
    BY <1>4, PoppedBlock, Zenon
  <2>2. PopBlockFromBlockchain
    BY <1>4, Zenon DEF PopToSplit, Unwind
  <2>3. main' \in Seq(Block) /\ main = Append(main', Tail_id)
    BY <2>1, <2>2, PopStep, Zenon DEF IInv
  <2>4. Range(main) = Range(main') \cup {Tail_id}
    <3>1. Tail_id \in Block
      BY DEF IInv, Types, TypeOK, Tail_id
    <3> QED BY <2>3, <3>1, RangeOfAppend
  <2> QED BY <2>1, <2>4, Zenon
<1>5. CASE Connect
  <2>1. branch[n] \in Block
    BY <1>5, NextOfBranch, Zenon
  <2> QED BY <1>2, <1>5, <2>1, Zenon DEF Connect, Accept, Refuse
<1>6. CASE Restore
  <2>1. old[n] \in Block
    BY <1>6, NextOfOld, Zenon DEF Restore
  <2> QED BY <1>2, <1>6, <2>1, Zenon DEF Restore, Accept
<1>7. CASE BeginConnect \/ BeginPushOld \/ PushOld \/ FinishSwitch \/ BeginRestore
           \/ FinishRollback \/ Panic
  BY <1>7, Zenon DEF BeginConnect, BeginPushOld, PushOld, FinishSwitch, BeginRestore,
       FinishRollback, Panic, Refuse
<1>8. ASSUME NEW b \in Block, AddAlternative(b) PROVE main' = main
  BY <1>8, Zenon DEF AddAlternative
<1>9. ASSUME NEW tx \in Tx, TxArrives(tx) \/ TxLeaves(tx) PROVE main' = main
  BY <1>9, Zenon DEF TxArrives, TxLeaves
<1>10. CASE Crash \/ UNCHANGED vars
  BY <1>10 DEF Crash, vars
<1> QED BY <1>3, <1>4, <1>5, <1>6, <1>7, <1>8, <1>9, <1>10, Zenon DEF Next, SwitchStep

\* pop_block_from_blockchain is never called on a checkpoint: is_alternative_block_allowed
\* refuses every branch that would leave one behind.
THEOREM CheckpointsStay == Spec => CheckpointStays
<1>1. IInv /\ [Next]_vars => [\A c \in Checkpoints : c \in Range(main) => c \in Range(main')]_vars
  BY CheckpointsKept
<1> QED BY <1>1, Inductive, PTL DEF Spec, CheckpointStays

----------------------------------------------------------------------------
(***************************************************************************)
(* The best chain.                                                         *)
(***************************************************************************)
\* Alternative blocks know no checkpoint that the chain has not reached, except
\* the one that is being switched to.
NoneAhead ==
  /\ \A b \in alt : \A c \in Checkpoints \cap Range(Path[b]) :
       c \in Range(main) \/ (step # "idle" /\ b = Target /\ c = Target)
  /\ step # "idle" /\ Target \in Checkpoints =>
       \A b \in alt \ {Target} : Target \notin Range(Path[b])

\* The tip of the chain as seen from between the operations
Tip == IF step = "idle" THEN Tail_id ELSE before[Len(before)]

\* Only the block that is being switched to is better than the chain.
Best ==
  ~panicked =>
    \A b \in alt :
      \/ Work[b] <= Work[Tip]
      \/ BelowCheckpoint(b)
      \/ step # "idle" /\ b = Target

\* Work grows along a path: induction over its length.
LEMMA WorkAlong ==
  ASSUME NEW b \in Block, NEW x \in Range(Path[b])
  PROVE  Work[x] <= Work[b]
<1> DEFINE Good(d) == \A y \in Range(Path[d]) : Work[y] <= Work[d]
           S == {k \in Nat : \A d \in Block : Len(Path[d]) = k => Good(d)}
<1> HIDE DEF Good, S
<1>1. 0 \in S
  BY PathEnds DEF S
<1>2. ASSUME NEW k \in S PROVE k + 1 \in S
  <2>1. k \in Nat /\ \A d \in Block : Len(Path[d]) = k => Good(d)
    BY DEF S
  <2>2. ASSUME NEW d \in Block, Len(Path[d]) = k + 1, d = Genesis PROVE Good(d)
    <3>1. Path[d] \in Seq(Block) /\ Len(Path[d]) = 1 /\ Path[d][1] = d /\ Work[d] \in Nat
      BY <2>2, PathEnds, BlockAssumption
    <3>2. \A y \in Range(Path[d]) : y = d
      BY <3>1 DEF Range
    <3> QED BY <3>1, <3>2 DEF Good
  <2>3. ASSUME NEW d \in Block, Len(Path[d]) = k + 1, d # Genesis PROVE Good(d)
    <3>1. PICK e \in Block : /\ Path[d] = Append(Path[e], d) /\ Len(Path[e]) = k
                             /\ Path[e] \in Seq(Block) /\ Work[d] > Work[e]
      <4>1. Len(Path[d]) = Len(Path[Parent(d)]) + 1 /\ Len(Path[Parent(d)]) \in Nat \ {0}
        BY <2>3, PathEnds
      <4> QED BY <4>1, <2>1, <2>3, PathEnds
    <3>2. Good(e)
      BY <2>1, <3>1
    <3>3. Range(Path[d]) = Range(Path[e]) \cup {d}
      BY <3>1, RangeOfAppend
    <3>4. ASSUME NEW y \in Range(Path[d]) PROVE Work[y] <= Work[d]
      <4>1. Work[y] \in Nat /\ Work[d] \in Nat /\ Work[e] \in Nat
        BY OnPath, BlockAssumption
      <4>2. y = d \/ Work[y] <= Work[e]
        BY <3>2, <3>3 DEF Good
      <4> QED BY <3>1, <4>1, <4>2
    <3> QED BY <3>4 DEF Good
  <2> QED BY <2>1, <2>2, <2>3 DEF S
<1>3. S = Nat
  <2>1. S \in SUBSET Nat
    BY DEF S
  <2> QED BY <1>1, <1>2, <2>1, SetInduction
<1>4. Len(Path[b]) \in Nat
  BY PathEnds
<1> QED BY <1>3, <1>4 DEF S, Good

\* A step within a switch changes neither side of the comparison.
LEMMA BestWithin ==
  ASSUME IInv, [Next]_vars, NoneAhead, Best, step # "idle", step' # "idle",
         UNCHANGED <<alt, branch, before, panicked>>
  PROVE  NoneAhead' /\ Best'
<1>1. Checkpoints \cap Range(main) \subseteq Range(main')
  BY CheckpointsKept
<1>2. Target' = Target /\ Tip' = Tip
  BY DEF Target, Tip
<1>3. NoneAhead'
  BY <1>1, <1>2 DEF NoneAhead
<1>4. Best'
  BY <1>1, <1>2 DEF Best, BelowCheckpoint
<1> QED BY <1>3, <1>4

LEMMA BestAddToMain ==
  ASSUME IInv, NoneAhead, Best, NEW b \in Block \ {Genesis}, AddToMain(b)
  PROVE  NoneAhead' /\ Best'
<1>1. /\ step = "idle" /\ step' = "idle" /\ Parent(b) = Tail_id /\ alt' = alt
      /\ panicked' = panicked /\ alt \subseteq Block /\ main \in Seq(Block) /\ Tail_id \in Block
  BY DEF AddToMain, IInv, Types, TypeOK, Tail_id
<1>2. /\ Range(main) \subseteq Range(main')
      /\ Tail_id' = b \/ Tail_id' = Tail_id
  <2>1. CASE Accepted(b)
    <3>1. main' = Append(main, b) /\ Tail_id' = b
      BY <2>1, AcceptStep DEF AddToMain, IInv
    <3> QED BY <1>1, <3>1, RangeOfAppend
  <2>2. CASE ~Accepted(b)
    BY <2>2 DEF AddToMain, Refuse, Tail_id
  <2> QED BY <2>1, <2>2
<1>3. \A x \in alt : Work[x] <= Work[Tail_id] => Work[x] <= Work[Tail_id']
  <2>1. Work[b] > Work[Tail_id] /\ Work \in [Block -> Nat]
    BY <1>1, PathEnds, BlockAssumption
  <2> QED BY <1>1, <1>2, <2>1
<1>4. NoneAhead'
  BY <1>1, <1>2 DEF NoneAhead
<1>5. Best'
  BY <1>1, <1>2, <1>3, Zenon DEF Best, BelowCheckpoint, Tip
<1> QED BY <1>4, <1>5

LEMMA BestAddAlternative ==
  ASSUME IInv, NoneAhead, Best, NEW b \in Block \ {Genesis}, AddAlternative(b)
  PROVE  NoneAhead' /\ Best'
<1>1. /\ step = "idle" /\ b \notin Range(main) /\ alt' = alt \cup {b}
      /\ AlternativeAccepted(b) /\ Parent(b) \in alt \cup Range(main)
      /\ UNCHANGED <<main, panicked>>
  BY Zenon DEF AddAlternative, HaveBlock, AlternativeAccepted
<1>2. /\ main \in Seq(Block) /\ main = Path[Tail_id] /\ Tail_id \in Block
      /\ Range(main) \cap alt = {} /\ Tail_id' = Tail_id
  BY <1>1 DEF IInv, Types, TypeOK, Chain, Tail_id, Roles
<1>3. \/ Reorganizes(b) /\ step' = "pop" /\ branch' = AltChain(b) /\ before' = main
      \/ ~Reorganizes(b) /\ step' = "idle"
  BY <1>1 DEF AddAlternative
<1>4. AltChain(b)[Len(AltChain(b))] = b
  <2>1. PICK k \in 1..Len(main) :
          k < Len(Path[b]) /\ AltChain(b) = SubSeq(Path[b], k + 1, Len(Path[b]))
    BY <1>1, <1>2, AltChainLeaves DEF IInv
  <2>2. /\ Path[b] \in Seq(Block) /\ Len(Path[b]) \in Nat /\ Path[b][Len(Path[b])] = b
        /\ k \in Nat
    BY <1>2, PathEnds
  <2>3. /\ Len(AltChain(b)) = Len(Path[b]) - k
        /\ AltChain(b)[Len(Path[b]) - k] = Path[b][Len(Path[b]) - k + (k + 1) - 1]
    BY <2>1, <2>2
  <2>4. Len(Path[b]) - k + (k + 1) - 1 = Len(Path[b])
    BY <2>2
  <2> QED BY <2>2, <2>3, <2>4, Zenon
<1>5. step' = "pop" => Target' = b
  BY <1>3, <1>4 DEF Target
<1>6. \A x \in alt : \A c \in Checkpoints \cap Range(Path[x]) : c \in Range(main)
  BY <1>1 DEF NoneAhead
<1>7. ASSUME NEW c \in Checkpoints \cap Range(Path[b]) PROVE c \in Range(main) \/ c = b
  <2>1. Range(Path[b]) = Range(Path[Parent(b)]) \cup {b}
    <3>1. /\ Parent(b) \in Block /\ b \in Block /\ Path[b] = Append(Path[Parent(b)], b)
          /\ Path[Parent(b)] \in Seq(Block)
      BY PathEnds, Zenon
    <3> QED BY <3>1, RangeOfAppend
  <2>2. CASE c \in Range(Path[Parent(b)]) /\ Parent(b) \in Range(main)
    <3>1. /\ Path[Parent(b)] = SubSeq(main, 1, Len(Path[Parent(b)]))
          /\ Len(Path[Parent(b)]) \in 1..Len(main)
      BY <1>2, <2>2, OnPath
    <3>2. Len(Path[Parent(b)]) \in 0..Len(main)
      BY <3>1
    <3>3. Range(Path[Parent(b)]) \subseteq Range(main)
      BY <1>2, <3>1, <3>2, RangeOfPrefix, Zenon
    <3> QED BY <2>2, <3>3
  <2> QED BY <1>1, <1>6, <2>1, <2>2
<1>8. NoneAhead'
  <2>1. ASSUME NEW x \in alt', NEW c \in Checkpoints \cap Range(Path[x])
        PROVE  c \in Range(main') \/ (step' # "idle" /\ x = Target' /\ c = Target')
    BY <1>1, <1>3, <1>5, <1>6, <1>7, Zenon DEF Reorganizes
  <2>2. ASSUME step' # "idle", Target' \in Checkpoints, NEW x \in alt' \ {Target'}
        PROVE  Target' \notin Range(Path[x])
    BY <1>1, <1>3, <1>5, <1>6, <2>2, Zenon
  <2> QED BY <2>1, <2>2, Zenon DEF NoneAhead
<1>9. Best'
  <2>1. Tip' = Tip
    BY <1>1, <1>2, <1>3 DEF Tip, Tail_id
  <2>2. Work[b] <= Work[Tip] \/ (step' # "idle" /\ b = Target')
    <3>1. Work[b] \in Nat /\ Work[Tail_id] \in Nat /\ Tip = Tail_id
      BY <1>1, <1>2, BlockAssumption DEF Tip
    <3> QED BY <1>3, <1>5, <3>1 DEF Reorganizes
  <2> QED BY <1>1, <2>1, <2>2, Zenon DEF Best, BelowCheckpoint
<1> QED BY <1>8, <1>9

LEMMA BestPushOld ==
  ASSUME IInv, NoneAhead, Best, PushOld
  PROVE  NoneAhead' /\ Best'
<1> DEFINE b == old[n]
           tail == before[Len(before)]
<1> USE DEF IInv
<1>1. /\ step = "push" /\ n <= Len(old) /\ alt' \subseteq alt \cup {b}
      /\ UNCHANGED <<main, step, branch, before, panicked>>
  BY DEF PushOld
<1>2. Target' = Target /\ Tip' = Tip /\ Tip = tail
  BY <1>1 DEF Target, Tip
<1>3. /\ before \in Seq(Block) /\ Len(before) \in Nat /\ tail \in Block /\ before = Path[tail]
      /\ Common \in Nat /\ Common <= Len(before) /\ Target \in Range(branch)
      /\ Range(branch) \cap Range(before) = {} /\ main = Path[Target]
      /\ Range(main) = Range(SubSeq(before, 1, Common)) \cup Range(branch)
  BY <1>1, ForkFacts, TargetChain, Zenon DEF Types, Fork, Progress
<1>4. /\ n \in Nat /\ Len(old) = Len(before) - Common /\ n > 0
      /\ Path[b] = SubSeq(before, 1, Common + n) /\ b \in Range(before)
  <2>1. n \in Nat /\ n > 0 /\ Len(old) \in Nat /\ Len(old) = Len(before) - Common
    BY <1>1, OldFacts DEF Types, TypeOK, Progress
  <2>2. n \in 1..Len(old)
    BY <1>1, <2>1
  <2> QED BY <1>1, <2>1, <2>2, OldFacts, Zenon DEF Types
<1>5. PICK k \in 0..Len(before) : k = Common + n
  BY <1>1, <1>3, <1>4
<1> HIDE DEF b, tail
<1>6. Range(Path[b]) \subseteq Range(before)
  BY <1>3, <1>4, <1>5, RangeOfPrefix
<1>7. Work[b] <= Work[tail]
  BY <1>3, <1>4, WorkAlong
<1>8. ASSUME NEW c \in Checkpoints \cap Range(Path[b]) PROVE c \in Range(main)
  <2>1. PICK i \in 1..Len(before) : c = before[i]
    <3>1. c \in Range(before) /\ DOMAIN before = 1..Len(before)
      BY <1>3, <1>6
    <3> QED BY <3>1 DEF Range
  <2>2. ~(i \in (Common + 1)..Len(before))
    BY <1>1, <2>1 DEF Checked
  <2>3. i \in 1..Common
    BY <1>3, <2>2
  <2>4. c \in Range(SubSeq(before, 1, Common))
    <3>1. /\ DOMAIN SubSeq(before, 1, Common) = 1..Common
          /\ SubSeq(before, 1, Common)[i] = before[i]
      BY <1>3, <2>3
    <3> QED BY <2>1, <2>3, <3>1, Zenon DEF Range
  <2> QED BY <1>3, <2>4
<1>9. NoneAhead'
  BY <1>1, <1>2, <1>3, <1>6, <1>8 DEF NoneAhead
<1>10. Best'
  BY <1>1, <1>2, <1>7 DEF Best, BelowCheckpoint
<1> QED BY <1>9, <1>10

LEMMA BestFinishSwitch ==
  ASSUME IInv, NoneAhead, Best, FinishSwitch
  PROVE  NoneAhead' /\ Best'
<1>1. /\ step = "push" /\ step' = "idle" /\ alt' = alt \ Range(branch)
      /\ UNCHANGED <<main, panicked>>
  BY Zenon DEF FinishSwitch
<1>2. main = Path[Target] /\ Target \in Range(branch) /\ Target \in Block
  BY <1>1, FinishSwitchInv, ForkFacts DEF IInv, Types
<1>3. Tip' = Target /\ Target \in Range(main)
  BY <1>1, <1>2, PathEnds DEF Tip, Tail_id, Range
<1>4. NoneAhead'
  BY <1>1, <1>2 DEF NoneAhead
<1>5. ASSUME ~panicked, NEW b \in alt' PROVE Work[b] <= Work[Target] \/ BelowCheckpoint(b)
  <2>1. b \in alt \ {Target} /\ (Work[b] <= Work[Tip] \/ BelowCheckpoint(b))
    BY <1>1, <1>2, <1>5 DEF Best
  <2>2. CASE Target \in Checkpoints
    BY <1>1, <1>3, <2>1, <2>2 DEF NoneAhead, BelowCheckpoint
  <2>3. CASE Target \notin Checkpoints
    <3>1. Work[Target] > Work[Tip]
      BY <1>1, <2>3, Zenon DEF IInv, Fork, Tip
    <3>2. Work[b] \in Nat /\ Work[Target] \in Nat /\ Work[Tip] \in Nat
      <4>1. Tip \in Block
        BY <1>1, ForkFacts, Zenon DEF IInv, Types, Tip
      <4>2. b \in Block
        BY <2>1 DEF IInv, Types, TypeOK
      <4> QED BY <1>2, <4>1, <4>2, BlockAssumption, Zenon
    <3> QED BY <2>1, <3>1, <3>2
  <2> QED BY <2>2, <2>3
<1>6. Best'
  BY <1>1, <1>3, <1>5 DEF Best, BelowCheckpoint
<1> QED BY <1>4, <1>6

LEMMA BestRollback ==
  ASSUME IInv, NoneAhead, Best, FinishRollback \/ Panic
  PROVE  NoneAhead' /\ Best'
<1>1. /\ step = "restore" /\ step' = "idle" /\ alt' = alt \ Failed /\ main' = main
  BY DEF FinishRollback, Panic, Refuse
<1>2. Target \in Failed
  BY <1>1, RestoreFacts, FailedFacts
<1>3. panicked' \/ (Tip' = Tip /\ panicked' = panicked)
  <2>1. CASE Panic
    BY <2>1 DEF Panic
  <2>2. CASE FinishRollback
    <3>1. main = before
      BY <2>2, FinishRollbackInv
    <3> QED BY <1>1, <2>2, <3>1 DEF FinishRollback, Tip, Tail_id
  <2> QED BY <2>1, <2>2
<1>4. NoneAhead'
  BY <1>1, <1>2 DEF NoneAhead
<1>5. Best'
  BY <1>1, <1>2, <1>3 DEF Best, BelowCheckpoint
<1> QED BY <1>4, <1>5

\* Between operations no alternative block that may still be switched to has more
\* work than the main chain: handle_alternative_block switches at once, and a switch
\* that fails forgets its branch.
THEOREM AlwaysBest == Spec => []BestChain
<1>1. Init => NoneAhead /\ Best
  BY DEF Init, NoneAhead, Best
<1>2. IInv /\ [Next]_vars /\ NoneAhead /\ Best => NoneAhead' /\ Best'
  <2> SUFFICES ASSUME IInv, [Next]_vars, NoneAhead, Best PROVE NoneAhead' /\ Best'
    OBVIOUS
  <2>1. ASSUME NEW b \in Block \ {Genesis}, AddToMain(b) \/ AddAlternative(b)
        PROVE  NoneAhead' /\ Best'
    BY <2>1, BestAddToMain, BestAddAlternative
  <2>2. CASE PopToSplit \/ BeginConnect \/ Connect \/ BeginPushOld \/ Unwind \/ BeginRestore \/ Restore
    <3>1. step # "idle" /\ step' # "idle" /\ UNCHANGED <<alt, branch, before, panicked>>
      BY <2>2 DEF PopToSplit, BeginConnect, Connect, BeginPushOld, Unwind, BeginRestore, Restore,
           switchVars
    <3> QED BY <3>1, BestWithin, Zenon
  <2>3. CASE PushOld \/ FinishSwitch \/ FinishRollback \/ Panic
    BY <2>3, BestPushOld, BestFinishSwitch, BestRollback
  <2>4. CASE Crash
    BY <2>4, Zenon DEF Crash, NoneAhead, Best
  <2>5. ASSUME UNCHANGED <<main, alt, step, branch, before, panicked>>
        PROVE  NoneAhead' /\ Best'
    <3>1. Target' = Target /\ Tip' = Tip
      BY <2>5, Zenon DEF Target, Tip, Tail_id
    <3> QED BY <2>5, <3>1 DEF NoneAhead, Best, BelowCheckpoint
  <2>6. ASSUME NEW tx \in Tx, TxArrives(tx) \/ TxLeaves(tx) PROVE NoneAhead' /\ Best'
    BY <2>5, <2>6 DEF TxArrives, TxLeaves, switchVars
  <2>7. CASE UNCHANGED vars
    BY <2>5, <2>7 DEF vars, switchVars
  <2> QED BY <2>1, <2>2, <2>3, <2>4, <2>6, <2>7 DEF Next, SwitchStep
<1>3. Best => BestChain
  BY DEF Best, BestChain, Tip
<1> QED BY <1>1, <1>2, <1>3, Inductive, PTL DEF Spec

----------------------------------------------------------------------------
(***************************************************************************)
(* The steps of Ledger.                                                    *)
(***************************************************************************)
ledgerVars == <<IF step = "idle" THEN main ELSE before, crashes>>

\* What the two chains of a switch have in common is in the database throughout.
LEMMA CommonKept ==
  ASSUME IInv, step # "idle"
  PROVE  Range(SubSeq(before, 1, Common)) \subseteq Range(main)
<1> USE DEF IInv
<1>1. /\ before \in Seq(Block) /\ Len(before) \in Nat /\ Common \in Nat \ {0}
      /\ Common <= Len(before) /\ branch \in Seq(Block) /\ Len(branch) \in Nat
      /\ Path[Target] \in Seq(Block) /\ Len(Path[Target]) = Common + Len(branch)
      /\ SubSeq(Path[Target], 1, Common) = SubSeq(before, 1, Common)
  BY ForkFacts DEF Types
<1>2. main \in Seq(Block) /\ Len(main) \in Nat /\ old \in Seq(Block)
  BY DEF Types, TypeOK
<1>3. \A i \in 1..Common : before[i] = Path[Target][i]
  <2>1. ASSUME NEW i \in 1..Common PROVE before[i] = Path[Target][i]
    <3>1. SubSeq(before, 1, Common)[i] = before[i]
      BY <1>1
    <3>2. SubSeq(Path[Target], 1, Common)[i] = Path[Target][i]
      BY <1>1
    <3> QED BY <1>1, <3>1, <3>2
  <2> QED BY <2>1
<1>4. ASSUME NEW k \in Common..Len(Path[Target]), main = SubSeq(Path[Target], 1, k)
      PROVE  Common <= Len(main) /\ \A i \in 1..Common : main[i] = before[i]
  <2>1. Len(main) = k /\ \A i \in 1..k : main[i] = Path[Target][i]
    BY <1>1, <1>4
  <2> QED BY <1>1, <1>3, <2>1
<1>5. ASSUME NEW k \in Common..Len(before), main = SubSeq(before, 1, k)
      PROVE  Common <= Len(main) /\ \A i \in 1..Common : main[i] = before[i]
  <2>1. Len(main) = k /\ \A i \in 1..k : main[i] = before[i]
    BY <1>1, <1>5
  <2> QED BY <1>1, <2>1
<1>6. Common <= Len(main) /\ \A i \in 1..Common : main[i] = before[i]
  <2>1. CASE step = "pop"
    <3>1. before = main \o old /\ Common <= Len(main)
      BY <1>1, <1>2, <2>1, Zenon DEF Progress
    <3>2. \A i \in 1..Len(main) : before[i] = main[i]
      BY <1>2, <3>1
    <3> QED BY <1>1, <1>2, <3>1, <3>2
  <2>2. CASE step = "connect"
    <3>1. n \in 1..(Len(branch) + 1) /\ main = SubSeq(Path[Target], 1, Common + n - 1)
      BY <2>2 DEF Progress
    <3>2. Common + n - 1 \in Common..Len(Path[Target])
      BY <1>1, <3>1
    <3> QED BY <1>4, <3>1, <3>2, Zenon
  <2>3. CASE step = "push"
    <3>1. main = SubSeq(Path[Target], 1, Len(Path[Target]))
      BY <1>1, <2>3, WholeSeq DEF Progress
    <3>2. Len(Path[Target]) \in Common..Len(Path[Target])
      BY <1>1
    <3> QED BY <1>4, <3>1, <3>2, Zenon
  <2>4. CASE step = "unwind"
    <3>1. /\ fail \in 1..Len(branch) /\ Len(main) \in Common..(Common + fail - 1)
          /\ main = SubSeq(Path[Target], 1, Len(main))
      BY <2>4 DEF Progress
    <3>2. Len(main) \in Common..Len(Path[Target])
      BY <1>1, <3>1
    <3> QED BY <1>4, <3>1, <3>2, Zenon
  <2>5. CASE step = "restore"
    <3>1. /\ n \in 1..(Len(old) + 1) /\ Len(old) = Len(before) - Common
          /\ Len(main) = Common + n - 1 /\ main = SubSeq(before, 1, Len(main))
      BY <2>5, RestoreFacts
    <3>2. Len(main) \in Common..Len(before)
      BY <1>1, <3>1
    <3> QED BY <1>5, <3>1, <3>2
  <2> QED BY <2>1, <2>2, <2>3, <2>4, <2>5 DEF Types, TypeOK
<1>7. /\ DOMAIN SubSeq(before, 1, Common) = 1..Common /\ DOMAIN main = 1..Len(main)
      /\ \A i \in 1..Common : SubSeq(before, 1, Common)[i] = before[i]
  BY <1>1, <1>2
<1>8. \A i \in 1..Common : i \in 1..Len(main)
  BY <1>1, <1>2, <1>6
<1> QED BY <1>6, <1>7, <1>8, Zenon DEF Range

\* A switch leaves behind no checkpoint of the chain it began with.
LEMMA CheckpointsCommon ==
  ASSUME IInv, step # "idle", NEW c \in Checkpoints \cap Range(before)
  PROVE  c \in Range(SubSeq(before, 1, Common))
<1>1. before \in Seq(Block) /\ Len(before) \in Nat /\ Common \in Nat /\ Common <= Len(before)
  BY ForkFacts DEF IInv, Types
<1>2. PICK i \in 1..Len(before) : c = before[i]
  <2>1. DOMAIN before = 1..Len(before)
    BY <1>1
  <2> QED BY <2>1 DEF Range
<1>3. ~(i \in (Common + 1)..Len(before))
  BY <1>2 DEF IInv, Checked
<1>4. i \in 1..Common
  BY <1>1, <1>3
<1>5. /\ DOMAIN SubSeq(before, 1, Common) = 1..Common
      /\ SubSeq(before, 1, Common)[i] = before[i]
  BY <1>1, <1>4
<1> QED BY <1>2, <1>4, <1>5, Zenon DEF Range

LEMMA LedgerAdd ==
  ASSUME IInv, NEW b \in Block \ {Genesis}, AddToMain(b) \/ AddAlternative(b)
  PROVE  [L!Next]_ledgerVars
<1>1. CASE AddToMain(b) /\ Accepted(b)
  <2>1. /\ Accept(b) /\ step = "idle" /\ step' = "idle" /\ crashes' = crashes
    BY <1>1, Zenon DEF AddToMain
  <2>2. main' = Append(main, b) /\ main' = Path[b]
    BY <1>1, <2>1, AcceptStep DEF IInv
  <2>3. L!Extend(b)
    BY <2>1, <2>2, Zenon DEF L!Extend
  <2> QED BY <2>3, Zenon DEF L!Next
<1>2. CASE AddToMain(b) /\ ~Accepted(b)
  BY <1>2, Zenon DEF AddToMain, Refuse, ledgerVars
<1>3. CASE AddAlternative(b)
  BY <1>3, Zenon DEF AddAlternative, ledgerVars, switchVars
<1> QED BY <1>1, <1>2, <1>3

LEMMA LedgerSwitch ==
  ASSUME IInv, FinishSwitch
  PROVE  L!Next
<1>1. step = "push" /\ step' = "idle" /\ main' = main /\ crashes' = crashes
  BY DEF FinishSwitch
<1>2. /\ main = Path[Target] /\ Target \in Block
      /\ Work[Target] > Work[before[Len(before)]] \/ Target \in Checkpoints
  BY <1>1, FinishSwitchInv, ForkFacts, Zenon DEF IInv, Types, Fork
<1>3. \A c \in Checkpoints \cap Range(before) : c \in Range(Path[Target])
  BY <1>1, <1>2, CommonKept, CheckpointsCommon
<1>4. L!KeepsCheckpoints(Target)
  BY <1>1, <1>3, Zenon DEF L!KeepsCheckpoints, L!Range, Range
<1>5. L!Switch(Target)
  BY <1>1, <1>2, <1>4 DEF L!Switch, L!Tip
<1> QED BY <1>2, <1>5 DEF L!Next

LEMMA LedgerCrash ==
  ASSUME IInv, Crash
  PROVE  L!Next
<1>1. step' = "idle" /\ main' = main /\ crashes' = crashes + 1
  BY Zenon DEF Crash
<1>2. main = Path[Tail_id] /\ Tail_id \in Block
  BY DEF IInv, Chain, Types, TypeOK, Tail_id
<1>3. \A c \in Checkpoints \cap Range(IF step = "idle" THEN main ELSE before) :
        c \in Range(Path[Tail_id])
  BY <1>2, CommonKept, CheckpointsCommon
<1>4. L!KeepsCheckpoints(Tail_id)
  BY <1>3, Zenon DEF L!KeepsCheckpoints, L!Range, Range
<1>5. L!Crash(Tail_id)
  BY <1>1, <1>2, <1>4 DEF L!Crash
<1> QED BY <1>2, <1>5 DEF L!Next

\* add_new_block implements Ledger step by step, for every tree and every choice of
\* checkpoints, except where a rollback gives up ("PANIC! failed to add (again) block").
THEOREM StepsOfLedger == Spec => L!Init /\ [][~Panic => [L!Next]_ledgerVars]_vars
<1>1. Init => L!Init
  BY DEF Init, L!Init
<1>2. IInv /\ [Next]_vars => [~Panic => [L!Next]_ledgerVars]_vars
  <2> SUFFICES ASSUME IInv, Next, ~Panic PROVE [L!Next]_ledgerVars
    OBVIOUS
  <2>1. ASSUME NEW b \in Block \ {Genesis}, AddToMain(b) \/ AddAlternative(b)
        PROVE  [L!Next]_ledgerVars
    BY <2>1, LedgerAdd
  <2>2. CASE PopToSplit \/ BeginConnect \/ Connect \/ BeginPushOld \/ PushOld \/ Unwind
             \/ BeginRestore \/ Restore
    BY <2>2, Zenon DEF PopToSplit, BeginConnect, Connect, BeginPushOld, PushOld, Unwind, BeginRestore,
         Restore, switchVars, ledgerVars
  <2>3. CASE FinishSwitch
    BY <2>3, LedgerSwitch
  <2>4. CASE FinishRollback
    <3>1. main = before
      BY <2>4, FinishRollbackInv
    <3> QED BY <2>4, <3>1 DEF FinishRollback, ledgerVars
  <2>5. CASE Crash
    BY <2>5, LedgerCrash, Zenon
  <2>6. ASSUME NEW tx \in Tx, TxArrives(tx) \/ TxLeaves(tx) PROVE [L!Next]_ledgerVars
    BY <2>6, Zenon DEF TxArrives, TxLeaves, switchVars, ledgerVars
  <2> QED BY <2>1, <2>2, <2>3, <2>4, <2>5, <2>6 DEF Next, SwitchStep
<1> QED BY <1>1, <1>2, Inductive, PTL DEF Spec

----------------------------------------------------------------------------
(***************************************************************************)
(* Trees in which a rollback cannot fail.                                  *)
(***************************************************************************)
\* No block holds two transactions that spend one image or register one alias.
NoClash == \A b \in Block : DbProblems(b) = {}

\* The versions of the table grow, and a block is of the version in force at its
\* height.
OwnVersion ==
  /\ \A h \in DOMAIN VersionAt : VersionAt[h] \in Nat
  /\ \A h, k \in DOMAIN VersionAt : h <= k => VersionAt[h] <= VersionAt[k]
  /\ \A b \in Block \ {Genesis} : Version[b] = VersionAt[Height(b)]
  /\ Version[Genesis] \in Nat /\ Version[Genesis] <= VersionAt[1]

\* Every alias of the cache is one of the chain.
CacheWithin == aliasCache \subseteq AliasesIn(Mined(main))

LEMMA CacheStep ==
  ASSUME NoClash, IInv, [Next]_vars, aliasCache \subseteq AliasesIn(Mined(main))
  PROVE  aliasCache' \subseteq AliasesIn(Mined(main'))
<1>1. main \in Seq(Block) /\ main # <<>>
  BY Zenon DEF IInv, Types, TypeOK
<1>2. ASSUME NEW b \in Block, Accept(b) PROVE aliasCache' \subseteq AliasesIn(Mined(main'))
  <2>1. Mined(main') = Mined(main) \cup TxSet(b) /\ aliasCache' = aliasCache \cup AliasesIn(TxSet(b))
    BY <1>1, <1>2, MinedAppend DEF Accept
  <2> QED BY <2>1, Zenon DEF AliasesIn
<1>3. ASSUME NEW b \in Block, Refuse(b) PROVE aliasCache' = aliasCache /\ main' = main
  <2>1. DbProblems(b) = {}
    BY DEF NoClash
  <2>2. LeftInCache(b) = {}
    BY <2>1, Zenon DEF LeftInCache, FirstIndex
  <2> QED BY <1>3, <2>2 DEF Refuse
<1>4. ASSUME PopBlockFromBlockchain PROVE aliasCache' \subseteq AliasesIn(Mined(main'))
  <2>1. /\ Mined(main) = Mined(main') \cup TxSet(Tail_id)
        /\ aliasCache' = aliasCache \ AliasesIn(TxSet(Tail_id))
    BY <1>1, <1>4, MinedSplit, Zenon DEF PopBlockFromBlockchain, Tail_id
  <2> QED BY <2>1, Zenon DEF AliasesIn
<1>5. ASSUME NEW b \in Block \ {Genesis}, AddToMain(b)
      PROVE  aliasCache' \subseteq AliasesIn(Mined(main'))
  BY <1>2, <1>3, <1>5 DEF AddToMain
<1>6. CASE PopToSplit \/ Unwind
  BY <1>4, <1>6, Zenon DEF PopToSplit, Unwind
<1>7. CASE Connect
  <2>1. branch[n] \in Block
    BY <1>7, NextOfBranch, Zenon
  <2> QED BY <1>2, <1>3, <1>7, <2>1 DEF Connect
<1>8. CASE Restore \/ Panic
  <2>1. old[n] \in Block
    BY <1>8, NextOfOld, Zenon DEF Restore, Panic
  <2> QED BY <1>2, <1>3, <1>8, <2>1 DEF Restore, Panic
<1>9. CASE BeginConnect \/ BeginPushOld \/ PushOld \/ FinishSwitch \/ BeginRestore \/ FinishRollback
  BY <1>9, Zenon DEF BeginConnect, BeginPushOld, PushOld, FinishSwitch, BeginRestore, FinishRollback
<1>10. ASSUME NEW b \in Block, AddAlternative(b) PROVE UNCHANGED <<main, aliasCache>>
  BY <1>10, Zenon DEF AddAlternative
<1>11. ASSUME NEW tx \in Tx, TxArrives(tx) \/ TxLeaves(tx) PROVE UNCHANGED <<main, aliasCache>>
  BY <1>11, Zenon DEF TxArrives, TxLeaves
<1>12. CASE Crash \/ UNCHANGED vars
  BY <1>12 DEF Crash, vars
<1> QED BY <1>5, <1>6, <1>7, <1>8, <1>9, <1>10, <1>11, <1>12 DEF Next, SwitchStep

\* The in-memory aliases are those of the chain at every step of a switch, if no
\* block of the tree makes add_transaction throw after an alias is in the cache.
THEOREM CacheExact ==
  ASSUME NoClash
  PROVE  Spec => []AliasCacheExact
<1>1. Init => CacheWithin
  BY DEF Init, CacheWithin
<1>2. IInv /\ [Next]_vars /\ CacheWithin => CacheWithin'
  BY CacheStep DEF CacheWithin
<1>3. IInv /\ CacheWithin => AliasCacheExact
  BY Zenon DEF IInv, Chain, AliasCacheExact, CacheWithin
<1> QED BY <1>1, <1>2, <1>3, Inductive, PTL DEF Spec

\* The blocks of the chain are of the versions of their heights.
LEMMA HeightVersions ==
  ASSUME OwnVersion, Types, Chain, NEW h \in 1..Len(main)
  PROVE  /\ h \in DOMAIN VersionAt /\ VersionAt[h] \in Nat
         /\ Version[main[h]] \in Nat /\ Version[main[h]] <= VersionAt[h]
         /\ h > 1 => /\ Version[main[h]] = VersionAt[h - 1]
                     /\ h - 1 \in DOMAIN VersionAt
                     /\ VersionAt[h - 1] \in Nat /\ VersionAt[h - 1] <= VersionAt[h]
<1>1. Tail_id \in Block /\ main = Path[Tail_id] /\ Len(main) \in Nat
  BY MainFacts, Zenon
<1>2. ASSUME NEW k \in 1..Len(main)
      PROVE  /\ main[k] \in Block /\ Len(Path[main[k]]) = k /\ main[1] = Genesis
             /\ k > 1 => main[k] # Genesis
  BY <1>1, PrefixIsPath, Zenon
<1>3. ASSUME NEW k \in 1..Len(main) PROVE k \in DOMAIN VersionAt
  <2>1. main[k] \in Block /\ Len(Path[main[k]]) = k
    BY <1>2
  <2> QED BY <2>1, BlockAssumption, Zenon
<1>4. VersionAt[h] \in Nat
  BY <1>3, Zenon DEF OwnVersion
<1>5. CASE h = 1
  <2>1. main[h] = Genesis /\ h \in DOMAIN VersionAt
    BY <1>2, <1>3, <1>5, Zenon
  <2> QED BY <1>4, <1>5, <2>1 DEF OwnVersion
<1>6. CASE h > 1
  <2>1. h - 1 \in 1..Len(main) /\ h - 1 <= h
    BY <1>1, <1>6
  <2>2. Height(main[h]) = h - 1 /\ main[h] \in Block \ {Genesis}
    <3>1. main[h] \in Block /\ Len(Path[main[h]]) = h /\ main[h] # Genesis
      BY <1>2, <1>6, Zenon
    <3> QED BY <3>1 DEF Height
  <2>3. Version[main[h]] = VersionAt[h - 1]
    BY <2>2 DEF OwnVersion
  <2>4. h - 1 \in DOMAIN VersionAt /\ h \in DOMAIN VersionAt
    BY <1>3, <2>1, Zenon
  <2>5. VersionAt[h - 1] \in Nat /\ VersionAt[h - 1] <= VersionAt[h]
    BY <2>1, <2>4, Zenon DEF OwnVersion
  <2> QED BY <1>4, <2>3, <2>4, <2>5
<1> QED BY <1>5, <1>6

\* The rescan finds the version in force at the height of the chain.
LEMMA ReorganizedExact ==
  ASSUME OwnVersion, Types, Chain, NEW lo \in 1..Len(main)
  PROVE  Reorganized(main, lo) = VersionAt[Len(main)]
<1>1. PICK f :
        /\ f[lo] = Raised(IF hf > Version[main[lo]] THEN Version[main[lo]] ELSE hf, lo)
        /\ \A h \in (lo + 1)..Len(main) :
             f[h] = IF Version[main[h]] = f[h - 1] THEN Raised(f[h - 1], h) ELSE f[h - 1]
        /\ Reorganized(main, lo) = f[Len(main)]
  BY ReorganizedScan, Zenon
<1>2. Len(main) \in Nat /\ lo \in Nat /\ lo <= Len(main)
  <2>1. Len(main) \in Nat
    BY MainFacts, Zenon
  <2> QED BY <2>1
<1>3. f[lo] = VersionAt[lo]
  <2>1. /\ VersionAt[lo] \in Nat /\ Version[main[lo]] \in Nat
        /\ Version[main[lo]] <= VersionAt[lo]
    BY HeightVersions, Zenon
  <2>2. hf \in Nat
    BY Zenon DEF Types, TypeOK, OwnVersion
  <2> QED BY <1>1, <2>1, <2>2 DEF Raised
<1>4. ASSUME NEW h \in (lo + 1)..Len(main), f[h - 1] = VersionAt[h - 1]
      PROVE  f[h] = VersionAt[h]
  <2>1. h \in 1..Len(main) /\ h > 1
    BY <1>2
  <2>2. /\ Version[main[h]] = VersionAt[h - 1] /\ VersionAt[h - 1] \in Nat
        /\ VersionAt[h] \in Nat /\ VersionAt[h - 1] <= VersionAt[h]
    BY <2>1, HeightVersions, Zenon
  <2>3. f[h] = Raised(VersionAt[h - 1], h)
    BY <1>1, <1>4, <2>2, Zenon
  <2> QED BY <2>2, <2>3 DEF Raised
<1>5. \A h \in lo..Len(main) : f[h] = VersionAt[h]
  <2> DEFINE S == {h \in lo..Len(main) : f[h] = VersionAt[h]}
  <2>1. lo \in S
    BY <1>2, <1>3
  <2>2. ASSUME NEW h \in lo..(Len(main) - 1), h \in S PROVE h + 1 \in S
    <3>1. h + 1 \in (lo + 1)..Len(main) /\ h + 1 \in lo..Len(main) /\ (h + 1) - 1 = h
      BY <1>2
    <3> QED BY <1>4, <2>2, <3>1
  <2> HIDE DEF S
  <2>3. \A h \in lo..Len(main) : h \in S
    BY <1>2, <2>1, <2>2, IntervalInduction, Zenon
  <2> QED BY <2>3, Zenon DEF S
<1> QED BY <1>1, <1>2, <1>5

\* The version in force is that of the height, except while blocks are popped and
\* connected: pop_block_from_blockchain does not lower it.
Current == step \in {"idle", "restore"} => hf = VersionAt[Len(main)]

LEMMA CurrentAccept ==
  ASSUME OwnVersion, Types, Chain, NEW b \in Block \ {Genesis}, Accepted(b), Accept(b),
         hf = VersionAt[Len(main)]
  PROVE  hf' = VersionAt[Len(main')]
<1>1. /\ Len(main') = Len(main) + 1 /\ Len(main) \in Nat \ {0} /\ Types /\ main' = Path[b]
  <2>1. main \in Seq(Block) /\ main # <<>>
    BY Zenon DEF Types, TypeOK
  <2>2. Len(main) \in Nat \ {0}
    BY <2>1
  <2> QED BY <2>2, AcceptStep, Zenon
<1>2. Len(main) + 1 \in DOMAIN VersionAt /\ Len(main) \in DOMAIN VersionAt
  <2>1. Len(main) \in 1..Len(main)
    BY <1>1
  <2> QED BY <1>1, <2>1, HeightVersions, BlockAssumption, Zenon
<1>3. /\ VersionAt[Len(main) + 1] \in Nat /\ VersionAt[Len(main)] \in Nat
      /\ VersionAt[Len(main)] <= VersionAt[Len(main) + 1]
  BY <1>1, <1>2 DEF OwnVersion
<1> QED BY <1>1, <1>3 DEF Accept, Raised

LEMMA CurrentStep ==
  ASSUME OwnVersion, IInv, [Next]_vars, Current
  PROVE  Current'
<1> USE DEF IInv
<1>1. Len(main) \in Nat \ {0} /\ main \in Seq(Block)
  BY MainFacts, Zenon
<1>2. ASSUME NEW b \in Block \ {Genesis}, AddToMain(b) PROVE Current'
  <2>1. CASE Accepted(b)
    BY <1>2, <2>1, CurrentAccept, Zenon DEF AddToMain, Current
  <2>2. CASE ~Accepted(b)
    BY <1>2, <2>2, Zenon DEF AddToMain, Refuse, Current
  <2> QED BY <2>1, <2>2, Zenon
<1>3. ASSUME NEW b \in Block \ {Genesis}, AddAlternative(b) PROVE Current'
  BY <1>3, Zenon DEF AddAlternative, Current
<1>4. CASE PopToSplit \/ BeginConnect \/ Connect \/ BeginPushOld \/ PushOld \/ Unwind
  BY <1>4 DEF PopToSplit, BeginConnect, Connect, BeginPushOld, PushOld, Unwind, Current
<1>5. CASE FinishSwitch \/ FinishRollback \/ BeginRestore
  <2>1. hf' = Reorganized(main, split) /\ main' = main
    BY <1>5 DEF FinishSwitch, FinishRollback, BeginRestore
  <2>2. split \in 1..Len(main)
    BY <1>5, SplitFacts, Zenon
  <2>3. hf' = VersionAt[Len(main)]
    BY <2>1, <2>2, ReorganizedExact, Zenon
  <2> QED BY <2>1, <2>3, Zenon DEF Current
<1>6. CASE Restore
  <2>1. old[n] \in Block \ {Genesis}
    BY <1>6, NextOfOld, Zenon DEF Restore
  <2> QED BY <1>6, <2>1, CurrentAccept, Zenon DEF Restore, Current
<1>7. CASE Panic
  BY <1>7, Zenon DEF Panic, Refuse, Current
<1>8. ASSUME NEW tx \in Tx, TxArrives(tx) \/ TxLeaves(tx) PROVE Current'
  BY <1>8 DEF TxArrives, TxLeaves, Current
<1>9. CASE Crash
  <2>1. Len(main) \in 1..Len(main)
    BY MainFacts, Zenon
  <2>2. /\ VersionAt[Len(main)] \in Nat /\ Version[Tail_id] \in Nat
        /\ Version[Tail_id] <= VersionAt[Len(main)]
    BY <2>1, HeightVersions DEF Tail_id
  <2>3. Raised(Version[Tail_id], Len(main)) = VersionAt[Len(main)]
    BY <2>2 DEF Raised
  <2> QED BY <1>9, <2>3 DEF Crash, Current
<1>10. CASE UNCHANGED vars
  BY <1>10, Zenon DEF vars, Current
<1> QED BY <1>2, <1>3, <1>4, <1>5, <1>6, <1>7, <1>8, <1>9, <1>10 DEF Next, SwitchStep

\* What a block of the chain has passed and will pass again.
Admitted(b) ==
  /\ b \notin BadHeader \cup BadMiner
  /\ \A i \in DOMAIN TxsOf[b] : TxsOf[b][i] \notin TakenBefore(b, i)

\* While a switch runs, the transactions of the chain it began with are at hand.
Restorable ==
  /\ \A b \in Range(main) \ {Genesis} : Admitted(b)
  /\ step # "idle" => /\ \A b \in Range(before) \ {Genesis} : Admitted(b)
                      /\ Sound(before)
                      /\ Mined(before) \subseteq pool \cup Mined(main)

\* A block that comes into the chain was accepted.
LEMMA OnlyAccepted ==
  ASSUME IInv, [Next]_vars, NEW x \in Range(main')
  PROVE  x \in Range(main) \/ Admitted(x)
<1>1. main \in Seq(Block) /\ Len(main) \in Nat
  BY MainFacts, Zenon DEF IInv
<1>2. ASSUME NEW b \in Block, Accepted(b), Accept(b) PROVE x \in Range(main) \/ Admitted(x)
  <2>1. Range(main') = Range(main) \cup {b}
    BY <1>1, <1>2, RangeOfAppend DEF Accept
  <2>2. Admitted(b)
    BY <1>2, Zenon DEF Accepted, Valid, HeaderOk, TxProblems, CannotTake, Admitted
  <2> QED BY <2>1, <2>2, Zenon
<1>3. ASSUME NEW b \in Block \ {Genesis}, AddToMain(b) PROVE x \in Range(main) \/ Admitted(x)
  BY <1>2, <1>3 DEF AddToMain, Refuse
<1>4. CASE PopToSplit \/ Unwind
  <2>1. Len(main) > 1 /\ PopBlockFromBlockchain
    BY <1>4, PoppedBlock, Zenon DEF PopToSplit, Unwind
  <2>2. main' = SubSeq(main, 1, Len(main) - 1) /\ Len(main) - 1 \in 0..Len(main)
    BY <1>1, <2>1 DEF PopBlockFromBlockchain
  <2> QED BY <1>1, <2>2, RangeOfPrefix, Zenon
<1>5. CASE Connect
  <2>1. branch[n] \in Block
    BY <1>5, NextOfBranch, Zenon
  <2> QED BY <1>2, <1>5, <2>1 DEF Connect, Refuse
<1>6. CASE Restore
  <2>1. old[n] \in Block
    BY <1>6, NextOfOld, Zenon DEF Restore
  <2> QED BY <1>2, <1>6, <2>1, Zenon DEF Restore
<1>7. CASE BeginConnect \/ BeginPushOld \/ PushOld \/ FinishSwitch \/ BeginRestore
           \/ FinishRollback \/ Panic
  BY <1>7, Zenon DEF BeginConnect, BeginPushOld, PushOld, FinishSwitch, BeginRestore,
     FinishRollback, Panic, Refuse
<1>8. ASSUME NEW b \in Block, AddAlternative(b) PROVE main' = main
  BY <1>8, Zenon DEF AddAlternative
<1>9. ASSUME NEW tx \in Tx, TxArrives(tx) \/ TxLeaves(tx) PROVE main' = main
  BY <1>9, Zenon DEF TxArrives, TxLeaves
<1>10. CASE Crash \/ UNCHANGED vars
  BY <1>10, Zenon DEF Crash, vars
<1> QED BY <1>3, <1>4, <1>5, <1>6, <1>7, <1>8, <1>9, <1>10 DEF Next, SwitchStep

LEMMA RestorableStep ==
  ASSUME IInv, [Next]_vars, Restorable
  PROVE  Restorable'
<1>1. \A b \in Range(main') \ {Genesis} : Admitted(b)
  BY OnlyAccepted, Zenon DEF Restorable
<1>2. ASSUME step' # "idle", step # "idle"
      PROVE  before' = before /\ pool' \cup Mined(main') = pool \cup Mined(main)
  <2>1. SwitchStep \/ UNCHANGED vars
    BY <1>2, Zenon DEF Next, AddToMain, AddAlternative, TxArrives, TxLeaves, Crash
  <2>2. pool' \cup Mined(main') = pool \cup Mined(main)
    BY <2>1, SwitchStepInv, Zenon DEF vars
  <2>3. before' = before
    BY <1>2, <2>1, Zenon DEF SwitchStep, PopToSplit, BeginConnect, Connect, BeginPushOld, PushOld,
         FinishSwitch, Unwind, BeginRestore, Restore, FinishRollback, Panic, switchVars, vars
  <2> QED BY <2>2, <2>3, Zenon
<1>3. ASSUME step' # "idle", step = "idle"
      PROVE  before' = main /\ main' = main /\ pool' = pool
  <2>1. \E b \in Block \ {Genesis} : AddAlternative(b)
    BY <1>3, Zenon DEF Next, AddToMain, TxArrives, TxLeaves, Crash, vars, SwitchStep, PopToSplit,
         BeginConnect, Connect, BeginPushOld, PushOld, FinishSwitch, Unwind, BeginRestore, Restore,
         FinishRollback, Panic
  <2> QED BY <1>3, <2>1, Zenon DEF AddAlternative, switchVars
<1>4. ASSUME step' # "idle"
      PROVE  /\ \A b \in Range(before') \ {Genesis} : Admitted(b)
             /\ Sound(before')
             /\ Mined(before') \subseteq pool' \cup Mined(main')
  <2>1. CASE step # "idle"
    BY <1>2, <1>4, <2>1, Zenon DEF Restorable
  <2>2. CASE step = "idle"
    BY <1>3, <1>4, <2>2, Zenon DEF Restorable, IInv, Chain
  <2> QED BY <2>1, <2>2, Zenon
<1> QED BY <1>1, <1>4, Zenon DEF Restorable

\* Every block of the old chain is accepted again when its turn comes.
LEMMA RestoreAccepts ==
  ASSUME NoClash, OwnVersion, IInv, Restorable, Current, CacheWithin,
         step = "restore", n <= Len(old)
  PROVE  Accepted(old[n])
<1> DEFINE b == old[n]
           m == Common + n
<1> USE DEF IInv
<1>1. /\ n \in 1..Len(old) /\ Len(old) \in Nat /\ Common \in Nat \ {0}
      /\ Len(old) = Len(before) - Common
      /\ Len(main) = Common + n - 1 /\ main = SubSeq(before, 1, Len(main))
  <2>1. n \in 1..Len(old)
    BY NextOfOld, Zenon
  <2> QED BY <2>1, RestoreFacts, Zenon
<1>2. /\ b = before[m] /\ b \in Block \ {Genesis} /\ Path[b] = SubSeq(before, 1, m)
      /\ Len(Path[b]) = m /\ b \in Range(before)
  BY <1>1, OldFacts DEF Types
<1>3. /\ before \in Seq(Block) /\ Len(before) \in Nat /\ m \in 2..Len(before)
      /\ Len(main) = m - 1 /\ main \in Seq(Block)
  <2>1. before \in Seq(Block) /\ Len(before) \in Nat /\ main \in Seq(Block)
    BY ForkFacts, Zenon DEF Types, TypeOK
  <2> QED BY <1>1, <2>1
<1> HIDE DEF b, m
<1>4. Parent(b) = Tail_id
  <2>1. Parent(b) = SubSeq(before, 1, m)[m - 1]
    BY <1>2, Zenon DEF Parent
  <2>2. SubSeq(before, 1, m)[m - 1] = before[m - 1]
    BY <1>3
  <2>3. SubSeq(before, 1, m - 1)[m - 1] = before[m - 1]
    BY <1>3
  <2>4. Tail_id = SubSeq(before, 1, m - 1)[m - 1]
    BY <1>1, <1>3, Zenon DEF Tail_id
  <2> QED BY <2>1, <2>2, <2>3, <2>4, Zenon
<1>5. hf = Version[b]
  <2>1. Height(b) = m - 1
    BY <1>2, Zenon DEF Height
  <2> QED BY <1>2, <1>3, <2>1 DEF OwnVersion, Current
<1>6. CheckBlock(b) /\ Admitted(b)
  BY <1>2, Zenon DEF Checked, Restorable
<1>7. HeaderOk(b)
  BY <1>4, <1>5, <1>6 DEF HeaderOk, Admitted
<1>8. ASSUME NEW t \in TxSet(b)
      PROVE  /\ t \notin Mined(main)
             /\ t \in pool
             /\ Images[t] \cap ImagesIn(Mined(main)) = {}
             /\ Deps[t] \subseteq Mined(main)
             /\ AliasOf[t] \notin aliasCache
  <2> DEFINE others == Mined(main) \cup (TxSet(b) \ {t})
  <2>1. Mined(SubSeq(before, 1, m - 1)) = Mined(main)
    BY <1>1, <1>3, Zenon
  <2>2. m \in DOMAIN before /\ t \in TxSet(before[m])
    BY <1>2, <1>3
  <2>3. /\ t \notin Mined(main)
        /\ Images[t] \cap ImagesIn(others) = {}
        /\ AliasOf[t] \notin AliasesIn(others)
        /\ Deps[t] \subseteq Mined(main)
    BY <1>2, <2>1, <2>2, Zenon DEF Restorable, Sound
  <2>4. t \in pool
    <3>1. t \in Mined(before)
      BY <2>2, Zenon DEF Mined
    <3> QED BY <2>3, <3>1, Zenon DEF Restorable
  <2>5. Images[t] \cap ImagesIn(Mined(main)) = {}
    <3>1. ImagesIn(Mined(main)) \subseteq ImagesIn(others)
      BY Zenon DEF ImagesIn
    <3> QED BY <2>3, <3>1, Zenon
  <2>6. AliasOf[t] \notin aliasCache
    <3>1. AliasesIn(Mined(main)) \subseteq AliasesIn(others)
      BY Zenon DEF AliasesIn
    <3> QED BY <2>3, <3>1, Zenon DEF CacheWithin
  <2> QED BY <2>3, <2>4, <2>5, <2>6, Zenon
<1>9. TxProblems(b) = {}
  <2>1. ASSUME NEW i \in DOMAIN TxsOf[b] PROVE ~CannotTake(b, i) /\ ~BadOnceTaken(b, i)
    <3>1. TxsOf[b][i] \in TxSet(b)
      BY Zenon DEF TxSet, Range
    <3>2. TxsOf[b][i] \notin TakenBefore(b, i)
      BY <1>6 DEF Admitted
    <3> QED BY <1>8, <3>1, <3>2, Zenon DEF CannotTake, BadOnceTaken
  <2> QED BY <2>1 DEF TxProblems
<1>10. Accepted(b)
  BY <1>2, <1>6, <1>7, <1>9, Zenon DEF Accepted, Valid, NoClash, Admitted
<1> QED BY <1>10, Zenon DEF b

Calm == CacheWithin /\ Restorable /\ Current

LEMMA AlwaysCalm ==
  ASSUME NoClash, OwnVersion
  PROVE  Spec => []Calm
<1>1. Init => Calm
  <2> SUFFICES ASSUME Init PROVE Calm
    OBVIOUS
  <2>1. Len(main) = 1 /\ Range(main) = {Genesis} /\ hf = VersionAt[1]
    BY DEF Init, Range
  <2>2. CacheWithin /\ Restorable
    BY <2>1 DEF Init, CacheWithin, Restorable
  <2> QED BY <2>1, <2>2 DEF Calm, Current
<1>2. IInv /\ [Next]_vars /\ Calm => Calm'
  <2> SUFFICES ASSUME IInv, [Next]_vars, Calm PROVE Calm'
    OBVIOUS
  <2>1. CacheWithin'
    BY CacheStep DEF Calm, CacheWithin
  <2> QED BY <2>1, RestorableStep, CurrentStep DEF Calm
<1> QED BY <1>1, <1>2, Inductive, PTL DEF Spec

\* rollback_blockchain_switching never meets its "PANIC! failed to add (again) block"
\* in a tree whose blocks are of their heights' versions and hold no transactions
\* that clash: whatever was popped is accepted again.
THEOREM RollbackRestores ==
  ASSUME NoClash, OwnVersion
  PROVE  Spec => [][~Panic]_vars
<1>1. IInv /\ Calm /\ [Next]_vars => [~Panic]_vars
  BY RestoreAccepts DEF Calm, Panic
<1> QED BY <1>1, Inductive, AlwaysCalm, PTL DEF Spec

\* In such a tree add_new_block, with its switches, rollbacks and crashes, implements
\* the one-step changes of Ledger.
THEOREM Implements ==
  ASSUME NoClash, OwnVersion
  PROVE  Spec => ImplementsLedger
<1>1. [~Panic]_vars /\ [~Panic => [L!Next]_ledgerVars]_vars => [L!Next]_ledgerVars
  BY DEF vars, switchVars, ledgerVars
<1>2. Spec => L!Init /\ [][L!Next]_ledgerVars
  BY <1>1, StepsOfLedger, RollbackRestores, PTL
<1>3. Spec => L!Spec
  BY <1>2 DEF L!Spec, ledgerVars
<1> QED BY <1>3, Zenon DEF ImplementsLedger
=============================================================================

------------------------------ MODULE SyncProofs ------------------------------
(***************************************************************************)
(* Proofs about the synchronisation protocol, for any number of peers,     *)
(* every tree of blocks and all sizes of requests and answers.             *)
(***************************************************************************)
EXTENDS SyncProtocol, DataLemmas

(***************************************************************************)
(* The block tree.                                                         *)
(***************************************************************************)
LEMMA Tree == IsTree(Block, Genesis, Path)
BY SyncAssumption, Zenon DEF IsTree, ParentIn

LEMMA Works == \A b \in Block : Work[b] \in Nat
<1>1. Work \in [Block -> Nat]
  BY SyncAssumption, Zenon
<1> QED BY <1>1

\* A block's chain holds the block, the genesis block and the chain of its parent.
LEMMA ChainOfBlock ==
  ASSUME NEW b \in Block
  PROVE  /\ Path[b] \in Seq(Block) /\ Len(Path[b]) \in Nat \ {0}
         /\ MainOf[b] \subseteq Block /\ b \in MainOf[b] /\ Genesis \in MainOf[b]
         /\ b # Genesis => /\ Parent(b) \in Block
                           /\ MainOf[b] = MainOf[Parent(b)] \cup {b}
                           /\ Work[b] > Work[Parent(b)]
<1>1. /\ Path[b] \in Seq(Block) /\ Len(Path[b]) \in Nat \ {0} /\ Path[b][Len(Path[b])] = b
  BY Tree, TreeEnds
<1>2. Path[b][1] = Genesis
  BY <1>1, Tree, TreePrefix
<1>3. MainOf[b] \subseteq Block /\ b \in MainOf[b] /\ Genesis \in MainOf[b]
  <2>1. MainOf[b] = Range(Path[b])
    BY DEF MainOf
  <2> QED BY <1>1, <1>2, <2>1 DEF Range
<1>4. ASSUME b # Genesis
      PROVE  Parent(b) \in Block /\ MainOf[b] = MainOf[Parent(b)] \cup {b} /\ Work[b] > Work[Parent(b)]
  <2>1. Parent(b) \in Block /\ Path[b] = Append(Path[Parent(b)], b) /\ Work[b] > Work[Parent(b)]
    BY <1>4, SyncAssumption, Zenon DEF Parent
  <2>2. Path[Parent(b)] \in Seq(Block)
    BY <2>1, Tree, TreeEnds
  <2>3. MainOf[b] = Range(Path[b]) /\ MainOf[Parent(b)] = Range(Path[Parent(b)])
    BY <2>1, Zenon DEF MainOf
  <2> QED BY <2>1, <2>2, <2>3, RangeOfAppend
<1> QED BY <1>1, <1>3, <1>4

\* What is below a block of a chain is in the chain, and has less work.
LEMMA BelowOnChain ==
  ASSUME NEW b \in Block, NEW x \in MainOf[b]
  PROVE  /\ x \in Block /\ MainOf[x] \subseteq MainOf[b] /\ Work[x] <= Work[b]
         /\ x # Genesis => Parent(x) \in MainOf[b]
<1>1. /\ x \in Block /\ Len(Path[x]) \in 1..Len(Path[b]) /\ Path[b][Len(Path[x])] = x
      /\ Path[x] = SubSeq(Path[b], 1, Len(Path[x]))
  <2>1. MainOf[b] = Range(Path[b])
    BY DEF MainOf
  <2> QED BY <2>1, Tree, TreeOnPath
<1> USE <1>1
<1>2. /\ Path[b] \in Seq(Block) /\ Len(Path[b]) \in Nat \ {0} /\ Path[b][Len(Path[b])] = b
  BY Tree, TreeEnds
<1> USE <1>2
<1> DEFINE n == Len(Path[x])
<1>3. MainOf[x] \subseteq MainOf[b]
  <2>1. DOMAIN Path[x] = 1..n /\ \A i \in 1..n : Path[x][i] = Path[b][i] /\ i \in 1..Len(Path[b])
    OBVIOUS
  <2>2. MainOf[b] = Range(Path[b]) /\ MainOf[x] = Range(Path[x])
    BY DEF MainOf
  <2> QED BY <2>1, <2>2 DEF Range
<1>4. Work[x] <= Work[b]
  <2> DEFINE S == {k \in n..Len(Path[b]) : Work[x] <= Work[Path[b][k]]}
  <2>1. \A k \in 1..Len(Path[b]) : Path[b][k] \in Block /\ Work[Path[b][k]] \in Nat
    BY Works
  <2>2. n \in S
    BY <2>1
  <2>3. ASSUME NEW k \in n..(Len(Path[b]) - 1), k \in S PROVE k + 1 \in S
    <3>1. k + 1 \in 1..Len(Path[b]) /\ k + 1 > 1 /\ k \in 1..Len(Path[b]) /\ (k + 1) - 1 = k
      OBVIOUS
    <3>2. Parent(Path[b][k + 1]) = Path[b][k] /\ Path[b][k + 1] # Genesis
      BY <3>1, Tree, TreePrefix DEF Parent, ParentIn
    <3>3. Work[Path[b][k + 1]] > Work[Path[b][k]]
      BY <2>1, <3>1, <3>2, ChainOfBlock
    <3>4. Work[x] <= Work[Path[b][k]] /\ Work[x] \in Nat
      BY <2>3, Works
    <3> QED BY <2>1, <3>1, <3>3, <3>4
  <2>4. \A k \in n..Len(Path[b]) : k \in S
    <3>1. n \in Nat /\ Len(Path[b]) \in Nat
      OBVIOUS
    <3> HIDE DEF S
    <3> QED BY <2>2, <2>3, <3>1, IntervalInduction, Zenon
  <2>5. Len(Path[b]) \in S
    BY <2>4
  <2> QED BY <2>5
<1>5. ASSUME x # Genesis PROVE Parent(x) \in MainOf[b]
  BY <1>3, <1>5, ChainOfBlock
<1> QED BY <1>3, <1>4, <1>5

----------------------------------------------------------------------------
(***************************************************************************)
(* The loop over a list of ids.                                            *)
(***************************************************************************)
Rounds == [ids : Seq(Block), passed : Nat]

\* After i ids: what was passed over is in the result if it is in S, in the order in
\* which it came.
InOrder(r, s, n, S) ==
  \A k \in 1..Len(r) :
    \E j \in 1..n : /\ r[k] = s[j] /\ s[j] \in S
                    /\ \A i \in 1..(j - 1) : s[i] \in S => \E m \in 1..(k - 1) : r[m] = s[i]

Gathered(d, s, i, S, limit) ==
  /\ d \in Rounds /\ d.passed <= i /\ Len(d.ids) <= d.passed
  /\ Len(d.ids) < limit => d.passed = i
  /\ \A j \in 1..d.passed : s[j] \in S => \E k \in 1..Len(d.ids) : d.ids[k] = s[j]
  /\ InOrder(d.ids, s, d.passed, S)

LEMMA RoundType ==
  ASSUME NEW d \in Rounds, NEW s \in Seq(Block), NEW i \in 1..Len(s), NEW S, NEW limit \in Nat
  PROVE  Round(d, s, i, S, limit) \in Rounds
<1>1. d.ids \in Seq(Block) /\ s[i] \in Block /\ i \in Nat
  BY DEF Rounds
<1>2. Append(d.ids, s[i]) \in Seq(Block)
  BY <1>1
<1> QED BY <1>1, <1>2 DEF Rounds, Round

LEMMA RoundGathers ==
  ASSUME NEW s \in Seq(Block), NEW i \in 0..(Len(s) - 1), NEW d, NEW S, NEW limit \in Nat,
         Gathered(d, s, i, S, limit)
  PROVE  Gathered(Round(d, s, i + 1, S, limit), s, i + 1, S, limit)
<1> DEFINE e == Round(d, s, i + 1, S, limit)
           r == d.ids
           x == s[i + 1]
<1> SUFFICES Gathered(e, s, i + 1, S, limit)
  OBVIOUS
<1>1. /\ r \in Seq(Block) /\ Len(r) \in Nat /\ d.passed \in Nat /\ i \in Nat /\ i + 1 \in 1..Len(s)
      /\ x \in Block /\ d.passed <= i /\ Len(r) <= d.passed
  BY DEF Gathered, Rounds
<1> USE <1>1
<1>2. e \in Rounds
  BY RoundType DEF Gathered
<1>3. CASE Len(r) >= limit
  <2>1. e = d
    BY <1>3 DEF Round
  <2> QED BY <1>3, <2>1 DEF Gathered
<1>4. CASE Len(r) < limit /\ x \notin S
  <2>1. e.ids = r /\ e.passed = i + 1 /\ d.passed = i
    BY <1>4 DEF Round, Gathered
  <2>2. InOrder(r, s, i + 1, S)
    <3>1. \A j \in 1..i : j \in 1..(i + 1)
      OBVIOUS
    <3> QED BY <2>1, <3>1, Zenon DEF Gathered, InOrder
  <2>3. \A j \in 1..(i + 1) : s[j] \in S => j \in 1..i
    BY <1>4
  <2>4. \A j \in 1..(i + 1) : s[j] \in S => \E k \in 1..Len(r) : r[k] = s[j]
    BY <2>1, <2>3, Zenon DEF Gathered
  <2>5. i + 1 <= i + 1 /\ Len(r) <= i + 1
    OBVIOUS
  <2> HIDE DEF e, r
  <2> QED BY <1>2, <2>1, <2>2, <2>4, <2>5, Zenon DEF Gathered
<1>5. CASE Len(r) < limit /\ x \in S
  <2> DEFINE q == Append(r, x)
             n == Len(r)
  <2>1. e.ids = q /\ e.passed = i + 1 /\ d.passed = i
    BY <1>5, SMTT(30) DEF Round, Gathered
  <2>2. /\ q \in Seq(Block) /\ Len(q) = n + 1 /\ q[n + 1] = x
        /\ \A k \in 1..n : q[k] = r[k]
    OBVIOUS
  <2>3. /\ \A k \in 1..Len(q) : k # n + 1 => k \in 1..n
        /\ \A k \in 1..n : k \in 1..Len(q) /\ \A m \in 1..(k - 1) : m \in 1..n
        /\ n + 1 \in 1..Len(q)
        /\ \A j \in 1..i : j \in 1..(i + 1)
        /\ \A j \in 1..(i + 1) : j # i + 1 => j \in 1..i
        /\ i + 1 <= i + 1 /\ Len(q) <= i + 1 /\ i + 1 \in 1..(i + 1)
        /\ (i + 1) - 1 = i /\ (n + 1) - 1 = n
    BY <2>2
  <2> HIDE DEF e, q, n
  <2>4. \A j \in 1..i : s[j] \in S => \E k \in 1..n : q[k] = s[j]
    <3>1. \A j \in 1..i : s[j] \in S => \E k \in 1..n : r[k] = s[j]
      BY <2>1, Zenon DEF Gathered, n
    <3> QED BY <2>2, <3>1, Zenon
  <2>5. \A j \in 1..(i + 1) : s[j] \in S => \E k \in 1..Len(q) : q[k] = s[j]
    BY <2>2, <2>3, <2>4, Zenon
  <2>6. InOrder(q, s, i + 1, S)
    <3> USE Zenon
    <3> SUFFICES ASSUME NEW k \in 1..Len(q)
                 PROVE  \E j \in 1..(i + 1) :
                          /\ q[k] = s[j] /\ s[j] \in S
                          /\ \A a \in 1..(j - 1) : s[a] \in S => \E m \in 1..(k - 1) : q[m] = s[a]
      BY DEF InOrder
    <3>1. CASE k = n + 1
      <4>1. q[k] = s[i + 1] /\ i + 1 \in 1..(i + 1)
        BY <1>5, <2>2, <2>3, <3>1
      <4>2. \A a \in 1..((i + 1) - 1) : s[a] \in S => \E m \in 1..(k - 1) : q[m] = s[a]
        BY <2>3, <2>4, <3>1
      <4> QED BY <1>5, <4>1, <4>2
    <3>2. CASE k # n + 1
      <4>1. k \in 1..n /\ q[k] = r[k] /\ \A m \in 1..(k - 1) : q[m] = r[m]
        BY <2>2, <2>3, <3>2
      <4>2. PICK j \in 1..i : /\ r[k] = s[j] /\ s[j] \in S
                             /\ \A a \in 1..(j - 1) : s[a] \in S => \E m \in 1..(k - 1) : r[m] = s[a]
        BY <2>1, <4>1 DEF Gathered, InOrder, n
      <4>3. j \in 1..(i + 1)
        BY <2>3, SMT
      <4> QED BY <4>1, <4>2, <4>3
    <3> QED BY <3>1, <3>2
  <2> QED BY <1>2, <2>1, <2>3, <2>5, <2>6, Zenon DEF Gathered
<1> QED BY <1>3, <1>4, <1>5

\* What the loop returns: induction over the list.
LEMMA CollectFacts ==
  ASSUME NEW s \in Seq(Block), NEW S, NEW limit \in Nat
  PROVE  Gathered(Collect(s, S, limit), s, Len(s), S, limit)
<1> DEFINE n == Len(s)
           start == [ids |-> <<>>, passed |-> 0]
           Is(g) == g = [i \in 0..Len(s) |->
                           IF i = 0 THEN [ids |-> <<>>, passed |-> 0]
                           ELSE Round(g[i - 1], s, i, S, limit)]
           f == CHOOSE g : Is(g)
<1>1. n \in Nat /\ start \in Rounds
  BY DEF Rounds
<1> USE <1>1
<1>2. Collect(s, S, limit) = f[n]
  BY DEF Collect
<1>3. \E g : Is(g)
  <2> DEFINE succ == [i \in Nat |-> [d \in Rounds |->
                        IF i \in 1..n THEN Round(d, s, i, S, limit) ELSE d]]
  <2>1. succ \in [Nat -> [Rounds -> Rounds]]
    BY RoundType
  <2>2. \A i \in 1..n : \A d \in Rounds : succ[i][d] = Round(d, s, i, S, limit)
    OBVIOUS
  <2> HIDE DEF succ, start, n
  <2>3. Recursive(0, n, Rounds, start, succ) # {}
    <3>1. 0 \in Nat /\ 0 <= n
      OBVIOUS
    <3> QED BY <2>1, <3>1, RecursionOnInterval, Zenon
  <2>4. PICK g \in [0..n -> Rounds] : g[0] = start /\ \A i \in (0 + 1)..n : g[i] = succ[i][g[i - 1]]
    BY <2>3 DEF Recursive
  <2>5. \A i \in 0..n : i # 0 => i \in 1..n /\ i \in (0 + 1)..n /\ i - 1 \in 0..n
    OBVIOUS
  <2>6. \A i \in 0..n : g[i] = IF i = 0 THEN start ELSE Round(g[i - 1], s, i, S, limit)
    BY <2>2, <2>4, <2>5
  <2>7. g = [i \in 0..n |-> IF i = 0 THEN start ELSE Round(g[i - 1], s, i, S, limit)]
    BY <2>4, <2>6
  <2>8. Is(g)
    BY <2>7 DEF n, start
  <2> QED BY <2>8
<1>4. Is(f)
  <2> HIDE DEF Is
  <2> QED BY <1>3
<1>5. f[0] = start /\ \A i \in 1..n : f[i] = Round(f[i - 1], s, i, S, limit)
  <2>1. 0 \in 0..n /\ \A i \in 1..n : i \in 0..n /\ i # 0
    OBVIOUS
  <2> HIDE DEF f, n, start
  <2>2. f = [i \in 0..n |-> IF i = 0 THEN start ELSE Round(f[i - 1], s, i, S, limit)]
    BY <1>4 DEF n, start
  <2> HIDE DEF Is
  <2>3. \A i \in 0..n : f[i] = IF i = 0 THEN start ELSE Round(f[i - 1], s, i, S, limit)
    BY <2>2, Zenon
  <2> QED BY <2>1, <2>3
<1> HIDE DEF f, start, n, Is
<1> DEFINE T == {i \in 0..n : Gathered(f[i], s, i, S, limit)}
<1>6. 0 \in T
  <2>1. f[0] \in Rounds /\ f[0].ids = <<>> /\ f[0].passed = 0 /\ Len(f[0].ids) = 0
    BY <1>5 DEF start
  <2> QED BY <2>1 DEF Gathered, InOrder
<1>7. ASSUME NEW i \in 0..(n - 1), i \in T PROVE i + 1 \in T
  <2>1. i + 1 \in 0..n /\ i + 1 \in 1..n /\ (i + 1) - 1 = i
    OBVIOUS
  <2>2. f[i + 1] = Round(f[i], s, i + 1, S, limit)
    BY <1>5, <2>1
  <2>3. i \in 0..(Len(s) - 1)
    BY DEF n
  <2> QED BY <1>7, <2>1, <2>2, <2>3, RoundGathers
<1>8. n \in T
  <2> HIDE DEF T
  <2>1. n \in 0..n
    OBVIOUS
  <2> QED BY <1>6, <1>7, <2>1, IntervalInduction, Zenon
<1> QED BY <1>2, <1>8 DEF n

----------------------------------------------------------------------------
(***************************************************************************)
(* How many messages of some types a channel holds.                        *)
(***************************************************************************)
\* The functions that count the messages of types T among the first i of s.
Counting(s, T) ==
  {n \in [0..Len(s) -> Nat] :
     n[0] = 0 /\ \A i \in 1..Len(s) : n[i] = n[i - 1] + (IF s[i].type \in T THEN 1 ELSE 0)}

LEMMA CountFunction ==
  ASSUME NEW M, NEW s \in Seq(M), NEW T
  PROVE  \E n \in Counting(s, T) : n[Len(s)] = Count(s, T)
<1> DEFINE l == Len(s)
           One(i) == IF s[i].type \in T THEN 1 ELSE 0
           Is(g) == g = [i \in 0..l |-> IF i = 0 THEN 0 ELSE g[i - 1] + One(i)]
           f == CHOOSE g : Is(g)
           succ == [i \in Nat |-> [k \in Nat |-> k + One(i)]]
<1>1. l \in Nat /\ \A i \in 0..l : i # 0 => i \in 1..l /\ i \in (0 + 1)..l /\ i - 1 \in 0..l
  OBVIOUS
<1> USE <1>1
<1>2. succ \in [Nat -> [Nat -> Nat]] /\ \A i, k \in Nat : succ[i][k] = k + One(i)
  OBVIOUS
<1>3. Count(s, T) = f[l]
  BY Zenon DEF Count
<1>4. \E g : Is(g)
  <2> HIDE DEF succ, l, One
  <2>1. Recursive(0, l, Nat, 0, succ) # {}
    <3>1. 0 \in Nat /\ 0 <= l
      OBVIOUS
    <3> QED BY <1>2, <3>1, RecursionOnInterval, Zenon
  <2>2. PICK g \in [0..l -> Nat] : g[0] = 0 /\ \A i \in (0 + 1)..l : g[i] = succ[i][g[i - 1]]
    BY <2>1, Zenon DEF Recursive
  <2>3. \A i \in 0..l : g[i] = IF i = 0 THEN 0 ELSE g[i - 1] + One(i)
    <3>1. \A i \in 0..l : i \in Nat /\ g[i] \in Nat
      OBVIOUS
    <3> HIDE DEF Is
    <3> QED BY <1>2, <2>2, <3>1, Zenon
  <2>4. g = [i \in 0..l |-> IF i = 0 THEN 0 ELSE g[i - 1] + One(i)]
    BY <2>3
  <2> QED BY <2>4, Zenon
<1>5. Is(f)
  <2> HIDE DEF Is
  <2> QED BY <1>4, Zenon
<1> HIDE DEF f, l
<1>6. f[0] = 0 /\ \A i \in 1..l : f[i] = f[i - 1] + One(i)
  BY <1>5
<1> DEFINE S == {i \in 0..l : f[i] \in Nat}
<1>7. 0 \in S /\ \A i \in 0..(l - 1) : i \in S => i + 1 \in S
  <2> HIDE DEF Is
  <2> QED BY <1>6
<1>8. \A i \in 0..l : f[i] \in Nat
  <2>1. 0 \in Nat
    OBVIOUS
  <2>2. \A i \in 0..l : i \in S
    <3> HIDE DEF S
    <3> QED BY <1>7, <2>1, IntervalInduction, Zenon
  <2> QED BY <2>2
<1>9. f \in [0..l -> Nat]
  BY <1>5, <1>8
<1>10. f \in Counting(s, T)
  BY <1>6, <1>9 DEF Counting, l
<1> QED BY <1>3, <1>10, Zenon DEF l

LEMMA CountUnique ==
  ASSUME NEW M, NEW s \in Seq(M), NEW T, NEW n \in Counting(s, T)
  PROVE  Count(s, T) = n[Len(s)]
<1> DEFINE l == Len(s)
<1>1. PICK g \in Counting(s, T) : g[l] = Count(s, T)
  BY CountFunction
<1> DEFINE S == {i \in 0..l : g[i] = n[i]}
<1>2. l \in Nat
  OBVIOUS
<1> HIDE DEF l
<1>3. 0 \in Nat /\ 0 \in S /\ l \in 0..l
  BY <1>2 DEF Counting
<1>4. ASSUME NEW i \in 0..(l - 1), i \in S PROVE i + 1 \in S
  <2>1. i + 1 \in 1..l /\ i + 1 \in 0..l /\ (i + 1) - 1 = i
    BY <1>2
  <2> QED BY <1>4, <2>1 DEF Counting, l
<1>5. l \in S
  <2> HIDE DEF S
  <2> QED BY <1>2, <1>3, <1>4, IntervalInduction, Zenon
<1> QED BY <1>1, <1>5 DEF l

LEMMA CountType ==
  ASSUME NEW M, NEW s \in Seq(M), NEW T
  PROVE  /\ Count(s, T) \in Nat
         /\ Count(s, T) = 0 => \A m \in Range(s) : m.type \notin T
         /\ s = <<>> => Count(s, T) = 0
<1> DEFINE l == Len(s)
<1>1. PICK n \in Counting(s, T) : n[l] = Count(s, T)
  BY CountFunction
<1>2. /\ l \in Nat /\ n \in [0..l -> Nat] /\ n[0] = 0
      /\ \A i \in 1..l : n[i] = n[i - 1] + (IF s[i].type \in T THEN 1 ELSE 0)
  BY DEF Counting
<1> USE <1>2
<1>3. ASSUME NEW i \in 1..l, s[i].type \in T PROVE Count(s, T) # 0
  <2> DEFINE S == {k \in i..l : n[k] > 0}
  <2> HIDE DEF l
  <2>1. i \in Nat /\ i \in i..l /\ l \in i..l /\ i - 1 \in 0..l
    OBVIOUS
  <2>2. i \in S
    BY <1>3, <2>1
  <2>3. ASSUME NEW k \in i..(l - 1), k \in S PROVE k + 1 \in S
    <3>1. k + 1 \in 1..l /\ k + 1 \in i..l /\ k \in 0..l /\ (k + 1) - 1 = k
      BY <2>1
    <3>2. n[k] \in Nat /\ n[k] > 0 /\ n[k + 1] = n[k] + (IF s[k + 1].type \in T THEN 1 ELSE 0)
      BY <2>3, <3>1
    <3> QED BY <3>1, <3>2
  <2>4. l \in S
    <3> HIDE DEF S
    <3> QED BY <2>1, <2>2, <2>3, IntervalInduction, Zenon
  <2> QED BY <1>1, <2>4
<1>4. Count(s, T) \in Nat
  <2>1. l \in 0..l
    OBVIOUS
  <2> QED BY <1>1, <2>1, Zenon
<1>5. s = <<>> => Count(s, T) = 0
  BY <1>1
<1> QED BY <1>3, <1>4, <1>5 DEF Range

LEMMA CountAppend ==
  ASSUME NEW M, NEW s \in Seq(M), NEW m \in M, NEW T
  PROVE  Count(Append(s, m), T) = Count(s, T) + (IF m.type \in T THEN 1 ELSE 0)
<1> DEFINE d == Append(s, m)
           l == Len(s)
           one == IF m.type \in T THEN 1 ELSE 0
<1>1. PICK n \in Counting(s, T) : n[l] = Count(s, T)
  BY CountFunction
<1> DEFINE g == [i \in 0..(l + 1) |-> IF i = l + 1 THEN n[l] + one ELSE n[i]]
<1>2. /\ l \in Nat /\ d \in Seq(M) /\ Len(d) = l + 1 /\ d[l + 1] = m /\ \A i \in 1..l : d[i] = s[i]
  OBVIOUS
<1> USE <1>2
<1>3. /\ n \in [0..l -> Nat] /\ n[0] = 0
      /\ \A i \in 1..l : n[i] = n[i - 1] + (IF s[i].type \in T THEN 1 ELSE 0)
  BY DEF Counting
<1> HIDE DEF d, l
<1>4. g \in [0..(l + 1) -> Nat] /\ g[0] = 0 /\ g[l + 1] = n[l] + one
  BY <1>3
<1>5. ASSUME NEW i \in 1..(l + 1) PROVE g[i] = g[i - 1] + (IF d[i].type \in T THEN 1 ELSE 0)
  <2>1. i - 1 \in 0..(l + 1) /\ i \in 0..(l + 1) /\ g[i - 1] = n[i - 1]
    OBVIOUS
  <2>2. CASE i = l + 1
    <3>1. i - 1 = l
      BY <2>2
    <3> QED BY <1>4, <2>1, <2>2, <3>1
  <2>3. CASE i # l + 1
    <3>1. i \in 1..l /\ g[i] = n[i]
      BY <2>1, <2>3
    <3> QED BY <1>3, <2>1, <3>1, Zenon
  <2> QED BY <2>2, <2>3
<1> HIDE DEF g
<1>6. g \in Counting(d, T)
  BY <1>4, <1>5 DEF Counting
<1> QED BY <1>1, <1>4, <1>6, CountUnique DEF d

LEMMA CountOthers ==
  ASSUME NEW M, NEW s \in Seq(M), NEW m \in M, NEW T, m.type \notin T
  PROVE  Count(Append(s, m), T) = Count(s, T)
BY CountAppend, CountType

LEMMA CountTail ==
  ASSUME NEW M, NEW s \in Seq(M), s # <<>>, NEW T
  PROVE  Count(s, T) = Count(Tail(s), T) + (IF Head(s).type \in T THEN 1 ELSE 0)
<1> DEFINE d == Tail(s)
           l == Len(d)
           one == IF Head(s).type \in T THEN 1 ELSE 0
<1>1. PICK n \in Counting(d, T) : n[l] = Count(d, T)
  <2>1. d \in Seq(M)
    OBVIOUS
  <2> QED BY <2>1, CountFunction, Zenon
<1> DEFINE g == [i \in 0..(l + 1) |-> IF i = 0 THEN 0 ELSE one + n[i - 1]]
<1>2. /\ l \in Nat /\ d \in Seq(M) /\ Len(s) = l + 1 /\ Head(s) = s[1]
      /\ \A i \in 1..l : d[i] = s[i + 1]
  OBVIOUS
<1> USE <1>2
<1>3. /\ n \in [0..l -> Nat] /\ n[0] = 0
      /\ \A i \in 1..l : n[i] = n[i - 1] + (IF d[i].type \in T THEN 1 ELSE 0)
  BY DEF Counting
<1> HIDE DEF d, l
<1>4. g \in [0..(l + 1) -> Nat] /\ g[0] = 0 /\ g[l + 1] = one + n[l]
  BY <1>3
<1>5. ASSUME NEW i \in 1..(l + 1) PROVE g[i] = g[i - 1] + (IF s[i].type \in T THEN 1 ELSE 0)
  <2>1. i - 1 \in 0..(l + 1) /\ i \in 0..(l + 1) /\ g[i] = one + n[i - 1]
    OBVIOUS
  <2>2. CASE i = 1
    BY <1>3, <1>4, <2>1, <2>2
  <2>3. CASE i # 1
    <3>1. i - 1 \in 1..l /\ g[i - 1] = one + n[(i - 1) - 1] /\ d[i - 1] = s[(i - 1) + 1] /\ (i - 1) + 1 = i
      BY <2>1, <2>3
    <3>2. n[i - 1] = n[(i - 1) - 1] + (IF s[i].type \in T THEN 1 ELSE 0)
      BY <1>3, <3>1, Zenon
    <3>3. one \in Nat /\ (i - 1) - 1 \in 0..l
      BY <3>1
    <3>4. n[(i - 1) - 1] \in Nat
      BY <1>3, <3>3, Zenon
    <3> HIDE DEF g, one
    <3> QED BY <2>1, <3>1, <3>2, <3>3, <3>4
  <2> QED BY <2>2, <2>3
<1>6. Count(s, T) = one + Count(d, T)
  <2> HIDE DEF g
  <2>1. g \in Counting(s, T)
    BY <1>4, <1>5 DEF Counting
  <2>2. Count(s, T) = g[l + 1]
    BY <2>1, CountUnique
  <2> QED BY <1>1, <1>4, <2>2
<1>7. Count(d, T) \in Nat
  BY CountType
<1> QED BY <1>6, <1>7 DEF d

----------------------------------------------------------------------------
(***************************************************************************)
(* The lists of ids, and the messages that carry them.                     *)
(***************************************************************************)
Requests == [type : {"request_chain", "request_objects"}, ids : Seq(Block)]

Replies ==
  [type : {"sync"}, id : Block, height : Nat] \cup [type : {"new_block"}, id : Block]
    \cup [type : {"chain_entry"}, start : Nat, total : Nat, ids : Seq(Block)]
    \cup [type : {"objects"}, height : Nat, ids : Seq(Block)]

Answers == {"chain_entry", "objects"}

\* Each block of the list is in X, or its parent is, or its parent comes before it.
Follows(s, X) ==
  \A k \in 1..Len(s) :
    s[k] \in X \/ Parent(s[k]) \in X \/ \E i \in 1..(k - 1) : s[i] = Parent(s[k])

LEMMA FollowsMore ==
  ASSUME NEW s, NEW X, NEW Y, Follows(s, X), X \subseteq Y
  PROVE  Follows(s, Y)
BY Zenon DEF Follows

LEMMA FollowsWider ==
  ASSUME NEW s, NEW X, NEW Y, NEW Z, NEW X2, Follows(s, X \cup Y \cup Z), X \subseteq X2
  PROVE  Follows(s, X2 \cup Y \cup Z)
BY Zenon DEF Follows

LEMMA Empties ==
  /\ \A X : Follows(<<>>, X) /\ <<>> \in Seq(X)
  /\ Range(<<>>) = {} /\ Len(<<>>) = 0 /\ \A T : Count(<<>>, T) = 0
<1>1. \A X : Follows(<<>>, X) /\ <<>> \in Seq(X)
  BY DEF Follows
<1>2. Range(<<>>) = {} /\ Len(<<>>) = 0
  BY DEF Range
<1>3. \A T : Count(<<>>, T) = 0
  <2>1. <<>> \in Seq(Block)
    OBVIOUS
  <2> QED BY <2>1, CountType, Zenon
<1> QED BY <1>1, <1>2, <1>3

LEMMA OneMessage ==
  ASSUME NEW m
  PROVE  /\ Len(<<m>>) = 1 /\ Range(<<m>>) = {m} /\ \A M : m \in M => <<m>> \in Seq(M)
         /\ Append(<<>>, m) = <<m>>
BY DEF Range

LEMMA ListOfBlocks ==
  ASSUME NEW s \in Seq(Block)
  PROVE  /\ Range(s) \subseteq Block /\ DOMAIN s = 1..Len(s) /\ <<>> \o s = s
         /\ \A j \in 1..Len(s) : s[j] \in Block
BY DEF Range

\* What a channel with one request holds, and what a channel holds with one more message.
LEMMA OneLong ==
  ASSUME NEW M, NEW s \in Seq(M), Len(s) = 1
  PROVE  s[1] \in M /\ Head(s) = s[1] /\ Range(s) = {s[1]} /\ Tail(s) = <<>>
<1>1. s[1] \in M /\ Head(s) = s[1] /\ DOMAIN s = {1} /\ s # <<>>
  OBVIOUS
<1>2. Range(s) = {s[1]}
  BY <1>1, Zenon DEF Range
<1>3. PICK t : t = Tail(s)
  BY Zenon
<1>4. t \in Seq(M) /\ Len(t) = 0
  BY <1>1, <1>3
<1> QED BY <1>1, <1>2, <1>3, <1>4

LEMMA OneMore ==
  ASSUME NEW s \in Seq(Replies), NEW m \in Replies
  PROVE  /\ Append(s, m) \in Seq(Replies) /\ Range(Append(s, m)) = Range(s) \cup {m}
         /\ m.type \notin Answers => Count(Append(s, m), Answers) = Count(s, Answers)
         /\ m.type \in Answers /\ Count(s, Answers) = 0 => Count(Append(s, m), Answers) = 1
<1>1. Append(s, m) \in Seq(Replies)
  OBVIOUS
<1>2. Range(Append(s, m)) = Range(s) \cup {m}
  BY RangeOfAppend
<1>3. m.type \notin Answers => Count(Append(s, m), Answers) = Count(s, Answers)
  BY CountOthers, Zenon
<1>4. m.type \in Answers /\ Count(s, Answers) = 0 => Count(Append(s, m), Answers) = 1
  BY CountAppend
<1> QED BY <1>1, <1>2, <1>3, <1>4, Zenon

LEMMA OneLess ==
  ASSUME NEW s \in Seq(Replies), s # <<>>
  PROVE  LET m == Head(s)
             i == Tail(s)
         IN  /\ m \in Replies /\ i \in Seq(Replies) /\ Range(s) = Range(i) \cup {m}
             /\ Count(s, Answers) \in Nat /\ Count(i, Answers) \in Nat
             /\ m.type \notin Answers => Count(i, Answers) = Count(s, Answers)
             /\ m.type \in Answers => Count(s, Answers) # 0
             /\ m.type \in Answers /\ Count(s, Answers) = 1 => Count(i, Answers) = 0
<1>1. Head(s) \in Replies /\ Tail(s) \in Seq(Replies)
  OBVIOUS
<1>2. Range(s) = Range(Tail(s)) \cup {Head(s)}
  BY RangeOfTail, Zenon
<1>3. Count(s, Answers) = Count(Tail(s), Answers) + (IF Head(s).type \in Answers THEN 1 ELSE 0)
  BY CountTail, Zenon
<1>4. Count(s, Answers) \in Nat /\ Count(Tail(s), Answers) \in Nat
  BY <1>1, CountType, Zenon
<1>5. /\ Head(s).type \notin Answers => Count(Tail(s), Answers) = Count(s, Answers)
      /\ Head(s).type \in Answers => Count(s, Answers) # 0
      /\ Head(s).type \in Answers /\ Count(s, Answers) = 1 => Count(Tail(s), Answers) = 0
  BY <1>3, <1>4
<1> QED BY <1>1, <1>2, <1>4, <1>5, Zenon

\* The loop takes parents before children, leaves a rest that follows what it took, and
\* passes over nothing that is wanted.
LEMMA CollectFollows ==
  ASSUME NEW s \in Seq(Block), NEW X, NEW S, NEW limit \in Nat, Follows(s, X),
         \A j \in 1..Len(s) : s[j] \in S \/ s[j] \in X
  PROVE  LET d == Collect(s, S, limit)
             rest == SubSeq(s, d.passed + 1, Len(s))
         IN  /\ d.ids \in Seq(Block) /\ rest \in Seq(Block)
             /\ Follows(d.ids, X) /\ Follows(rest, X \cup Range(d.ids))
             /\ Range(s) \subseteq X \cup Range(d.ids) \cup Range(rest)
<1> DEFINE d == Collect(s, S, limit)
           r == d.ids
           n == d.passed
           rest == SubSeq(s, n + 1, Len(s))
<1>1. Gathered(d, s, Len(s), S, limit)
  BY CollectFacts
<1> SUFFICES /\ r \in Seq(Block) /\ rest \in Seq(Block)
             /\ Follows(r, X) /\ Follows(rest, X \cup Range(r))
             /\ Range(s) \subseteq X \cup Range(r) \cup Range(rest)
  OBVIOUS
<1> HIDE DEF d
<1>2. /\ r \in Seq(Block) /\ n \in Nat /\ n <= Len(s)
      /\ \A j \in 1..n : s[j] \in S => \E k \in 1..Len(r) : r[k] = s[j]
      /\ InOrder(r, s, n, S)
  BY <1>1 DEF Gathered, Rounds
<1> USE <1>2
<1> HIDE DEF r, n
<1>3. /\ rest \in Seq(Block) /\ Len(rest) = Len(s) - n /\ Len(s) \in Nat
      /\ \A k \in 1..Len(rest) : rest[k] = s[n + k] /\ n + k \in 1..Len(s)
  <2>1. rest \in Seq(Block) /\ Len(rest) = Len(s) - n /\ Len(s) \in Nat
    OBVIOUS
  <2>2. ASSUME NEW k \in 1..(Len(s) - n)
        PROVE  rest[k] = s[n + k] /\ n + k \in 1..Len(s)
    <3>1. n + 1 + k - 1 = n + k /\ n + k \in 1..Len(s) /\ k \in 1..(Len(s) - (n + 1) + 1)
      OBVIOUS
    <3>2. rest[k] = s[n + 1 + k - 1]
      BY <3>1
    <3> QED BY <3>1, <3>2, Zenon
  <2> QED BY <2>1, <2>2
<1> USE <1>3
<1> HIDE DEF rest
<1>4. \A j \in 1..n : s[j] \in X \cup Range(r)
  <2> SUFFICES ASSUME NEW j \in 1..n PROVE s[j] \in X \cup Range(r)
    OBVIOUS
  <2>1. j \in 1..Len(s)
    OBVIOUS
  <2>2. ASSUME s[j] \in S PROVE s[j] \in Range(r)
    <3>1. PICK k \in 1..Len(r) : r[k] = s[j]
      BY <2>2
    <3> QED BY <3>1 DEF Range
  <2> QED BY <2>1, <2>2
<1>5. Follows(r, X)
  <2> SUFFICES ASSUME NEW k \in 1..Len(r)
               PROVE  r[k] \in X \/ Parent(r[k]) \in X \/ \E i \in 1..(k - 1) : r[i] = Parent(r[k])
    BY Zenon DEF Follows
  <2>1. PICK j \in 1..n : /\ r[k] = s[j]
                          /\ \A i \in 1..(j - 1) : s[i] \in S => \E m \in 1..(k - 1) : r[m] = s[i]
    BY Zenon DEF InOrder
  <2>2. j \in 1..Len(s) /\ \A i \in 1..(j - 1) : i \in 1..Len(s)
    OBVIOUS
  <2>3. s[j] \in X \/ Parent(s[j]) \in X \/ \E i \in 1..(j - 1) : s[i] = Parent(s[j])
    BY <2>2, Zenon DEF Follows
  <2> QED BY <2>1, <2>2, <2>3, Zenon
<1>6. Follows(rest, X \cup Range(r))
  <2> SUFFICES ASSUME NEW k \in 1..Len(rest)
               PROVE  \/ rest[k] \in X \cup Range(r) \/ Parent(rest[k]) \in X \cup Range(r)
                      \/ \E i \in 1..(k - 1) : rest[i] = Parent(rest[k])
    BY Zenon DEF Follows
  <2> DEFINE j == n + k
  <2>1. rest[k] = s[j] /\ j \in 1..Len(s)
    BY Zenon
  <2>2. s[j] \in X \/ Parent(s[j]) \in X \/ \E i \in 1..(j - 1) : s[i] = Parent(s[j])
    BY <2>1, Zenon DEF Follows
  <2>3. ASSUME NEW i \in 1..(j - 1), s[i] = Parent(s[j])
        PROVE  s[i] \in X \cup Range(r) \/ \E h \in 1..(k - 1) : rest[h] = s[i]
    <3>1. CASE i <= n
      BY <1>4, <3>1
    <3>2. CASE ~(i <= n)
      <4>1. i - n \in 1..(k - 1) /\ i - n \in 1..Len(rest) /\ n + (i - n) = i
        BY <3>2
      <4>2. rest[i - n] = s[i]
        BY <4>1, Zenon
      <4> QED BY <4>1, <4>2, Zenon
    <3> QED BY <3>1, <3>2, Zenon
  <2> QED BY <2>1, <2>2, <2>3, Zenon
<1>7. Range(s) \subseteq X \cup Range(r) \cup Range(rest)
  <2> SUFFICES ASSUME NEW j \in 1..Len(s) PROVE s[j] \in X \cup Range(r) \cup Range(rest)
    <3>1. DOMAIN s = 1..Len(s)
      BY SMTT(30)
    <3> QED BY <3>1, Zenon DEF Range
  <2>1. CASE j <= n
    BY <1>4, <2>1
  <2>2. CASE ~(j <= n)
    <3>1. j - n \in 1..Len(rest) /\ n + (j - n) = j
      BY <2>2
    <3>2. rest[j - n] = s[j]
      BY <3>1, Zenon
    <3> QED BY <3>1, <3>2 DEF Range
  <2> QED BY <2>1, <2>2, Zenon
<1> QED BY <1>5, <1>6, <1>7, Zenon

\* Without a limit nothing is left.
LEMMA OnlyFacts ==
  ASSUME NEW s \in Seq(Block), NEW S
  PROVE  /\ Only(s, S) \in Seq(Block) /\ Range(Only(s, S)) \subseteq Range(s)
         /\ \A X : Follows(s, X) /\ (\A j \in 1..Len(s) : s[j] \in S \/ s[j] \in X)
                     => Follows(Only(s, S), X) /\ Range(s) \subseteq X \cup Range(Only(s, S))
<1> DEFINE d == Collect(s, S, Len(s))
           r == d.ids
           rest == SubSeq(s, d.passed + 1, Len(s))
<1>1. Gathered(d, s, Len(s), S, Len(s)) /\ Only(s, S) = r /\ Len(s) \in Nat
  BY CollectFacts DEF Only
<1> USE <1>1
<1> HIDE DEF d
<1>2. r \in Seq(Block) /\ d.passed \in Nat /\ d.passed <= Len(s)
  BY Zenon DEF Gathered, Rounds
<1>3. d.passed = Len(s)
  BY <1>2 DEF Gathered
<1>4. Range(rest) = {}
  BY <1>3 DEF Range
<1>5. Range(r) \subseteq Range(s)
  <2> SUFFICES ASSUME NEW k \in 1..Len(r) PROVE r[k] \in Range(s)
    BY <1>2 DEF Range
  <2>1. PICK j \in 1..Len(s) : r[k] = s[j]
    BY <1>3, Zenon DEF Gathered, InOrder
  <2> QED BY <2>1, SMTT(30) DEF Range
<1>6. ASSUME NEW X, Follows(s, X), \A j \in 1..Len(s) : s[j] \in S \/ s[j] \in X
      PROVE  Follows(r, X) /\ Range(s) \subseteq X \cup Range(r)
  <2>1. Follows(r, X) /\ Range(s) \subseteq X \cup Range(r) \cup Range(rest)
    BY <1>6, CollectFollows, Zenon DEF d
  <2> QED BY <1>4, <2>1, Zenon
<1> QED BY <1>2, <1>5, <1>6, Zenon

\* The objects that a peer finds on its chain come parents first.
LEMMA OnChainFollows ==
  ASSUME NEW s \in Seq(Block), NEW b \in Block, NEW X, Genesis \in X, Follows(s, X)
  PROVE  Follows(Only(s, MainOf[b]), X)
<1> DEFINE S == MainOf[b]
           d == Collect(s, S, Len(s))
           r == d.ids
<1>1. Gathered(d, s, Len(s), S, Len(s)) /\ Only(s, S) = r
  BY CollectFacts, SMTT(30) DEF Only
<1> HIDE DEF d
<1>2. d.passed \in Nat /\ d.passed <= Len(s)
  BY <1>1, Zenon DEF Gathered, Rounds
<1>3. Follows(r, X)
  <2> SUFFICES ASSUME NEW k \in 1..Len(r)
               PROVE  r[k] \in X \/ Parent(r[k]) \in X \/ \E i \in 1..(k - 1) : r[i] = Parent(r[k])
    BY Zenon DEF Follows
  <2>1. PICK j \in 1..d.passed : /\ r[k] = s[j] /\ s[j] \in S
                          /\ \A i \in 1..(j - 1) : s[i] \in S => \E m \in 1..(k - 1) : r[m] = s[i]
    BY <1>1, Zenon DEF Gathered, InOrder
  <2>2. j \in 1..Len(s)
    BY <1>2
  <2>3. s[j] \in X \/ Parent(s[j]) \in X \/ \E i \in 1..(j - 1) : s[i] = Parent(s[j])
    BY <2>2, Zenon DEF Follows
  <2>4. s[j] # Genesis => Parent(s[j]) \in S
    BY <2>1, BelowOnChain, Zenon
  <2> QED BY <2>1, <2>3, <2>4, Zenon
<1> QED BY <1>1, <1>3, Zenon

\* A request of the chain names the genesis block and blocks the node has.
LEMMA ShortHistory ==
  ASSUME NEW b \in Block
  PROVE  LET m == [type |-> "request_chain", ids |-> Backwards(Path[b])]
         IN  /\ m \in Requests /\ Range(m.ids) = MainOf[b] /\ Genesis \in Range(m.ids)
             /\ [RequestChain EXCEPT !.ids = Backwards(Path[b])] = m
<1> DEFINE s == Path[b]
           r == Backwards(s)
           n == Len(s)
<1>1. s \in Seq(Block) /\ n \in Nat \ {0} /\ Genesis \in MainOf[b]
  BY ChainOfBlock, Zenon
<1> USE <1>1
<1>2. MainOf[b] = Range(s)
  BY Zenon DEF MainOf
<1>3. r \in Seq(Block) /\ DOMAIN r = 1..n /\ \A i \in 1..n : r[i] = s[n + 1 - i]
  BY DEF Backwards
<1> USE <1>3
<1>4. \A i \in 1..n : n + 1 - i \in 1..n /\ n + 1 - (n + 1 - i) = i
  OBVIOUS
<1>5. DOMAIN s = 1..n
  OBVIOUS
<1> HIDE DEF r, s, n
<1>6. Range(r) = Range(s)
  <2>1. ASSUME NEW i \in 1..n PROVE r[i] \in Range(s)
    BY <1>4, <1>5, Zenon DEF Range
  <2>2. ASSUME NEW i \in 1..n PROVE s[i] \in Range(r)
    <3>1. r[n + 1 - i] = s[i] /\ n + 1 - i \in 1..n
      BY <1>4, Zenon
    <3> QED BY <3>1, Zenon DEF Range
  <2> QED BY <1>5, <2>1, <2>2, Zenon DEF Range
<1>7. [type |-> "request_chain", ids |-> r] \in Requests
  BY Zenon DEF Requests
<1>8. [RequestChain EXCEPT !.ids = r] = [type |-> "request_chain", ids |-> r]
  BY DEF RequestChain
<1> QED BY <1>2, <1>6, <1>7, <1>8, Zenon DEF r, s

\* Ids from parent to child, the first of them known.
LEMMA ParentToChild ==
  ASSUME NEW s \in Seq(Block), s # <<>>, NEW X, s[1] \in X,
         \A j \in 2..Len(s) : s[j - 1] = Parent(s[j])
  PROVE  /\ Head(s) = s[1] /\ Len(s) \in Nat \ {0} /\ \A k \in 1..Len(s) : s[k] \in Block
         /\ s[Len(s)] \in Block /\ s[Len(s)] \in Range(s) /\ Follows(s, X)
         /\ \A k \in Nat : k + Len(s) - 1 \in Nat
<1>1. /\ Head(s) = s[1] /\ Len(s) \in Nat \ {0} /\ \A k \in 1..Len(s) : s[k] \in Block
      /\ s[Len(s)] \in Block /\ Len(s) \in DOMAIN s /\ \A k \in Nat : k + Len(s) - 1 \in Nat
  OBVIOUS
<1>2. ASSUME NEW k \in 1..Len(s)
      PROVE  s[k] \in X \/ Parent(s[k]) \in X \/ \E i \in 1..(k - 1) : s[i] = Parent(s[k])
  <2>1. k = 1 \/ (k \in 2..Len(s) /\ k - 1 \in 1..(k - 1))
    BY <1>1
  <2> QED BY <2>1, Zenon
<1> QED BY <1>1, <1>2, Zenon DEF Follows, Range

\* Once the first block of a list is known the others follow what is known.
LEMMA TailFollows ==
  ASSUME NEW s \in Seq(Block), s # <<>>, NEW X, NEW Y, Follows(s, X), X \subseteq Y, Head(s) \in Y
  PROVE  Follows(Tail(s), Y)
<1> DEFINE t == Tail(s)
<1>1. Len(t) = Len(s) - 1 /\ Len(s) \in Nat /\ \A k \in 1..(Len(s) - 1) : t[k] = s[k + 1]
  BY RangeOfTail
<1>2. s[1] \in Y
  OBVIOUS
<1> HIDE DEF t
<1> SUFFICES ASSUME NEW k \in 1..Len(t)
             PROVE  t[k] \in Y \/ Parent(t[k]) \in Y \/ \E h \in 1..(k - 1) : t[h] = Parent(t[k])
  BY Zenon DEF Follows, t
<1>3. k + 1 \in 1..Len(s) /\ t[k] = s[k + 1]
  BY <1>1, SMTT(30)
<1>4. \/ s[k + 1] \in X \/ Parent(s[k + 1]) \in X
      \/ \E j \in 1..(k + 1 - 1) : s[j] = Parent(s[k + 1])
  <2>1. \A n \in 1..Len(s) : s[n] \in X \/ Parent(s[n]) \in X \/ \E j \in 1..(n - 1) : s[j] = Parent(s[n])
    BY Zenon DEF Follows
  <2> QED BY <1>3, <2>1
<1>5. ASSUME NEW j \in 1..(k + 1 - 1), s[j] = Parent(s[k + 1])
      PROVE  Parent(t[k]) \in Y \/ \E h \in 1..(k - 1) : t[h] = Parent(t[k])
  <2>1. CASE j = 1
    BY <1>2, <1>3, <1>5, <2>1, Zenon
  <2>2. CASE j # 1
    <3>1. j - 1 \in 1..(k - 1) /\ j - 1 \in 1..(Len(s) - 1) /\ j - 1 + 1 = j
      BY <1>1, <2>2, SMTT(30)
    <3>2. t[j - 1] = s[j]
      BY <1>1, <3>1, Zenon
    <3> QED BY <1>3, <1>5, <3>1, <3>2, Zenon
  <2> QED BY <2>1, <2>2, Zenon
<1> QED BY <1>3, <1>4, <1>5, Zenon

LEMMA HeadFollows ==
  ASSUME NEW s \in Seq(Block), s # <<>>, NEW X, Follows(s, X)
  PROVE  Head(s) \in Block /\ (Head(s) \in X \/ Parent(Head(s)) \in X)
<1>1. Head(s) = s[1] /\ s[1] \in Block /\ 1 \in 1..Len(s) /\ 1..(1 - 1) = {}
  OBVIOUS
<1>2. s[1] \in X \/ Parent(s[1]) \in X \/ \E i \in 1..(1 - 1) : s[i] = Parent(s[1])
  BY <1>1, Zenon DEF Follows
<1> QED BY <1>1, <1>2, Zenon

\* A chain goes from parent to child.
LEMMA ParentOnPath ==
  ASSUME NEW b \in Block, NEW h \in 2..Len(Path[b])
  PROVE  Parent(Path[b][h]) = Path[b][h - 1]
<1>1. Len(Path[b]) \in Nat
  BY ChainOfBlock, Zenon
<1>2. h \in 1..Len(Path[b]) /\ h > 1
  BY <1>1
<1>3. ParentIn(Path, Path[b][h]) = Path[b][h - 1]
  BY <1>2, Tree, TreePrefix
<1> QED BY <1>3, Zenon DEF Parent, ParentIn

\* Some ids of a chain in a row, beginning with the one at k.
LEMMA Slice ==
  ASSUME NEW c \in Seq(Block), NEW k \in 1..Len(c), NEW size \in Nat \ {0}
  PROVE  LET last == IF k + size - 1 < Len(c) THEN k + size - 1 ELSE Len(c)
             s == SubSeq(c, k, last)
         IN  /\ s \in Seq(Block) /\ s # <<>> /\ s[1] = c[k]
             /\ \A j \in 2..Len(s) : \E h \in 2..Len(c) : s[j] = c[h] /\ s[j - 1] = c[h - 1]
<1> DEFINE n == Len(c)
           last == IF k + size - 1 < n THEN k + size - 1 ELSE n
           s == SubSeq(c, k, last)
<1>1. n \in Nat /\ last \in k..n /\ k \in 1..(n + 1) /\ last \in (k - 1)..n
  OBVIOUS
<1> HIDE DEF last
<1>2. /\ s \in Seq(Block) /\ Len(s) = last - k + 1
      /\ \A i \in 1..(last - k + 1) : s[i] = c[k + i - 1]
  BY <1>1, SubSeqFacts, Zenon
<1> HIDE DEF n, s
<1>3. s # <<>> /\ s[1] = c[k]
  <2>1. 1 \in 1..(last - k + 1) /\ k + 1 - 1 = k
    BY <1>1
  <2>2. s[1] = c[k + 1 - 1]
    BY <1>2, <2>1, Zenon
  <2> QED BY <1>1, <1>2, <2>1, <2>2
<1>4. ASSUME NEW j \in 2..Len(s) PROVE \E h \in 2..n : s[j] = c[h] /\ s[j - 1] = c[h - 1]
  <2> DEFINE h == k + j - 1
  <2>1. /\ h \in 2..n /\ j \in 1..(last - k + 1) /\ j - 1 \in 1..(last - k + 1)
        /\ k + (j - 1) - 1 = h - 1
    BY <1>1, <1>2
  <2>2. s[j] = c[h] /\ s[j - 1] = c[h - 1]
    BY <1>2, <2>1, Zenon
  <2> QED BY <2>1, <2>2, Zenon
<1> QED BY <1>2, <1>3, <1>4, Zenon DEF n, last, s

\* The first id that is on the chain, when there is one.
LEMMA FirstShared ==
  ASSUME NEW ids \in Seq(Block), NEW chain \in Seq(Block), NEW g,
         g \in Range(ids), g \in Range(chain)
  PROVE  \E h \in 1..Len(chain) : \E i \in 1..Len(ids) :
           ids[i] = chain[h] /\ \A j \in 1..(i - 1) : ids[j] \notin Range(chain)
<1> DEFINE W == {i \in 1..Len(ids) : ids[i] \in Range(chain)}
<1>1. W \in SUBSET Nat /\ W # {}
  <2>1. PICK i \in 1..Len(ids) : ids[i] = g
    BY DEF Range
  <2> QED BY <2>1
<1>2. PICK i \in W : \A j \in W : i <= j
  BY <1>1, LeastElement, Zenon
<1>3. i \in 1..Len(ids) /\ ids[i] \in Range(chain)
  BY Zenon
<1>4. PICK h \in 1..Len(chain) : ids[i] = chain[h]
  BY <1>3 DEF Range
<1>5. ASSUME NEW j \in 1..(i - 1), ids[j] \in Range(chain) PROVE FALSE
  <2>1. j \in 1..Len(ids) /\ ~(i <= j)
    BY <1>3
  <2> QED BY <1>2, <1>5, <2>1, Zenon
<1> QED BY <1>3, <1>4, <1>5, Zenon

\* find_blockchain_supplement finds a block that both chains have, and goes on from there
\* from child to child.
LEMMA Supplement ==
  ASSUME NEW p \in Peer, peerTop[p] \in Block, NEW ids \in Seq(Block), Genesis \in Range(ids)
  PROVE  LET m == ChainEntry(p, ids)
         IN  /\ m \in Replies /\ m.type = "chain_entry" /\ m.ids \in Seq(Block) /\ m.ids # <<>>
             /\ m.ids[1] \in Range(ids)
             /\ \A j \in 2..Len(m.ids) : m.ids[j - 1] = Parent(m.ids[j])
<1> USE Zenon
<1> DEFINE chain == Path[peerTop[p]]
           n == Len(chain)
           Split(h) == \E i \in 1..Len(ids) : /\ ids[i] = chain[h]
                                              /\ \A j \in 1..(i - 1) : ids[j] \notin Range(chain)
           split == CHOOSE h \in 1..n : Split(h)
           s == SubSeq(chain, split, IF split + IdsCount - 1 < n THEN split + IdsCount - 1 ELSE n)
<1>1. chain \in Seq(Block) /\ n \in Nat \ {0} /\ Genesis \in Range(chain)
  <2>1. MainOf[peerTop[p]] = Range(chain)
    BY DEF MainOf
  <2> QED BY <2>1, ChainOfBlock
<1> USE <1>1
<1>2. \A h \in 2..n : Parent(chain[h]) = chain[h - 1]
  BY ParentOnPath
<1>3. ChainEntry(p, ids) = [type |-> "chain_entry", start |-> split - 1, total |-> n, ids |-> s]
  BY DEF ChainEntry
<1> HIDE DEF chain
<1>4. \E h \in 1..n : Split(h)
  BY FirstShared
<1>5. split \in 1..n /\ Split(split)
  BY <1>4
<1>6. chain[split] \in Range(ids)
  <2>1. \E i \in 1..Len(ids) : ids[i] = chain[split]
    BY <1>5
  <2> QED BY <2>1, ListOfBlocks DEF Range
<1>7. IdsCount \in Nat \ {0} /\ split \in 1..Len(chain)
  BY <1>5, SyncAssumption
<1> HIDE DEF split, Split
<1>8. /\ s \in Seq(Block) /\ s # <<>> /\ s[1] = chain[split]
      /\ \A j \in 2..Len(s) : \E h \in 2..n : s[j] = chain[h] /\ s[j - 1] = chain[h - 1]
  BY <1>7, Slice
<1> HIDE DEF n, s
<1>9. \A j \in 2..Len(s) : s[j - 1] = Parent(s[j])
  BY <1>2, <1>8
<1>10. split - 1 \in Nat
  BY <1>5, SMT
<1>11. PICK m : m = [type |-> "chain_entry", start |-> split - 1, total |-> n, ids |-> s]
  OBVIOUS
<1>12. m \in Replies /\ m.type = "chain_entry" /\ m.ids = s
  BY <1>8, <1>10, <1>11 DEF Replies
<1> QED BY <1>3, <1>6, <1>8, <1>9, <1>11, <1>12

\* handle_get_objects finds some of the blocks asked for, in the order of the request.
LEMMA Found ==
  ASSUME NEW p \in Peer, peerTop[p] \in Block, NEW ids \in Seq(Block), NEW X, Genesis \in X,
         Follows(ids, X)
  PROVE  LET m == Objects(p, ids)
         IN  /\ m \in Replies /\ m.type = "objects" /\ m.ids \in Seq(Block)
             /\ Range(m.ids) \subseteq Range(ids) /\ Follows(m.ids, X)
<1> DEFINE r == Only(ids, MainOf[peerTop[p]])
<1>1. r \in Seq(Block) /\ Range(r) \subseteq Range(ids)
  BY OnlyFacts, Zenon
<1>2. Follows(r, X)
  BY OnChainFollows, Zenon
<1>3. Height(peerTop[p]) \in Nat
  BY ChainOfBlock, Zenon DEF Height
<1>4. Objects(p, ids) = [type |-> "objects", height |-> Height(peerTop[p]), ids |-> r]
  BY Zenon DEF Objects
<1> HIDE DEF r
<1>5. [type |-> "objects", height |-> Height(peerTop[p]), ids |-> r] \in Replies
  BY <1>1, <1>3, Zenon DEF Replies
<1> QED BY <1>1, <1>2, <1>4, <1>5, SMTT(30)

----------------------------------------------------------------------------
(***************************************************************************)
(* add_new_block.                                                          *)
(***************************************************************************)
\* The chain has the most work among the blocks that may verify, and every invalid
\* block has a block on its chain that does not verify.
CoreOk ==
  /\ top \in Block /\ alt \subseteq Block /\ invalid \subseteq Block
  /\ \A b \in Known : Work[b] <= Work[top] \/ MainOf[b] \cap Bad # {}
  /\ \A b \in invalid : MainOf[b] \cap Bad # {}

\* What is known stays known; a block that is not refused becomes known; a block is
\* refused for a block on its chain that does not verify, or because its parent is
\* not known or invalid.
LEMMA CoreStep ==
  ASSUME CoreOk, NEW b \in Block, Core(AddNewBlock(b))
  PROVE  LET r == AddNewBlock(b)
         IN  /\ CoreOk' /\ Known \subseteq Known' /\ r.top = top'
             /\ r.what \notin {"failed", "orphaned"} => b \in Known'
             /\ r.what = "failed" => MainOf[b] \cap Bad # {}
             /\ r.what = "orphaned" => b \notin Known /\ b # Genesis /\ Parent(b) \notin Main \cup alt
<1> DEFINE r == AddNewBlock(b)
<1>1. /\ top' = r.top /\ alt' = r.alt /\ invalid' = r.invalid
      /\ top \in Block /\ alt \subseteq Block /\ invalid \subseteq Block
      /\ \A x \in Known : Work[x] <= Work[top] \/ MainOf[x] \cap Bad # {}
      /\ \A x \in invalid : MainOf[x] \cap Bad # {}
      /\ Known = MainOf[top] \cup alt \cup invalid /\ Known' = MainOf[top'] \cup alt' \cup invalid'
  BY Zenon DEF Core, CoreOk, Known, Main
<1> USE <1>1
<1>2. /\ MainOf[top] \subseteq Block /\ top \in MainOf[top] /\ Genesis \in MainOf[top]
      /\ MainOf[b] \subseteq Block /\ b \in MainOf[b]
  BY ChainOfBlock
<1> USE <1>2
<1>3. b \notin Known => b # Genesis
  OBVIOUS
<1>4. CASE HaveBlock(b)
  <2>1. r = Result(top, alt, invalid, "exists")
    BY <1>4, Zenon DEF AddNewBlock
  <2>2. top' = top /\ alt' = alt /\ invalid' = invalid /\ r.what = "exists"
    BY <2>1 DEF Result
  <2> QED BY <1>4, <2>2, Zenon DEF CoreOk, HaveBlock
<1>5. CASE ~HaveBlock(b) /\ Parent(b) = top
  <2>1. r = IF b \in Bad THEN Result(top, alt, invalid, "failed") ELSE Result(b, alt, invalid, "main")
    BY <1>5, Zenon DEF AddNewBlock
  <2>2. CASE b \in Bad
    <3>1. top' = top /\ alt' = alt /\ invalid' = invalid /\ r.what = "failed"
      BY <2>1, <2>2 DEF Result
    <3> QED BY <2>2, <3>1, Zenon DEF CoreOk
  <2>3. CASE b \notin Bad
    <3>1. top' = b /\ alt' = alt /\ invalid' = invalid /\ r.what = "main"
      BY <2>1, <2>3 DEF Result
    <3>2. MainOf[b] = MainOf[top] \cup {b} /\ Work[b] > Work[top]
      BY <1>3, <1>5, ChainOfBlock DEF HaveBlock
    <3>3. Known' = Known \cup {b}
      BY <3>1, <3>2
    <3>4. \A x \in Known : Work[x] <= Work[top] => Work[x] <= Work[b]
      BY <3>2, Works
    <3>5. Work[b] <= Work[b]
      BY Works, SMTT(30)
    <3> QED BY <3>1, <3>3, <3>4, <3>5, Zenon DEF CoreOk
  <2> QED BY <2>2, <2>3
<1>6. CASE ~HaveBlock(b) /\ Parent(b) # top /\ Parent(b) \in Main \cup alt
  <2> DEFINE a == alt \cup {b}
             branch == MainOf[b] \ Main
             refused == {x \in branch : MainOf[x] \cap Bad # {}}
  <2>1. r = IF Work[b] <= Work[top] THEN Result(top, a, invalid, "alternative")
            ELSE IF refused = {}
                 THEN Result(b, (a \ MainOf[b]) \cup (Main \ MainOf[b]), invalid, "main")
                 ELSE Result(top, a \ refused, invalid \cup refused, "failed")
    BY <1>6, Zenon DEF AddNewBlock, WithAlternative
  <2>2. CASE Work[b] <= Work[top]
    <3>1. top' = top /\ alt' = a /\ invalid' = invalid /\ r.what = "alternative"
      BY <2>1, <2>2 DEF Result
    <3> QED BY <2>2, <3>1, Zenon DEF CoreOk
  <2>3. CASE ~(Work[b] <= Work[top]) /\ refused = {}
    <3>1. /\ top' = b /\ alt' = (a \ MainOf[b]) \cup (Main \ MainOf[b]) /\ invalid' = invalid
          /\ r.what = "main"
      BY <2>1, <2>3 DEF Result
    <3>2. Known' = Known \cup MainOf[b] /\ b \in Known' /\ alt' \subseteq Block
      BY <3>1, Zenon DEF Main
    <3>3. \A x \in Known : Work[x] <= Work[top] => Work[x] <= Work[b]
      <4>1. Known \subseteq Block
        OBVIOUS
      <4> QED BY <2>3, <4>1, Works
    <3>4. \A x \in MainOf[b] : Work[x] <= Work[b]
      BY BelowOnChain
    <3> QED BY <3>1, <3>2, <3>3, <3>4, Zenon DEF CoreOk
  <2>4. CASE ~(Work[b] <= Work[top]) /\ refused # {}
    <3>1. top' = top /\ alt' = a \ refused /\ invalid' = invalid \cup refused /\ r.what = "failed"
      BY <2>1, <2>4 DEF Result
    <3>2. PICK x \in MainOf[b] : MainOf[x] \cap Bad # {}
      BY <2>4
    <3>3. MainOf[b] \cap Bad # {}
      BY <3>2, BelowOnChain
    <3>4. b \in refused /\ refused \subseteq Block
      BY <1>6, <3>3 DEF HaveBlock, Main
    <3>5. Known' = Known \cup refused
      BY <3>1, <3>4, Zenon
    <3> QED BY <3>1, <3>3, <3>4, <3>5, Zenon DEF CoreOk
  <2> QED BY <2>2, <2>3, <2>4
<1>7. CASE ~HaveBlock(b) /\ Parent(b) # top /\ Parent(b) \notin Main \cup alt
  <2>1. r = Result(top, alt, invalid, "orphaned")
    BY <1>7, Zenon DEF AddNewBlock
  <2>2. top' = top /\ alt' = alt /\ invalid' = invalid /\ r.what = "orphaned"
    BY <2>1 DEF Result
  <2> QED BY <1>3, <1>7, <2>2, Zenon DEF CoreOk, HaveBlock
<1> QED BY <1>4, <1>5, <1>6, <1>7

----------------------------------------------------------------------------
(***************************************************************************)
(* The inductive invariant.                                                *)
(***************************************************************************)
Contexts ==
  [state : {"closed", "synchronizing", "idle", "normal"}, needed : Seq(Block),
   requested : SUBSET Block, remote : Nat, last : Nat, callbacks : 0..1]

Types ==
  /\ conn \in [Peer -> Contexts] /\ busy \subseteq Peer /\ batch \in [Peer -> Seq(Block)]
  /\ out \in [Peer -> Seq(Requests)] /\ in \in [Peer -> Seq(Replies)]
  /\ fails \in [Peer -> 0..IpFails] /\ blocked \subseteq Peer
  /\ peerTop \in [Peer -> Block] /\ seen \in [Peer -> Block]
  /\ stuck \subseteq Peer /\ events \in 0..MaxEvents

\* The ids of the peer's chain have been asked for, or will be.
Asking(p) ==
  \/ conn[p].callbacks # 0
  \/ \E m \in Range(out[p]) : m.type = "request_chain"
  \/ \E m \in Range(in[p]) : m.type = "chain_entry"

AskedObjects(p) ==
  \/ \E m \in Range(out[p]) : m.type = "request_objects"
  \/ \E m \in Range(in[p]) : m.type = "objects"

\* What a connection waits for, and what it has asked for.
Waiting(p) ==
  /\ conn[p].state = "closed" => conn[p] = Closed /\ in[p] = <<>>
  /\ Pending(p) = IF conn[p].state = "synchronizing" /\ p \notin stuck THEN 1 ELSE 0
  /\ p \in stuck => conn[p].state = "synchronizing"
  /\ p \notin busy => batch[p] = <<>>
  /\ conn[p].state # "synchronizing" \/ Asking(p) \/ p \in busy => conn[p].requested = {}
  /\ conn[p].state # "synchronizing" \/ Asking(p) => conn[p].needed = <<>>
  /\ conn[p].requested # {} => AskedObjects(p)

\* A request of a chain ends with the genesis block; an answer begins with a block that
\* the node has and goes on from child to child.  Objects come parents first.
RequestOk(m, c) ==
  /\ m.type = "request_chain" => Genesis \in Range(m.ids) /\ Range(m.ids) \subseteq Known
  /\ m.type = "request_objects" => Range(m.ids) = c.requested /\ Follows(m.ids, Known)

ReplyOk(m, c) ==
  /\ m.type = "chain_entry" => /\ m.ids # <<>> /\ m.ids[1] \in Known
                               /\ \A j \in 2..Len(m.ids) : m.ids[j - 1] = Parent(m.ids[j])
  /\ m.type = "objects" => Range(m.ids) \subseteq c.requested /\ Follows(m.ids, Known)

Messages(p) ==
  /\ \A m \in Range(out[p]) : RequestOk(m, conn[p])
  /\ \A m \in Range(in[p]) : ReplyOk(m, conn[p])

\* The last block the peer told of is there or under way, its parents before it.
Download(p) ==
  /\ Follows(batch[p], Known)
  /\ Follows(conn[p].needed, Known \cup conn[p].requested \cup Range(batch[p]))
  /\ conn[p].state = "normal" => seen[p] \in Known
  /\ conn[p].state = "synchronizing" /\ ~Asking(p) =>
       seen[p] \in Known \cup conn[p].requested \cup Range(batch[p]) \cup Range(conn[p].needed)

Link(p) == Waiting(p) /\ Messages(p) /\ Download(p)

IInv == Types /\ CoreOk /\ \A p \in Peer : Link(p)

LEMMA ContextOfClosed ==
  /\ Closed \in Contexts /\ Closed.state = "closed" /\ Closed.needed = <<>>
  /\ Closed.requested = {} /\ Closed.callbacks = 0
BY DEF Closed, Contexts

LEMMA ContextFields ==
  ASSUME NEW c \in Contexts
  PROVE  /\ c.needed \in Seq(Block)
         /\ LET x == [c EXCEPT !.state = "normal"]
            IN  /\ x \in Contexts /\ x.state = "normal" /\ x.needed = c.needed
                /\ x.requested = c.requested /\ x.callbacks = c.callbacks
         /\ c.callbacks > 0 =>
              LET x == [c EXCEPT !.callbacks = c.callbacks - 1]
              IN  /\ c.callbacks # 0 /\ x \in Contexts /\ x.callbacks = 0 /\ x.state = c.state
                  /\ x.needed = c.needed /\ x.requested = c.requested
BY DEF Contexts

Looked ==
  [state : {"befor_handshake", "idle", "normal"}, needed : Seq(Block), requested : SUBSET Block,
   remote : Nat, last : Nat, callbacks : 0..1]

Settled(n) == [n EXCEPT !.state = "normal"]

Started(n, h) == [n EXCEPT !.state = "synchronizing", !.remote = h, !.callbacks = @ + 1]

LEMMA LooksAt ==
  ASSUME NEW n \in Looked, n.needed = <<>>, n.requested = {}, n.callbacks = 0, NEW h \in Nat
  PROVE  /\ Settled(n) \in Contexts /\ Settled(n).needed = <<>> /\ Settled(n).requested = {}
         /\ Settled(n).state = "normal" /\ Settled(n).callbacks = 0
         /\ Started(n, h) \in Contexts /\ Started(n, h).needed = <<>> /\ Started(n, h).requested = {}
         /\ Started(n, h).state = "synchronizing" /\ Started(n, h).callbacks = 1
<1>1. /\ Settled(n) \in Contexts /\ Settled(n).needed = <<>> /\ Settled(n).requested = {}
      /\ Settled(n).state = "normal" /\ Settled(n).callbacks = 0
  BY Zenon DEF Settled, Looked, Contexts
<1>2. PICK c : c = Started(n, h)
  BY Zenon
<1>3. c = [n EXCEPT !.state = "synchronizing", !.remote = h, !.callbacks = 1]
  BY <1>2 DEF Looked, Started
<1>4. c.state = "synchronizing" /\ c.callbacks = 1 /\ c.needed = <<>> /\ c.requested = {}
  BY <1>3, Zenon DEF Looked
<1>5. PICK x : x = [n EXCEPT !.state = "synchronizing", !.remote = h]
  BY Zenon
<1>6. x \in Contexts
  BY <1>5, Zenon DEF Looked, Contexts
<1>7. c = [x EXCEPT !.callbacks = 1]
  BY <1>3, <1>5, Zenon
<1>8. c \in Contexts
  BY <1>6, <1>7 DEF Contexts
<1> QED BY <1>1, <1>2, <1>4, <1>8, Zenon

LEMMA Bounds ==
  /\ 0 \in 0..MaxEvents /\ 0 \in 0..IpFails
  /\ events \in 0..MaxEvents /\ events < MaxEvents => events + 1 \in 0..MaxEvents
<1>1. MaxEvents \in Nat /\ IpFails \in Nat
  BY SyncAssumption, Zenon
<1> QED BY <1>1

LEMMA Domains ==
  ASSUME Types, NEW p \in Peer
  PROVE  DOMAIN out[p] = 1..Len(out[p]) /\ DOMAIN in[p] = 1..Len(in[p])
<1>1. out[p] \in Seq(Requests) /\ in[p] \in Seq(Replies)
  BY Zenon DEF Types
<1> QED BY <1>1

LEMMA PendingNone ==
  ASSUME NEW p, conn[p].callbacks = 0, Len(out[p]) = 0, Count(in[p], Answers) = 0, p \notin busy
  PROVE  Pending(p) = 0
BY DEF Pending, Answers

LEMMA IpFailTypes ==
  ASSUME Types, NEW p \in Peer, AddIpFail(p)
  PROVE  fails' \in [Peer -> 0..IpFails] /\ blocked' \subseteq Peer
<1>1. IpFails \in Nat
  BY SyncAssumption, Zenon
<1>2. fails \in [Peer -> 0..IpFails] /\ blocked \subseteq Peer
  BY Zenon DEF Types
<1>3. IpFails \div 2 \in 0..IpFails
  BY <1>1
<1> QED BY <1>1, <1>2, <1>3 DEF AddIpFail

----------------------------------------------------------------------------
(***************************************************************************)
(* A step changes one connection; the others only see the core grow.       *)
(***************************************************************************)
\* A connection waits for one thing at a time.
LEMMA Alone ==
  ASSUME Types, NEW p \in Peer, Waiting(p)
  PROVE  LET n == Count(in[p], Answers)
             one == conn[p].state = "synchronizing" /\ p \notin stuck
         IN  /\ conn[p] \in Contexts /\ out[p] \in Seq(Requests) /\ in[p] \in Seq(Replies)
             /\ batch[p] \in Seq(Block) /\ n \in Nat
             /\ ~one => conn[p].callbacks = 0 /\ out[p] = <<>> /\ n = 0 /\ p \notin busy
             /\ p \in busy => one /\ conn[p].callbacks = 0 /\ out[p] = <<>> /\ n = 0
             /\ out[p] # <<>> => one /\ conn[p].callbacks = 0 /\ Len(out[p]) = 1 /\ n = 0 /\ p \notin busy
             /\ n # 0 => one /\ conn[p].callbacks = 0 /\ out[p] = <<>> /\ n = 1 /\ p \notin busy
             /\ conn[p].callbacks # 0 =>
                  one /\ conn[p].callbacks = 1 /\ out[p] = <<>> /\ n = 0 /\ p \notin busy
<1> DEFINE n == Count(in[p], Answers)
           one == conn[p].state = "synchronizing" /\ p \notin stuck
           k == conn[p].callbacks
           l == Len(out[p])
           b == IF p \in busy THEN 1 ELSE 0
<1>1. /\ conn[p] \in Contexts /\ out[p] \in Seq(Requests) /\ in[p] \in Seq(Replies)
      /\ batch[p] \in Seq(Block)
  BY DEF Types
<1>2. n \in Nat
  BY <1>1, CountType
<1>3. k \in 0..1 /\ l \in Nat /\ (l = 0 <=> out[p] = <<>>)
  BY <1>1 DEF Contexts
<1>4. k + l + n + b = IF one THEN 1 ELSE 0
  BY DEF Waiting, Pending, Answers
<1>5. b \in 0..1 /\ (b = 1 <=> p \in busy)
  OBVIOUS
<1> HIDE DEF n, one, k, l, b
<1>6. /\ ~one => k = 0 /\ l = 0 /\ n = 0 /\ b = 0
      /\ b = 1 => one /\ k = 0 /\ l = 0 /\ n = 0
      /\ l # 0 => one /\ k = 0 /\ l = 1 /\ n = 0 /\ b = 0
      /\ n # 0 => one /\ k = 0 /\ l = 0 /\ n = 1 /\ b = 0
      /\ k # 0 => one /\ k = 1 /\ l = 0 /\ n = 0 /\ b = 0
  BY <1>2, <1>3, <1>4, <1>5
<1>7. b = 0 <=> p \notin busy
  BY <1>5
<1> QED BY <1>1, <1>2, <1>3, <1>5, <1>6, <1>7, Zenon DEF n, one, k, l

\* What holds of a connection holds when nothing of it changes and more blocks are known.
LEMMA OthersKept ==
  ASSUME NEW q \in Peer, Link(q), Known \subseteq Known',
         conn'[q] = conn[q], batch'[q] = batch[q], out'[q] = out[q], in'[q] = in[q],
         seen'[q] = seen[q], q \in busy' <=> q \in busy, q \in stuck' <=> q \in stuck
  PROVE  Link(q)'
<1> USE Zenon
<1>1. Waiting(q)'
  BY DEF Link, Waiting, Pending, Asking, AskedObjects
<1>2. \A s : Follows(s, Known) => Follows(s, Known')
  BY FollowsMore
<1>3. Messages(q)'
  <2>1. ASSUME NEW m \in Range(out[q]) PROVE RequestOk(m, conn[q])'
    BY <1>2 DEF Link, Messages, RequestOk
  <2>2. ASSUME NEW m \in Range(in[q]) PROVE ReplyOk(m, conn[q])'
    BY <1>2 DEF Link, Messages, ReplyOk
  <2> QED BY <2>1, <2>2 DEF Messages
<1>4. Download(q)'
  <2>1. Follows(conn[q].needed, Known' \cup conn[q].requested \cup Range(batch[q]))
    BY FollowsWider DEF Link, Download
  <2>2. Asking(q)' <=> Asking(q)
    BY DEF Asking
  <2> QED BY <1>2, <2>1, <2>2 DEF Link, Download
<1> QED BY <1>1, <1>3, <1>4, SMT DEF Link

\* What is pending after a step that leaves at most one thing to wait for.
LEMMA PendingNext ==
  ASSUME NEW p
  PROVE  LET is(k, l, n) == conn'[p].callbacks = k /\ Len(out'[p]) = l /\ Count(in'[p], Answers) = n
         IN  /\ is(0, 0, 0) /\ p \notin busy' => Pending(p)' = 0
             /\ is(1, 0, 0) /\ p \notin busy' => Pending(p)' = 1 /\ Asking(p)'
             /\ is(0, 1, 0) /\ p \notin busy' => Pending(p)' = 1
             /\ is(0, 0, 1) /\ p \notin busy' => Pending(p)' = 1
             /\ is(0, 0, 0) /\ p \in busy' => Pending(p)' = 1
<1>1. Pending(p)' = conn'[p].callbacks + Len(out'[p]) + Count(in'[p], Answers)
                      + (IF p \in busy' THEN 1 ELSE 0)
  BY Zenon DEF Pending, Answers
<1>2. /\ 0 + 0 + 0 + 0 = 0 /\ 1 + 0 + 0 + 0 = 1 /\ 0 + 1 + 0 + 0 = 1
      /\ 0 + 0 + 1 + 0 = 1 /\ 0 + 0 + 0 + 1 = 1
  BY SMT
<1>3. conn'[p].callbacks = 1 => Asking(p)'
  BY DEF Asking
<1> QED BY <1>1, <1>2, <1>3, Zenon

\* A step changes what belongs to p, to these values, and leaves the rest in order.
Becomes(p, c, bt, o, i, sn) ==
  /\ c \in Contexts /\ bt \in Seq(Block) /\ o \in Seq(Requests) /\ i \in Seq(Replies) /\ sn \in Block
  /\ conn' = [conn EXCEPT ![p] = c] /\ batch' = [batch EXCEPT ![p] = bt]
  /\ out' = [out EXCEPT ![p] = o] /\ in' = [in EXCEPT ![p] = i]
  /\ seen' = [seen EXCEPT ![p] = sn]

Around(p) ==
  /\ busy' \subseteq Peer /\ busy' \ {p} = busy \ {p}
  /\ stuck' \subseteq Peer /\ stuck' \ {p} = stuck \ {p}
  /\ fails' \in [Peer -> 0..IpFails] /\ blocked' \subseteq Peer
  /\ peerTop' \in [Peer -> Block] /\ events' \in 0..MaxEvents
  /\ CoreOk' /\ Known \subseteq Known'

LEMMA Values ==
  ASSUME Types, NEW p \in Peer, NEW c, NEW bt, NEW o, NEW i, NEW sn, Becomes(p, c, bt, o, i, sn)
  PROVE  conn'[p] = c /\ batch'[p] = bt /\ out'[p] = o /\ in'[p] = i /\ seen'[p] = sn
BY DEF Types, Becomes

LEMMA ValuesOfOthers ==
  ASSUME Types, NEW p \in Peer, NEW c, NEW bt, NEW o, NEW i, NEW sn, Becomes(p, c, bt, o, i, sn)
  PROVE  /\ conn' \in [Peer -> Contexts] /\ batch' \in [Peer -> Seq(Block)]
         /\ out' \in [Peer -> Seq(Requests)] /\ in' \in [Peer -> Seq(Replies)]
         /\ seen' \in [Peer -> Block]
         /\ \A q \in Peer \ {p} : /\ conn'[q] = conn[q] /\ batch'[q] = batch[q] /\ out'[q] = out[q]
                                  /\ in'[q] = in[q] /\ seen'[q] = seen[q]
BY DEF Types, Becomes

LEMMA StepOf ==
  ASSUME IInv, NEW p \in Peer, Around(p), Link(p)',
         NEW c, NEW bt, NEW o, NEW i, NEW sn, Becomes(p, c, bt, o, i, sn)
  PROVE  IInv'
<1>1. Types
  BY DEF IInv
<1>2. Types'
  BY <1>1, ValuesOfOthers, Zenon DEF Types, Around
<1>3. ASSUME NEW q \in Peer, q # p PROVE Link(q)'
  <2>1. /\ conn'[q] = conn[q] /\ batch'[q] = batch[q] /\ out'[q] = out[q] /\ in'[q] = in[q]
        /\ seen'[q] = seen[q]
    BY <1>1, <1>3, ValuesOfOthers
  <2>2. (q \in busy' <=> q \in busy) /\ (q \in stuck' <=> q \in stuck) /\ Known \subseteq Known'
    BY <1>3, Zenon DEF Around
  <2>3. Link(q)
    BY DEF IInv
  <2> QED BY <2>1, <2>2, <2>3, OthersKept, Zenon
<1> QED BY <1>2, <1>3 DEF IInv, Around

----------------------------------------------------------------------------
(***************************************************************************)
(* drop_connection and request_missing_objects.                            *)
(***************************************************************************)
LEMMA DropStep ==
  ASSUME IInv, NEW p \in Peer, Drop(p),
         NEW sn \in Block, seen' = [seen EXCEPT ![p] = sn],
         fails' \in [Peer -> 0..IpFails], blocked' \subseteq Peer,
         peerTop' \in [Peer -> Block], events' \in 0..MaxEvents,
         CoreOk', Known \subseteq Known'
  PROVE  IInv'
<1>1. /\ conn' = [conn EXCEPT ![p] = Closed] /\ batch' = [batch EXCEPT ![p] = <<>>]
      /\ out' = [out EXCEPT ![p] = <<>>] /\ in' = [in EXCEPT ![p] = <<>>]
      /\ busy' = busy \ {p} /\ stuck' = stuck \ {p}
  BY Zenon DEF Drop
<1>2. /\ busy' \subseteq Peer /\ busy' \ {p} = busy \ {p}
      /\ stuck' \subseteq Peer /\ stuck' \ {p} = stuck \ {p}
      /\ p \notin busy' /\ p \notin stuck'
  BY <1>1, Zenon DEF IInv, Types
<1>3. Becomes(p, Closed, <<>>, <<>>, <<>>, sn) /\ Around(p)
  <2>1. <<>> \in Seq(Block) /\ <<>> \in Seq(Requests) /\ <<>> \in Seq(Replies)
    BY Empties, Zenon
  <2> QED BY <1>1, <1>2, <2>1, ContextOfClosed, Zenon DEF Becomes, Around
<1>4. conn'[p] = Closed /\ batch'[p] = <<>> /\ out'[p] = <<>> /\ in'[p] = <<>>
  BY <1>3, Values, Zenon DEF IInv
<1>5. Link(p)'
  <2>1. Pending(p)' = 0
    BY <1>2, <1>4, Empties, ContextOfClosed, PendingNext, Zenon
  <2>2. Waiting(p)'
    BY <1>2, <1>4, <2>1, ContextOfClosed, Zenon DEF Waiting
  <2>3. Messages(p)'
    BY <1>4, Empties, Zenon DEF Messages
  <2>4. Download(p)'
    BY <1>4, Empties, ContextOfClosed, Zenon DEF Download
  <2> QED BY <2>2, <2>3, <2>4, Zenon DEF Link
<1> QED BY <1>3, <1>5, StepOf, Zenon

\* The answers are dealt with and the ids that are needed follow the chain: the next
\* request goes out, or the connection is at its end.
LEMMA RequestStep ==
  ASSUME IInv, NEW p \in Peer, NEW c \in Contexts, NEW check,
         RequestMissingObjects(p, c, check),
         c.state = "synchronizing", c.callbacks = 0, c.requested = {},
         Follows(c.needed, Known),
         out[p] = <<>>, batch[p] = <<>>, p \notin stuck,
         NEW i \in Seq(Replies), in' = [in EXCEPT ![p] = i], Count(i, Answers) = 0,
         NEW sn \in Block, seen' = [seen EXCEPT ![p] = sn], sn \in Known \cup Range(c.needed),
         busy' = busy \ {p}, batch' = batch, UNCHANGED <<core, ips, world>>
  PROVE  IInv'
<1> USE Zenon
<1>1. Types /\ CoreOk
  BY DEF IInv
<1>2. /\ batch' = [batch EXCEPT ![p] = <<>>] /\ busy' \subseteq Peer /\ busy' \ {p} = busy \ {p}
      /\ p \notin busy'
      /\ fails' \in [Peer -> 0..IpFails] /\ blocked' \subseteq Peer
      /\ peerTop' \in [Peer -> Block] /\ events' \in 0..MaxEvents
  BY <1>1 DEF Types, ips, world
<1>3. CoreOk' /\ Known' = Known
  BY <1>1 DEF CoreOk, Known, Main, core
<1>4. \A m \in Range(i) : m.type \notin Answers
  BY CountType
<1>5. \A m \in Range(i) : ~(m.type = "chain_entry") /\ ~(m.type = "objects")
  BY <1>4 DEF Answers
<1>6. c.needed \in Seq(Block) /\ <<>> \in Seq(Block) /\ <<>> \in Seq(Requests)
  BY ContextFields, Empties
<1>7. top \in Block /\ MainOf[top] \subseteq Known
  BY <1>1 DEF CoreOk, Known, Main
<1>8. RequestChain \in Requests /\ RequestChain.type = "request_chain"
      /\ Genesis \in Range(RequestChain.ids) /\ Range(RequestChain.ids) \subseteq Known
  BY <1>7, ShortHistory DEF RequestChain
<1>9. /\ out \in [Peer -> Seq(Requests)] /\ conn \in [Peer -> Contexts] /\ stuck \subseteq Peer
      /\ seen'[p] = sn
  <2>1. /\ out \in [Peer -> Seq(Requests)] /\ conn \in [Peer -> Contexts] /\ stuck \subseteq Peer
        /\ seen \in [Peer -> Block]
    BY <1>1 DEF Types
  <2>2. [seen EXCEPT ![p] = sn][p] = sn
    BY <2>1
  <2> QED BY <2>1, <2>2
<1>10. CASE c.needed # <<>>
  <2> DEFINE S == IF check THEN Block \ Known ELSE Block
             d == Collect(c.needed, S, SyncSize)
             rest == SubSeq(c.needed, d.passed + 1, Len(c.needed))
  <2>1. SyncSize \in Nat
    BY SyncAssumption
  <2>2. \A j \in 1..Len(c.needed) : c.needed[j] \in S \/ c.needed[j] \in Known
    BY <1>6, ListOfBlocks
  <2>3. /\ d.ids \in Seq(Block) /\ rest \in Seq(Block)
        /\ Follows(d.ids, Known) /\ Follows(rest, Known \cup Range(d.ids))
        /\ Range(c.needed) \subseteq Known \cup Range(d.ids) \cup Range(rest)
    <3> HIDE DEF S
    <3> QED BY <1>6, <2>1, <2>2, CollectFollows
  <2>4. /\ out' = [out EXCEPT ![p] = Append(out[p], RequestObjects(d.ids))]
        /\ stuck' = stuck
        /\ conn' = [conn EXCEPT ![p] = [c EXCEPT !.needed = rest, !.requested = c.requested \cup Range(d.ids)]]
    BY <1>10 DEF RequestMissingObjects, Send
  <2> HIDE DEF d, rest
  <2>5. PICK m : m = RequestObjects(d.ids)
    BY Zenon
  <2>6. PICK c2 : c2 = [c EXCEPT !.needed = rest, !.requested = Range(d.ids)]
    OBVIOUS
  <2>7. m \in Requests /\ m.type = "request_objects" /\ m.ids = d.ids
    BY <2>3, <2>5, Zenon DEF RequestObjects, Requests
  <2>8. /\ c2 \in Contexts /\ c2.state = "synchronizing" /\ c2.callbacks = 0
        /\ c2.needed = rest /\ c2.requested = Range(d.ids)
    <3>1. Range(d.ids) \subseteq Block
      BY <2>3, ListOfBlocks
    <3> QED BY <2>3, <2>6, <3>1 DEF Contexts
  <2>9. out' = [out EXCEPT ![p] = <<m>>] /\ conn' = [conn EXCEPT ![p] = c2]
    <3>1. c.requested \cup Range(d.ids) = Range(d.ids)
      OBVIOUS
    <3> QED BY <2>4, <2>5, <2>6, <3>1, OneMessage
  <2>10. <<m>> \in Seq(Requests) /\ Range(<<m>>) = {m} /\ Len(<<m>>) = 1
    BY <2>7, OneMessage
  <2>11. Becomes(p, c2, <<>>, <<m>>, i, sn)
    BY <1>2, <1>6, <2>8, <2>9, <2>10 DEF Becomes
  <2>12. Around(p)
    BY <1>2, <1>3, <1>9, <2>4, Zenon DEF Around
  <2>13. conn'[p] = c2 /\ batch'[p] = <<>> /\ out'[p] = <<m>> /\ in'[p] = i /\ seen'[p] = sn
    <3>1. conn'[p] = c2 /\ batch'[p] = <<>> /\ out'[p] = <<m>> /\ in'[p] = i
      BY <1>1, <2>11, Values, Zenon
    <3> QED BY <1>9, <3>1, Zenon
  <2>14. Link(p)'
    <3> USE Zenon
    <3>1. Pending(p)' = 1
      BY <1>2, <2>8, <2>13, <2>10, PendingNext
    <3>2. ~Asking(p)'
      <4>1. m.type # "request_chain"
        BY <2>7
      <4>2. c2.callbacks = 0
        BY <2>8
      <4> QED BY <1>5, <2>13, <2>10, <4>1, <4>2 DEF Asking
    <3>3. AskedObjects(p)'
      BY <2>7, <2>13, <2>10 DEF AskedObjects
    <3>4. Waiting(p)'
      BY <1>2, <2>4, <2>8, <2>13, <3>1, <3>2, <3>3, Zenon DEF Waiting
    <3>5. Messages(p)'
      <4>1. RequestOk(m, c2)'
        BY <1>3, <2>3, <2>7, <2>8 DEF RequestOk
      <4>2. \A x \in Range(i) : ReplyOk(x, c2)'
        BY <1>5 DEF ReplyOk
      <4> QED BY <2>13, <2>10, <4>1, <4>2 DEF Messages
    <3>6. Download(p)'
      <4>1. Known' \cup c2.requested \cup Range(<<>>) = Known \cup Range(d.ids)
        BY <1>3, <2>8, Empties
      <4>2. sn \in Known' \cup c2.requested \cup Range(<<>>) \cup Range(c2.needed)
        BY <2>3, <2>8, <4>1
      <4> QED BY <2>3, <2>8, <2>13, <4>1, <4>2, Empties DEF Download
    <3> QED BY <3>4, <3>5, <3>6 DEF Link
  <2> QED BY <2>11, <2>12, <2>14, StepOf, Zenon
<1>11. CASE c.needed = <<>> /\ MoreIds(c)
  <2> USE Zenon
  <2>1. PICK m : m = RequestChain
    BY Zenon
  <2>2. /\ out' = [out EXCEPT ![p] = <<m>>] /\ stuck' = stuck
        /\ conn' = [conn EXCEPT ![p] = c]
    BY <1>11, <2>1, OneMessage DEF RequestMissingObjects, Send
  <2>3. <<m>> \in Seq(Requests) /\ Range(<<m>>) = {m} /\ Len(<<m>>) = 1
    BY <1>8, <2>1, OneMessage, Zenon
  <2>4. Becomes(p, c, <<>>, <<m>>, i, sn)
    BY <1>2, <1>6, <2>2, <2>3 DEF Becomes
  <2>5. Around(p)
    BY <1>2, <1>3, <1>9, <2>2 DEF Around
  <2>6. conn'[p] = c /\ batch'[p] = <<>> /\ out'[p] = <<m>> /\ in'[p] = i
    BY <1>1, <2>4, Values
  <2>7. Link(p)'
    <3>1. Pending(p)' = 1
      BY <1>2, <2>6, <2>3, PendingNext
    <3>2. Asking(p)'
      BY <1>8, <2>6, <2>1, <2>3 DEF Asking
    <3>3. Waiting(p)'
      BY <1>2, <1>11, <2>2, <2>6, <3>1 DEF Waiting
    <3>4. Messages(p)'
      <4>1. RequestOk(m, c)'
        BY <1>3, <1>8, <2>1 DEF RequestOk
      <4>2. \A x \in Range(i) : ReplyOk(x, c)'
        BY <1>5 DEF ReplyOk
      <4> QED BY <2>6, <2>3, <4>1, <4>2 DEF Messages
    <3>5. Download(p)'
      BY <1>11, <2>6, <3>2, Empties DEF Download
    <3> QED BY <3>3, <3>4, <3>5 DEF Link
  <2> QED BY <2>4, <2>5, <2>7, StepOf
<1>12. CASE c.needed = <<>> /\ ~MoreIds(c)
  <2>1. out' = [out EXCEPT ![p] = <<>>] /\ sn \in Known
    BY <1>9, <1>12, Empties, Zenon DEF RequestMissingObjects
  <2>2. PICK x : conn' = [conn EXCEPT ![p] = x]
                 /\ \/ x = [c EXCEPT !.state = "normal"] /\ stuck' = stuck
                    \/ x = c /\ stuck' = stuck \cup {p}
    BY <1>12 DEF RequestMissingObjects
  <2>3. /\ x \in Contexts /\ x.needed = <<>> /\ x.requested = {} /\ x.callbacks = 0
        /\ \/ x.state = "normal" /\ p \notin stuck'
           \/ x.state = "synchronizing" /\ p \in stuck'
    BY <1>12, <2>2, ContextFields
  <2>4. stuck' \subseteq Peer /\ stuck' \ {p} = stuck \ {p}
    BY <1>9, <2>2
  <2>5. Becomes(p, x, <<>>, <<>>, i, sn)
    BY <1>2, <1>6, <2>1, <2>2, <2>3 DEF Becomes
  <2>6. Around(p)
    BY <1>2, <1>3, <2>4 DEF Around
  <2>7. conn'[p] = x /\ batch'[p] = <<>> /\ out'[p] = <<>> /\ in'[p] = i /\ seen'[p] = sn
    <3>1. conn'[p] = x /\ batch'[p] = <<>> /\ out'[p] = <<>> /\ in'[p] = i
      BY <1>1, <2>5, Values, Zenon
    <3> QED BY <1>9, <3>1, Zenon
  <2>8. Link(p)'
    <3>1. Pending(p)' = 0
      BY <1>2, <2>3, <2>7, Empties, PendingNext
    <3>2. Waiting(p)'
      BY <1>2, <2>3, <2>7, <3>1 DEF Waiting
    <3>3. Messages(p)'
      <4> USE Zenon
      <4>1. \A y \in Range(i) : ReplyOk(y, x)'
        BY <1>5 DEF ReplyOk
      <4> QED BY <2>7, <4>1, Empties DEF Messages
    <3>4. Download(p)'
      <4>1. sn \in Known' /\ seen'[p] = sn
        BY <1>3, <2>1, <2>7, Zenon
      <4>2. conn'[p].needed = <<>> /\ batch'[p] = <<>>
        BY <2>3, <2>7, Zenon
      <4> QED BY <4>1, <4>2, Empties, Zenon DEF Download
    <3> QED BY <3>2, <3>3, <3>4 DEF Link
  <2> QED BY <2>5, <2>6, <2>8, StepOf
<1> QED BY <1>10, <1>11, <1>12 DEF RequestMissingObjects

----------------------------------------------------------------------------
(***************************************************************************)
(* The steps of the peers and the network.                                 *)
(***************************************************************************)
LEMMA Same ==
  ASSUME Types, NEW p \in Peer
  PROVE  /\ conn = [conn EXCEPT ![p] = conn[p]] /\ batch = [batch EXCEPT ![p] = batch[p]]
         /\ out = [out EXCEPT ![p] = out[p]] /\ in = [in EXCEPT ![p] = in[p]]
         /\ seen = [seen EXCEPT ![p] = seen[p]]
         /\ conn[p] \in Contexts /\ batch[p] \in Seq(Block) /\ out[p] \in Seq(Requests)
         /\ in[p] \in Seq(Replies) /\ seen[p] \in Block /\ peerTop[p] \in Block
BY Zenon DEF Types

LEMMA CoreSame ==
  ASSUME CoreOk, UNCHANGED core
  PROVE  CoreOk' /\ Known' = Known
BY Zenon DEF CoreOk, Known, Main, core

LEMMA NoChange ==
  ASSUME IInv, UNCHANGED <<core, links, seen>>,
         fails' \in [Peer -> 0..IpFails], blocked' \subseteq Peer,
         peerTop' \in [Peer -> Block], events' \in 0..MaxEvents
  PROVE  IInv'
<1>1. Types /\ CoreOk /\ \A q \in Peer : Link(q)
  BY Zenon DEF IInv
<1>2. CoreOk' /\ Known' = Known
  BY <1>1, CoreSame, Zenon
<1>3. /\ conn' = conn /\ busy' = busy /\ batch' = batch /\ out' = out /\ in' = in /\ stuck' = stuck
      /\ seen' = seen
  BY Zenon DEF links
<1>4. Types'
  BY <1>1, <1>3, Zenon DEF Types
<1>5. ASSUME NEW q \in Peer PROVE Link(q)'
  BY <1>1, <1>2, <1>3, OthersKept, Zenon
<1> QED BY <1>2, <1>4, <1>5, Zenon DEF IInv

\* A message that is no answer arrives at the end of the channel.
LEMMA Arrives ==
  ASSUME IInv, NEW p \in Peer, Open(p),
         NEW m \in Replies, m.type \notin Answers, in' = [in EXCEPT ![p] = Append(in[p], m)],
         UNCHANGED <<core, conn, busy, batch, out, stuck, ips, seen>>,
         peerTop' \in [Peer -> Block], events' \in 0..MaxEvents
  PROVE  IInv'
<1>1. Types /\ CoreOk /\ Link(p)
  BY Zenon DEF IInv
<1> USE <1>1
<1>2. CoreOk' /\ Known' = Known
  BY CoreSame, Zenon
<1> USE <1>2
<1> DEFINE i == Append(in[p], m)
<1>3. i \in Seq(Replies) /\ Range(i) = Range(in[p]) \cup {m} /\ Count(i, Answers) = Count(in[p], Answers)
  BY Same, OneMore, Zenon
<1> USE <1>3
<1> HIDE DEF i
<1>4. m.type # "chain_entry" /\ m.type # "objects"
  BY Zenon DEF Answers
<1>5. PICK c, bt, o, j, sn : c = conn[p] /\ bt = batch[p] /\ o = out[p] /\ j = i /\ sn = seen[p]
  BY Zenon
<1> USE <1>5
<1>6. Becomes(p, c, bt, o, j, sn)
  BY Same, Zenon DEF i, Becomes
<1>7. Around(p)
  BY Zenon DEF Types, ips, Around
<1>8. conn'[p] = conn[p] /\ batch'[p] = batch[p] /\ out'[p] = out[p] /\ in'[p] = j /\ seen'[p] = seen[p]
  BY <1>6, Values, Zenon
<1> USE <1>8
<1>9. Link(p)'
  <2> USE Zenon
  <2>1. (Asking(p)' <=> Asking(p)) /\ (AskedObjects(p)' <=> AskedObjects(p))
    BY <1>4 DEF Asking, AskedObjects
  <2>2. Pending(p)' = Pending(p)
    BY DEF Pending, Answers
  <2>3. Waiting(p)'
    BY <2>1, <2>2 DEF Waiting, Link, Open
  <2>4. Messages(p)'
    <3>1. \A x \in Range(in[p]) : ReplyOk(x, conn[p])'
      BY DEF Link, Messages, ReplyOk
    <3>2. \A x \in Range(out[p]) : RequestOk(x, conn[p])'
      BY DEF Link, Messages, RequestOk
    <3>3. ReplyOk(m, conn[p])'
      BY <1>4 DEF ReplyOk
    <3> QED BY <3>1, <3>2, <3>3 DEF Messages
  <2>5. Download(p)'
    BY <2>1 DEF Link, Download
  <2> QED BY <2>3, <2>4, <2>5, Zenon DEF Link
<1> QED BY <1>6, <1>7, <1>9, StepOf, Zenon

LEMMA TimedSyncStep ==
  ASSUME IInv, NEW p \in Peer, TimedSync(p)
  PROVE  IInv'
<1>1. Types
  BY Zenon DEF IInv
<1>2. peerTop[p] \in Block
  BY <1>1, Same, Zenon
<1>3. SyncData(peerTop[p]) \in Replies /\ SyncData(peerTop[p]).type \notin Answers
  BY <1>2, ChainOfBlock, Zenon DEF SyncData, Height, Replies, Answers
<1>4. Open(p)
  BY Zenon DEF TimedSync, Open
<1>5. peerTop' \in [Peer -> Block] /\ events' \in 0..MaxEvents
  BY <1>1, Zenon DEF TimedSync, world, Types
<1>6. PICK m : m = SyncData(peerTop[p])
  BY Zenon
<1>7. in' = [in EXCEPT ![p] = Append(in[p], m)]
  BY <1>6, Zenon DEF TimedSync
<1> QED BY <1>3, <1>4, <1>5, <1>6, <1>7, Arrives, Zenon DEF TimedSync

LEMMA PeerAdvanceStep ==
  ASSUME IInv, NEW p \in Peer, NEW b \in Block, NEW relay \in BOOLEAN, PeerAdvance(p, b, relay)
  PROVE  IInv'
<1>1. Types
  BY Zenon DEF IInv
<1>3. /\ peerTop' \in [Peer -> Block] /\ events' \in 0..MaxEvents
      /\ fails' \in [Peer -> 0..IpFails] /\ blocked' \subseteq Peer
  BY <1>1, Bounds, Zenon DEF PeerAdvance, Types, ips
<1>4. CASE relay /\ Open(p)
  <2>1. PICK m : m = NewBlock(b)
    BY Zenon
  <2>2. m \in Replies /\ m.type \notin Answers
    BY <2>1, Zenon DEF NewBlock, Replies, Answers
  <2>3. in' = [in EXCEPT ![p] = Append(in[p], m)]
    BY <1>4, <2>1, Zenon DEF PeerAdvance
  <2> QED BY <1>3, <1>4, <2>2, <2>3, Arrives, Zenon DEF PeerAdvance
<1>5. CASE ~(relay /\ Open(p))
  <2>1. UNCHANGED <<core, links, seen>>
    BY <1>5, Zenon DEF PeerAdvance, links
  <2> QED BY <1>3, <2>1, NoChange, Zenon
<1> QED BY <1>4, <1>5, Zenon

LEMMA DisconnectStep ==
  ASSUME IInv, NEW p \in Peer, Disconnect(p)
  PROVE  IInv'
<1>1. Types /\ CoreOk
  BY Zenon DEF IInv
<1>3. /\ peerTop' \in [Peer -> Block] /\ events' \in 0..MaxEvents
      /\ fails' \in [Peer -> 0..IpFails] /\ blocked' \subseteq Peer
  BY <1>1, Bounds, Zenon DEF Disconnect, Types, ips
<1>4. Drop(p) /\ UNCHANGED core /\ seen' = [seen EXCEPT ![p] = seen[p]] /\ seen[p] \in Block
  BY <1>1, Same, Zenon DEF Disconnect
<1>5. CoreOk' /\ Known' = Known
  BY <1>1, <1>4, CoreSame, Zenon
<1> QED BY <1>3, <1>4, <1>5, DropStep, Zenon

LEMMA UnblockStep ==
  ASSUME IInv, NEW p \in Peer, Unblock(p)
  PROVE  IInv'
<1>1. Types
  BY DEF IInv
<1>2. /\ peerTop' \in [Peer -> Block] /\ events' \in 0..MaxEvents
      /\ fails' \in [Peer -> 0..IpFails] /\ blocked' \subseteq Peer
  BY <1>1, Zenon DEF Unblock, Types, world
<1> QED BY <1>2, NoChange, Zenon DEF Unblock

----------------------------------------------------------------------------
(***************************************************************************)
(* The steps that wait for nothing more, or for one thing anew.            *)
(***************************************************************************)
\* A connection at rest has nothing under way.
LEMMA AtRest ==
  ASSUME Types, NEW p \in Peer, Link(p), conn[p].state # "synchronizing"
  PROVE  /\ out[p] = <<>> /\ batch[p] = <<>> /\ Count(in[p], Answers) = 0
         /\ p \notin busy /\ p \notin stuck
         /\ conn[p].callbacks = 0 /\ conn[p].needed = <<>> /\ conn[p].requested = {}
<1>1. Waiting(p)
  BY Zenon DEF Link
<1> QED BY <1>1, Alone, Zenon DEF Waiting

LEMMA Popped ==
  ASSUME Types, NEW p \in Peer, in[p] # <<>>
  PROVE  LET m == Head(in[p])
             i == Tail(in[p])
         IN  /\ m \in Replies /\ i \in Seq(Replies) /\ Range(in[p]) = Range(i) \cup {m}
             /\ Count(in[p], Answers) \in Nat /\ Count(i, Answers) \in Nat
             /\ m.type \notin Answers => Count(i, Answers) = Count(in[p], Answers)
             /\ m.type \in Answers => Count(in[p], Answers) # 0
             /\ m.type \in Answers /\ Count(in[p], Answers) = 1 => Count(i, Answers) = 0
BY Same, OneLess, Zenon

\* After the step the connection is at rest, or waits for a callback, or for the ids of
\* the peer's chain.
LEMMA Begins ==
  ASSUME IInv, NEW p \in Peer, NEW c, NEW o, NEW i, NEW sn, Becomes(p, c, <<>>, o, i, sn), Around(p),
         p \notin busy', p \notin stuck', Count(i, Answers) = 0, c.needed = <<>>, c.requested = {},
         \/ /\ c.state \in {"normal", "idle"} /\ c.callbacks = 0 /\ o = <<>>
            /\ c.state = "normal" => sn \in Known'
         \/ c.state = "synchronizing" /\ c.callbacks = 1 /\ o = <<>>
         \/ /\ c.state = "synchronizing" /\ c.callbacks = 0
            /\ \E b \in Block : /\ o = <<[type |-> "request_chain", ids |-> Backwards(Path[b])]>>
                                /\ MainOf[b] \subseteq Known'
  PROVE  IInv'
<1> USE Zenon
<1>1. /\ conn'[p] = c /\ batch'[p] = <<>> /\ out'[p] = o /\ in'[p] = i /\ seen'[p] = sn
  BY Values, SMT DEF IInv
<1> USE <1>1
<1>2. i \in Seq(Replies)
  BY DEF Becomes
<1>3. \A m \in Range(i) : m.type \notin Answers
  BY <1>2, CountType
<1>4. \A m \in Range(i) : ~(m.type = "chain_entry") /\ ~(m.type = "objects")
  BY <1>3 DEF Answers
<1>5. \A x \in Range(i) : ReplyOk(x, c)'
  BY <1>4 DEF ReplyOk
<1>6. CASE /\ c.state \in {"normal", "idle"} /\ c.callbacks = 0 /\ o = <<>>
           /\ c.state = "normal" => sn \in Known'
  <2> USE <1>6
  <2>1. Pending(p)' = 0
    BY Empties, PendingNext
  <2>2. Waiting(p)'
    BY <2>1 DEF Waiting
  <2>3. Messages(p)'
    BY <1>5, Empties DEF Messages
  <2>4. Download(p)'
    BY Empties DEF Download
  <2>5. Link(p)'
    BY <2>2, <2>3, <2>4 DEF Link
  <2> QED BY <2>5, StepOf
<1>7. CASE c.state = "synchronizing" /\ c.callbacks = 1 /\ o = <<>>
  <2> USE <1>7
  <2>1. Pending(p)' = 1 /\ Asking(p)'
    BY Empties, PendingNext
  <2>2. Waiting(p)'
    BY <2>1 DEF Waiting
  <2>3. Messages(p)'
    BY <1>5, Empties DEF Messages
  <2>5. Download(p)'
    BY <2>1, Empties DEF Download
  <2>6. Link(p)'
    BY <2>2, <2>3, <2>5 DEF Link
  <2> QED BY <2>6, StepOf
<1>8. ASSUME c.state = "synchronizing", c.callbacks = 0,
             NEW b \in Block, o = <<[type |-> "request_chain", ids |-> Backwards(Path[b])]>>,
             MainOf[b] \subseteq Known'
      PROVE  IInv'
  <2> USE <1>8
  <2>1. PICK m : m = [type |-> "request_chain", ids |-> Backwards(Path[b])]
    OBVIOUS
  <2>2. m.type = "request_chain" /\ Range(m.ids) = MainOf[b] /\ Genesis \in Range(m.ids)
    BY <2>1, ShortHistory
  <2>3. o = <<m>> /\ Range(o) = {m} /\ Len(o) = 1
    BY <2>1, OneMessage
  <2>4. Pending(p)' = 1
    BY <2>3, PendingNext
  <2>5. Asking(p)'
    BY <2>2, <2>3 DEF Asking
  <2>6. Waiting(p)'
    BY <2>4 DEF Waiting
  <2>7. RequestOk(m, c)'
    BY <2>2 DEF RequestOk
  <2>8. Messages(p)'
    BY <1>5, <2>3, <2>7 DEF Messages
  <2>9. Download(p)'
    BY <2>5, Empties DEF Download
  <2>10. Link(p)'
    BY <2>6, <2>8, <2>9 DEF Link
  <2> QED BY <2>10, StepOf
<1> QED BY <1>6, <1>7, <1>8

\* What process_payload_sync_data makes of a context with nothing under way.
LEMMA HandshakeStep ==
  ASSUME IInv, NEW p \in Peer, Handshake(p)
  PROVE  IInv'
<1>1. Types /\ CoreOk /\ Link(p) /\ conn[p].state # "synchronizing"
  BY Zenon DEF IInv, Handshake, Open
<1> USE <1>1
<1>2. /\ out[p] = <<>> /\ batch[p] = <<>> /\ Count(in[p], Answers) = 0 /\ p \notin busy /\ p \notin stuck
  BY AtRest, Zenon
<1>3. peerTop[p] \in Block /\ Height(peerTop[p]) \in Nat
  BY Same, ChainOfBlock, Zenon DEF Height
<1>4. CoreOk' /\ Known' = Known
  BY CoreSame, Zenon DEF Handshake
<1>5. PICK c, i, sn : /\ c = ProcessPayloadSyncData(NewContext, peerTop[p], Height(peerTop[p]), TRUE)
                      /\ i = in[p] /\ sn = peerTop[p]
  BY Zenon
<1>6. /\ c \in Contexts /\ c.needed = <<>> /\ c.requested = {}
      /\ \/ c.state = "normal" /\ c.callbacks = 0 /\ sn \in Known
         \/ c.state = "synchronizing" /\ c.callbacks = 1
  <2>1. /\ NewContext \in Looked /\ NewContext.needed = <<>> /\ NewContext.requested = {}
        /\ NewContext.callbacks = 0 /\ NewContext.state = "befor_handshake"
    BY ContextOfClosed, Zenon DEF NewContext, Contexts, Looked
  <2>2. PICK h \in Nat : h = Height(peerTop[p])
    BY <1>3, Zenon
  <2>3. c = IF sn \in Known THEN Settled(NewContext) ELSE Started(NewContext, h)
    BY <1>5, <2>1, <2>2, Zenon DEF ProcessPayloadSyncData, Ignored, HaveBlock, Settled, Started
  <2> QED BY <2>1, <2>2, <2>3, LooksAt, Zenon
<1>7. Becomes(p, c, <<>>, <<>>, i, sn)
  <2>1. <<>> \in Seq(Block) /\ <<>> \in Seq(Requests)
    BY Empties, Zenon
  <2> QED BY <1>2, <1>3, <1>5, <1>6, <2>1, Same, Zenon DEF Becomes, Handshake
<1>8. Around(p) /\ p \notin busy' /\ p \notin stuck'
  BY <1>2, <1>4, Zenon DEF Around, Handshake, Types, ips, world
<1> QED BY <1>2, <1>4, <1>5, <1>6, <1>7, <1>8, Begins, Zenon

\* A message that is no answer is taken from the channel, with no effect on the connection.
LEMMA Passes ==
  ASSUME IInv, NEW p \in Peer, Around(p), in[p] # <<>>, Head(in[p]).type \notin Answers, Open(p),
         Receive(p), UNCHANGED <<conn, busy, batch, out, stuck, seen>>
  PROVE  IInv'
<1> USE Zenon
<1>1. Types /\ Waiting(p) /\ Messages(p) /\ Download(p) /\ Known \subseteq Known'
  BY DEF IInv, Link, Around
<1> USE <1>1
<1>2. PICK c, bt, o, i, sn : /\ c = conn[p] /\ bt = batch[p] /\ o = out[p] /\ i = Tail(in[p])
                             /\ sn = seen[p]
  OBVIOUS
<1> USE <1>2
<1>3. PICK m : m = Head(in[p])
  OBVIOUS
<1>4. /\ i \in Seq(Replies) /\ Range(in[p]) = Range(i) \cup {m}
      /\ Count(i, Answers) = Count(in[p], Answers)
  <2>1. m.type \notin Answers
    BY <1>3
  <2> QED BY <1>3, <2>1, Popped
<1> USE <1>4
<1>5. Becomes(p, c, bt, o, i, sn)
  BY Same DEF Becomes, Receive
<1>6. conn'[p] = conn[p] /\ batch'[p] = batch[p] /\ out'[p] = out[p] /\ in'[p] = i /\ seen'[p] = seen[p]
  BY <1>5, Values
<1> USE <1>6
<1>7. m.type # "chain_entry" /\ m.type # "objects"
  BY <1>3 DEF Answers
<1>8. (Asking(p)' <=> Asking(p)) /\ (AskedObjects(p)' <=> AskedObjects(p))
  BY <1>7 DEF Asking, AskedObjects
<1>9. Pending(p)' = Pending(p)
  BY DEF Pending, Answers
<1>10. Waiting(p)'
  BY <1>8, <1>9 DEF Waiting, Open
<1>11. \A s : Follows(s, Known) => Follows(s, Known')
  BY FollowsMore
<1>12. Messages(p)'
  <2>1. ASSUME NEW x \in Range(out[p]) PROVE RequestOk(x, c)'
    BY <1>11 DEF Messages, RequestOk
  <2>2. ASSUME NEW x \in Range(i) PROVE ReplyOk(x, c)'
    BY <1>11 DEF Messages, ReplyOk
  <2> QED BY <2>1, <2>2 DEF Messages
<1>13. Download(p)'
  <2>1. Follows(conn[p].needed, Known' \cup conn[p].requested \cup Range(batch[p]))
    BY FollowsWider DEF Download
  <2> QED BY <1>8, <1>11, <2>1 DEF Download
<1>14. Link(p)'
  BY <1>10, <1>12, <1>13, Zenon DEF Link
<1> QED BY <1>5, <1>14, StepOf

LEMMA ReceiveSyncStep ==
  ASSUME IInv, NEW p \in Peer, ReceiveSync(p)
  PROVE  IInv'
<1> USE Zenon
<1>1. Types /\ CoreOk /\ Link(p) /\ Waiting(p)
  BY DEF IInv, Link
<1> USE <1>1
<1>2. CoreOk' /\ Known' = Known
  BY CoreSame DEF ReceiveSync
<1>3. in[p] # <<>> /\ Head(in[p]).type = "sync" /\ p \notin busy /\ conn[p].state # "closed"
  BY Zenon DEF ReceiveSync, NextIn, Open
<1> USE <1>3
<1>4. PICK m, i, c : m = Head(in[p]) /\ i = Tail(in[p]) /\ c = conn[p]
  OBVIOUS
<1> USE <1>4
<1>5. /\ m \in Replies /\ i \in Seq(Replies) /\ Range(in[p]) = Range(i) \cup {m}
      /\ Count(i, Answers) = Count(in[p], Answers)
  <2>1. m.type \notin Answers
    BY DEF Answers
  <2> QED BY <2>1, Popped
<1>6. m.id \in Block /\ m.height \in Nat
  BY <1>5 DEF Replies
<1>7. /\ in' = [in EXCEPT ![p] = i] /\ batch' = batch /\ out' = out
      /\ conn' = [conn EXCEPT ![p] = ProcessPayloadSyncData(c, m.id, m.height, FALSE)]
      /\ seen' = [seen EXCEPT ![p] = IF Ignored(c, FALSE) THEN seen[p] ELSE m.id]
  BY DEF ReceiveSync, Receive
<1>8. Around(p) /\ p \notin busy' /\ (p \in stuck' <=> p \in stuck)
  BY <1>2 DEF Around, ReceiveSync, Types, ips, world
<1>9. c \in Contexts
  BY Same, Zenon
<1>10. CASE c.state = "synchronizing"
  <2>1. Ignored(c, FALSE)
    BY <1>10 DEF Ignored
  <2>2. conn' = conn /\ seen' = seen
    BY <1>7, <2>1, Same DEF ProcessPayloadSyncData
  <2>3. Head(in[p]).type \notin Answers
    BY Zenon DEF Answers
  <2>4. Open(p) /\ Receive(p) /\ UNCHANGED <<conn, busy, batch, out, stuck, seen>>
    BY <2>2 DEF ReceiveSync, NextIn
  <2> QED BY <1>8, <2>3, <2>4, Passes
<1>11. CASE c.state # "synchronizing"
  <2>1. /\ out[p] = <<>> /\ batch[p] = <<>> /\ Count(in[p], Answers) = 0 /\ p \notin stuck
        /\ c.callbacks = 0 /\ c.needed = <<>> /\ c.requested = {}
    BY <1>11, AtRest
  <2>2. c \in Looked /\ ~Ignored(c, FALSE)
    BY <1>9, <1>11, Zenon DEF Contexts, Looked, Ignored
  <2>3. PICK d : d = ProcessPayloadSyncData(c, m.id, m.height, FALSE)
    OBVIOUS
  <2>4. /\ d \in Contexts /\ d.needed = <<>> /\ d.requested = {}
        /\ \/ d.state = "normal" /\ d.callbacks = 0 /\ m.id \in Known
           \/ d.state = "synchronizing" /\ d.callbacks = 1
    <3>1. d = IF m.id \in Known THEN Settled(c) ELSE Started(c, m.height)
      BY <2>2, <2>3, Zenon DEF ProcessPayloadSyncData, HaveBlock, Settled, Started
    <3> QED BY <1>6, <2>1, <2>2, <3>1, LooksAt
  <2>5. PICK sn : sn = m.id
    BY Zenon
  <2>6. Becomes(p, d, <<>>, <<>>, i, sn)
    <3>1. <<>> \in Seq(Block) /\ <<>> \in Seq(Requests)
      BY Empties, Zenon
    <3> QED BY <1>5, <1>6, <1>7, <2>1, <2>2, <2>3, <2>4, <2>5, <3>1, Same DEF Becomes
  <2> QED BY <1>2, <1>5, <1>8, <2>1, <2>4, <2>5, <2>6, Begins
<1> QED BY <1>10, <1>11, Zenon

LEMMA OnCallbackStep ==
  ASSUME IInv, NEW p \in Peer, OnCallback(p)
  PROVE  IInv'
<1>1. Types /\ CoreOk /\ Link(p) /\ Waiting(p)
  BY Zenon DEF IInv, Link
<1> USE <1>1
<1>2. CoreOk' /\ Known' = Known
  BY CoreSame, Zenon DEF OnCallback
<1>3. PICK c, i, sn, b : /\ c = [conn[p] EXCEPT !.callbacks = conn[p].callbacks - 1]
                         /\ i = in[p] /\ sn = seen[p] /\ b = top
  BY Zenon
<1> USE <1>3
<1>4. /\ c \in Contexts /\ c.state = conn[p].state /\ c.callbacks = 0
      /\ c.needed = conn[p].needed /\ c.requested = conn[p].requested /\ conn[p].callbacks # 0
  BY Same, ContextFields, Zenon DEF OnCallback
<1>5. /\ conn[p].state = "synchronizing" /\ p \notin stuck /\ out[p] = <<>>
      /\ Count(in[p], Answers) = 0 /\ p \notin busy
  BY <1>4, Alone, Zenon
<1> USE <1>5
<1>6. conn[p].needed = <<>> /\ conn[p].requested = {} /\ batch[p] = <<>>
  BY <1>4, Zenon DEF Waiting, Asking
<1>7. /\ c \in Contexts /\ c.state = "synchronizing" /\ c.callbacks = 0
      /\ c.needed = <<>> /\ c.requested = {}
  BY <1>4, <1>6, Zenon
<1>8. conn' = [conn EXCEPT ![p] = c]
  BY Zenon DEF OnCallback
<1>9. b \in Block /\ MainOf[b] \subseteq Known'
  BY <1>2, Zenon DEF CoreOk, Known, Main
<1>10. PICK m : m = [type |-> "request_chain", ids |-> Backwards(Path[b])]
  BY Zenon
<1>11. m \in Requests
  BY <1>9, <1>10, ShortHistory, Zenon
<1>12. out' = [out EXCEPT ![p] = <<m>>] /\ <<m>> \in Seq(Requests)
  BY <1>10, <1>11, OneMessage, Zenon DEF OnCallback, Send, RequestChain
<1>13. Becomes(p, c, <<>>, <<m>>, i, sn)
  <2>1. batch' = batch /\ in' = in /\ seen' = seen
    BY Zenon DEF OnCallback
  <2>2. <<>> \in Seq(Block)
    BY Empties, Zenon
  <2> QED BY <1>6, <1>7, <1>8, <1>12, <2>1, <2>2, Same, Zenon DEF Becomes
<1>14. Around(p) /\ p \notin busy' /\ p \notin stuck'
  BY <1>2, Zenon DEF Around, OnCallback, Types, ips, world
<1>15. Count(i, Answers) = 0
  BY Zenon
<1> QED BY <1>7, <1>9, <1>10, <1>13, <1>14, <1>15, Begins, Zenon

----------------------------------------------------------------------------
(***************************************************************************)
(* The peer's answers.                                                     *)
(***************************************************************************)
LEMMA AnswerStep ==
  ASSUME IInv, NEW p \in Peer, Answer(p)
  PROVE  IInv'
<1>1. Types /\ CoreOk /\ Link(p) /\ Waiting(p) /\ Messages(p) /\ Download(p)
  BY Zenon DEF IInv, Link
<1> USE <1>1
<1>2. CoreOk' /\ Known' = Known /\ Genesis \in Known
  <2>1. CoreOk' /\ Known' = Known
    BY CoreSame, Zenon DEF Answer
  <2>2. top \in Block /\ MainOf[top] \subseteq Known
    BY Zenon DEF CoreOk, Known, Main
  <2> QED BY <2>1, <2>2, ChainOfBlock, Zenon
<1>3. /\ conn[p].state = "synchronizing" /\ p \notin stuck /\ conn[p].callbacks = 0
      /\ Len(out[p]) = 1 /\ Count(in[p], Answers) = 0 /\ p \notin busy
      /\ out[p] \in Seq(Requests) /\ in[p] \in Seq(Replies) /\ conn[p] \in Contexts
  BY Alone, Zenon DEF Answer
<1>4. PICK q : q = out[p][1]
  BY Zenon
<1>5. q \in Requests /\ Head(out[p]) = q /\ Range(out[p]) = {q} /\ Tail(out[p]) = <<>>
  BY <1>3, <1>4, OneLong, Zenon
<1>6. \A m \in Range(in[p]) : m.type # "chain_entry" /\ m.type # "objects"
  <2>1. \A m \in Range(in[p]) : m.type \notin Answers
    BY <1>3, CountType, Zenon
  <2> QED BY <2>1, Zenon DEF Answers
<1>7. batch[p] = <<>> /\ peerTop[p] \in Block
  BY <1>3, Same, Zenon DEF Waiting
<1>8. PICK r : r = IF q.type = "request_chain" THEN ChainEntry(p, q.ids) ELSE Objects(p, q.ids)
  BY Zenon
<1>9. PICK c, i, sn : c = conn[p] /\ i = Append(in[p], r) /\ sn = seen[p]
  BY Zenon
<1> USE <1>9
<1>10. q.ids \in Seq(Block) /\ RequestOk(q, c)
  BY <1>5, Zenon DEF Requests, Messages
<1>11. Around(p) /\ p \notin busy' /\ p \notin stuck'
  BY <1>2, <1>3, Zenon DEF Around, Answer, Types, ips, world
<1>12. ASSUME r \in Replies, r.type \in Answers
       PROVE  /\ Becomes(p, c, <<>>, <<>>, i, sn) /\ Range(i) = Range(in[p]) \cup {r}
              /\ conn'[p] = c /\ batch'[p] = <<>> /\ out'[p] = <<>> /\ in'[p] = i /\ seen'[p] = sn
              /\ Pending(p)' = 1
  <2>1. /\ Append(in[p], r) \in Seq(Replies) /\ Range(Append(in[p], r)) = Range(in[p]) \cup {r}
        /\ Count(Append(in[p], r), Answers) = 1
    BY <1>3, <1>12, OneMore, Zenon
  <2>2. i \in Seq(Replies) /\ Range(i) = Range(in[p]) \cup {r} /\ Count(i, Answers) = 1
    BY <2>1, Zenon
  <2>3. in' = [in EXCEPT ![p] = i]
    BY <1>5, <1>8, Zenon DEF Answer
  <2>4. out' = [out EXCEPT ![p] = <<>>] /\ conn' = conn /\ batch' = batch /\ seen' = seen
    BY <1>5, Zenon DEF Answer
  <2>5. <<>> \in Seq(Block) /\ <<>> \in Seq(Requests)
    BY Empties, Zenon
  <2>6. Becomes(p, c, <<>>, <<>>, i, sn)
    BY <1>7, <2>2, <2>3, <2>4, <2>5, Same, Zenon DEF Becomes
  <2>7. conn'[p] = c /\ batch'[p] = <<>> /\ out'[p] = <<>> /\ in'[p] = i /\ seen'[p] = sn
    BY <2>6, Values, Zenon
  <2>8. Pending(p)' = 1
    BY <1>3, <1>11, <2>2, <2>7, Empties, PendingNext, Zenon
  <2> QED BY <2>2, <2>6, <2>7, <2>8, Zenon
<1>13. CASE q.type = "request_chain"
  <2> USE Zenon
  <2> USE <1>13
  <2>1. /\ r \in Replies /\ r.type = "chain_entry" /\ r.ids # <<>> /\ r.ids[1] \in Range(q.ids)
        /\ \A j \in 2..Len(r.ids) : r.ids[j - 1] = Parent(r.ids[j])
    <3>1. Genesis \in Range(q.ids)
      BY <1>10 DEF RequestOk
    <3> QED BY <1>7, <1>8, <1>10, <3>1, Supplement
  <2> USE <2>1
  <2>2. r.ids[1] \in Known
    BY <1>10, Zenon DEF RequestOk
  <2>3. /\ Becomes(p, c, <<>>, <<>>, i, sn) /\ Range(i) = Range(in[p]) \cup {r}
        /\ conn'[p] = c /\ batch'[p] = <<>> /\ out'[p] = <<>> /\ in'[p] = i /\ seen'[p] = sn
        /\ Pending(p)' = 1
    BY <1>12, Zenon DEF Answers
  <2> USE <2>3
  <2>4. Asking(p)
    BY <1>5 DEF Asking
  <2>5. c.needed = <<>> /\ c.requested = {}
    BY <2>4 DEF Waiting
  <2>6. Asking(p)'
    BY DEF Asking
  <2>7. Waiting(p)'
    BY <1>3, <1>11, <2>5 DEF Waiting
  <2>8. ReplyOk(r, c)'
    BY <1>2, <2>2 DEF ReplyOk
  <2>9. \A x \in Range(in[p]) : ReplyOk(x, c)'
    BY <1>6 DEF ReplyOk
  <2>10. Messages(p)'
    BY <2>8, <2>9, Empties DEF Messages
  <2>11. Download(p)'
    BY <1>3, <2>5, <2>6, Empties DEF Download
  <2>12. Link(p)'
    BY <2>7, <2>10, <2>11, Zenon DEF Link
  <2> QED BY <1>11, <2>12, StepOf
<1>14. CASE q.type # "request_chain"
  <2> USE Zenon
  <2>1. q.type = "request_objects"
    BY <1>5, <1>14, Zenon DEF Requests
  <2>2. Range(q.ids) = c.requested /\ Follows(q.ids, Known)
    BY <1>10, <2>1 DEF RequestOk
  <2>3. /\ r \in Replies /\ r.type = "objects" /\ Range(r.ids) \subseteq Range(q.ids)
        /\ Follows(r.ids, Known)
    BY <1>2, <1>7, <1>8, <1>10, <1>14, <2>2, Found
  <2> USE <2>3
  <2>4. /\ Becomes(p, c, <<>>, <<>>, i, sn) /\ Range(i) = Range(in[p]) \cup {r}
        /\ conn'[p] = c /\ batch'[p] = <<>> /\ out'[p] = <<>> /\ in'[p] = i /\ seen'[p] = sn
        /\ Pending(p)' = 1
    BY <1>12 DEF Answers
  <2> USE <2>4
  <2>5. conn[p].callbacks = 0 /\ r.type # "chain_entry"
    BY <1>3
  <2>6. ~Asking(p) /\ ~Asking(p)'
    BY <1>5, <1>6, <1>14, <2>5, Empties DEF Asking
  <2>7. AskedObjects(p)'
    BY DEF AskedObjects
  <2>8. Waiting(p)'
    BY <1>3, <1>11, <2>6, <2>7 DEF Waiting
  <2>9. ReplyOk(r, c)'
    BY <1>2, <2>2, <2>5, Zenon DEF ReplyOk
  <2>10. \A x \in Range(in[p]) : ReplyOk(x, c)'
    BY <1>6 DEF ReplyOk
  <2>11. Messages(p)'
    BY <2>9, <2>10, Empties DEF Messages
  <2>12. Download(p)'
    BY <1>2, <1>7, <2>6 DEF Download
  <2>13. Link(p)'
    BY <2>8, <2>11, <2>12, Zenon DEF Link
  <2> QED BY <1>11, <2>13, StepOf
<1> QED BY <1>13, <1>14, Zenon

----------------------------------------------------------------------------
(***************************************************************************)
(* The handlers of the answers.                                            *)
(***************************************************************************)
\* The answer at the head of the channel is the one thing the connection waits for.
LEMMA TheAnswer ==
  ASSUME Types, NEW p \in Peer, Link(p), in[p] # <<>>, Head(in[p]).type \in Answers
  PROVE  /\ conn[p].state = "synchronizing" /\ p \notin stuck /\ conn[p].callbacks = 0
         /\ out[p] = <<>> /\ batch[p] = <<>> /\ p \notin busy
         /\ Count(Tail(in[p]), Answers) = 0 /\ Tail(in[p]) \in Seq(Replies)
         /\ Head(in[p]) \in Replies /\ ReplyOk(Head(in[p]), conn[p])
         /\ \A x \in Range(Tail(in[p])) : x.type # "chain_entry" /\ x.type # "objects"
         /\ Range(in[p]) = Range(Tail(in[p])) \cup {Head(in[p])}
<1> USE Zenon
<1>1. Waiting(p) /\ Messages(p)
  BY DEF Link
<1>2. /\ Head(in[p]) \in Replies /\ Tail(in[p]) \in Seq(Replies)
      /\ Range(in[p]) = Range(Tail(in[p])) \cup {Head(in[p])}
      /\ Count(in[p], Answers) # 0
      /\ Count(in[p], Answers) = 1 => Count(Tail(in[p]), Answers) = 0
  BY Popped
<1> USE <1>2
<1>4. /\ conn[p].state = "synchronizing" /\ p \notin stuck /\ conn[p].callbacks = 0
      /\ out[p] = <<>> /\ p \notin busy /\ Count(in[p], Answers) = 1
  BY <1>1, Alone
<1>5. batch[p] = <<>>
  BY <1>1, <1>4 DEF Waiting
<1>6. Count(Tail(in[p]), Answers) = 0
  BY <1>4
<1>7. \A x \in Range(Tail(in[p])) : x.type # "chain_entry" /\ x.type # "objects"
  BY <1>6, CountType DEF Answers
<1>8. ReplyOk(Head(in[p]), conn[p])
  BY <1>1 DEF Messages
<1> QED BY <1>4, <1>5, <1>6, <1>7, <1>8

LEMMA ResponseChainEntryStep ==
  ASSUME IInv, NEW p \in Peer, ResponseChainEntry(p)
  PROVE  IInv' /\ UNCHANGED ips
<1> USE Zenon
<1>1. Types /\ CoreOk /\ Link(p) /\ Waiting(p)
  BY SMT DEF IInv, Link
<1>2. in[p] # <<>> /\ Head(in[p]).type = "chain_entry"
  BY Zenon DEF ResponseChainEntry, NextIn
<1>3. PICK m, i, c0 : m = Head(in[p]) /\ i = Tail(in[p]) /\ c0 = conn[p]
  OBVIOUS
<1> USE <1>3
<1>4. /\ c0.state = "synchronizing" /\ p \notin stuck /\ c0.callbacks = 0
      /\ out[p] = <<>> /\ batch[p] = <<>> /\ p \notin busy
      /\ Count(i, Answers) = 0 /\ i \in Seq(Replies) /\ m \in Replies /\ ReplyOk(m, c0)
      /\ Range(in[p]) = Range(i) \cup {m} /\ c0 \in Contexts
  <2>1. Head(in[p]).type \in Answers
    BY <1>2, Zenon DEF Answers
  <2> QED BY <1>1, <1>2, <2>1, TheAnswer, Same
<1> USE <1>4
<1>5. m.type = "chain_entry" /\ m.start \in Nat /\ m.total \in Nat /\ m.ids \in Seq(Block)
  BY <1>2 DEF Replies
<1> USE <1>5
<1>6. /\ m.ids # <<>> /\ m.ids[1] \in Known
      /\ \A j \in 2..Len(m.ids) : m.ids[j - 1] = Parent(m.ids[j])
  BY Zenon DEF ReplyOk
<1> USE <1>6
<1>7. c0.needed = <<>> /\ c0.requested = {}
  <2>1. Asking(p)
    BY DEF Asking
  <2> QED BY <1>1, <2>1 DEF Waiting
<1>8. /\ Head(m.ids) = m.ids[1] /\ Len(m.ids) \in Nat \ {0} /\ Follows(m.ids, Known)
      /\ m.ids[Len(m.ids)] \in Block /\ m.ids[Len(m.ids)] \in Range(m.ids)
      /\ \A j \in 1..Len(m.ids) : m.ids[j] \in Block
      /\ \A k \in Nat : k + Len(m.ids) - 1 \in Nat
  BY ParentToChild
<1>9. PICK n, r, l, sn : /\ n = Only(m.ids, Block \ Known) /\ r = m.total
                         /\ l = m.start + Len(m.ids) - 1 /\ sn = m.ids[Len(m.ids)]
  OBVIOUS
<1> USE <1>9
<1>10. r \in Nat /\ l \in Nat /\ sn \in Block /\ sn \in Range(m.ids)
  BY <1>8
<1> USE <1>10
<1>11. HaveBlock(Head(m.ids))
  BY <1>8 DEF HaveBlock
<1>12. n \in Seq(Block) /\ Follows(n, Known) /\ Range(m.ids) \subseteq Known \cup Range(n)
  <2>1. \A j \in 1..Len(m.ids) : m.ids[j] \in Block \ Known \/ m.ids[j] \in Known
    BY <1>8
  <2> QED BY <1>8, <2>1, OnlyFacts
<1>13. PICK x : x = [c0 EXCEPT !.remote = r, !.last = l]
  BY Zenon
<1>14. PICK c : c = [x EXCEPT !.needed = n]
  OBVIOUS
<1>15. /\ c \in Contexts /\ c.state = "synchronizing" /\ c.needed = n /\ c.requested = {}
       /\ c.callbacks = 0
  <2>1. x \in Contexts /\ x.state = "synchronizing" /\ x.requested = {} /\ x.callbacks = 0
    <3>1. c0 \in Contexts /\ c0.state = "synchronizing" /\ c0.requested = {} /\ c0.callbacks = 0
      BY <1>7
    <3> QED BY <1>13, <3>1 DEF Contexts
  <2> QED BY <1>12, <1>14, <2>1 DEF Contexts
<1>16. c = [conn[p] EXCEPT !.remote = m.total, !.last = m.start + Len(m.ids) - 1,
                           !.needed = @ \o Only(m.ids, Block \ Known)]
  <2>1. <<>> \o n = n
    BY <1>12, ListOfBlocks
  <2>2. c0.needed \o n = n
    BY <1>7, <2>1
  <2>3. c = [c0 EXCEPT !.remote = r, !.last = l, !.needed = c0.needed \o n]
    BY <1>13, <1>14, <2>2
  <2> QED BY <2>3 DEF Contexts
<1>17. UNCHANGED <<core, world, ips>> /\ seen' = [seen EXCEPT ![p] = sn]
  BY <1>11 DEF ResponseChainEntry
<1> USE <1>17
<1>18. \/ Drop(p)
       \/ RequestMissingObjects(p, c, FALSE) /\ Receive(p) /\ UNCHANGED <<busy, batch>>
  BY <1>8, <1>16 DEF ResponseChainEntry
<1>19. CoreOk' /\ Known' = Known
  BY <1>1, CoreSame, Zenon
<1>20. CASE Drop(p)
  <2>1. /\ fails' \in [Peer -> 0..IpFails] /\ blocked' \subseteq Peer
        /\ peerTop' \in [Peer -> Block] /\ events' \in 0..MaxEvents
    BY <1>1 DEF Types, ips, world
  <2> QED BY <1>19, <1>20, <2>1, DropStep
<1>21. CASE RequestMissingObjects(p, c, FALSE) /\ Receive(p) /\ UNCHANGED <<busy, batch>>
  <2>1. in' = [in EXCEPT ![p] = i] /\ busy' = busy \ {p} /\ batch' = batch
    BY <1>21 DEF Receive
  <2>2. sn \in Known \cup Range(c.needed) /\ Follows(c.needed, Known)
    BY <1>12, <1>15
  <2>3. UNCHANGED <<core, ips, world>>
    BY Zenon
  <2>4. IInv'
    BY <1>21, <1>15, <2>1, <2>2, <2>3, RequestStep
  <2> QED BY <2>4, Zenon
<1> QED BY <1>18, <1>20, <1>21

LEMMA ResponseGetObjectsStep ==
  ASSUME IInv, NEW p \in Peer, ResponseGetObjects(p)
  PROVE  IInv'
<1> USE Zenon
<1>1. Types /\ CoreOk /\ Link(p) /\ Waiting(p) /\ Download(p)
  BY Zenon DEF IInv, Link
<1> USE <1>1
<1>2. in[p] # <<>> /\ Head(in[p]).type = "objects"
  BY Zenon DEF ResponseGetObjects, NextIn
<1>3. PICK m, i, c0, sn : m = Head(in[p]) /\ i = Tail(in[p]) /\ c0 = conn[p] /\ sn = seen[p]
  OBVIOUS
<1>4. /\ c0.state = "synchronizing" /\ p \notin stuck /\ c0.callbacks = 0
      /\ out[p] = <<>> /\ batch[p] = <<>> /\ p \notin busy
      /\ Count(i, Answers) = 0 /\ i \in Seq(Replies) /\ m \in Replies /\ ReplyOk(m, c0)
      /\ \A x \in Range(i) : x.type # "chain_entry" /\ x.type # "objects"
      /\ Range(in[p]) = Range(i) \cup {m} /\ c0 \in Contexts
  <2>1. Head(in[p]).type \in Answers
    BY <1>2, Zenon DEF Answers
  <2> QED BY <1>2, <1>3, <2>1, TheAnswer, Same
<1> USE <1>4
<1>5. m.type = "objects" /\ m.height \in Nat /\ m.ids \in Seq(Block)
  BY <1>2, <1>3 DEF Replies
<1>6. PICK c : c = [c0 EXCEPT !.remote = m.height]
  OBVIOUS
<1>7. /\ c \in Contexts /\ c.state = "synchronizing" /\ c.callbacks = 0
      /\ c.needed = c0.needed /\ c.requested = c0.requested
  <2>1. c0 \in Contexts /\ c0.state = "synchronizing" /\ c0.callbacks = 0
    OBVIOUS
  <2> QED BY <1>5, <1>6, <2>1 DEF Contexts
<1>8. /\ UNCHANGED <<core, ips, world, seen>>
      /\ \/ Drop(p)
         \/ /\ conn' = [conn EXCEPT ![p] = SuspendedContext(c)]
            /\ Receive(p) /\ UNCHANGED <<busy, batch, out, stuck>>
         \/ /\ Complete(c, m)
            /\ conn' = [conn EXCEPT ![p] = [c EXCEPT !.requested = {}]]
            /\ busy' = busy \cup {p} /\ batch' = [batch EXCEPT ![p] = m.ids]
            /\ Receive(p) /\ UNCHANGED <<out, stuck>>
  BY <1>3, <1>6 DEF ResponseGetObjects
<1>9. CoreOk' /\ Known' = Known
  BY <1>8, CoreSame, Zenon
<1>10. /\ fails' \in [Peer -> 0..IpFails] /\ blocked' \subseteq Peer
       /\ peerTop' \in [Peer -> Block] /\ events' \in 0..MaxEvents
  BY <1>8, Zenon DEF Types, ips, world
<1>11. seen' = [seen EXCEPT ![p] = sn] /\ sn \in Block
  BY <1>3, <1>8, Same
<1>12. CASE Drop(p)
  BY <1>9, <1>10, <1>11, <1>12, DropStep
<1>13. CASE /\ conn' = [conn EXCEPT ![p] = SuspendedContext(c)]
            /\ Receive(p) /\ UNCHANGED <<busy, batch, out, stuck>>
  <2>1. PICK d : d = SuspendedContext(c)
    OBVIOUS
  <2>2. d \in Contexts /\ d.state = "idle" /\ d.callbacks = 0 /\ d.needed = <<>> /\ d.requested = {}
    <3>1. <<>> \in Seq(Block)
      BY Empties
    <3> QED BY <1>7, <2>1, <3>1 DEF SuspendedContext, Contexts
  <2>3. <<>> \in Seq(Block) /\ <<>> \in Seq(Requests)
    BY Empties
  <2>4. Becomes(p, d, <<>>, <<>>, i, sn)
    BY <1>3, <1>11, <1>13, <2>1, <2>2, <2>3, Same DEF Becomes, Receive
  <2>5. Around(p) /\ p \notin busy' /\ p \notin stuck'
    BY <1>9, <1>10, <1>13, Zenon DEF Around, Types
  <2>6. d.state \in {"normal", "idle"} /\ ~(d.state = "normal")
    BY <2>2
  <2> QED BY <2>2, <2>4, <2>5, <2>6, Begins
<1>14. CASE /\ Complete(c, m)
            /\ conn' = [conn EXCEPT ![p] = [c EXCEPT !.requested = {}]]
            /\ busy' = busy \cup {p} /\ batch' = [batch EXCEPT ![p] = m.ids]
            /\ Receive(p) /\ UNCHANGED <<out, stuck>>
  <2>1. PICK d : d = [c EXCEPT !.requested = {}]
    OBVIOUS
  <2>2. /\ d \in Contexts /\ d.state = "synchronizing" /\ d.callbacks = 0
        /\ d.needed = c0.needed /\ d.requested = {}
    BY <1>7, <2>1, Zenon DEF Contexts
  <2>3. PICK bt : bt = m.ids
    OBVIOUS
  <2>4. Becomes(p, d, bt, <<>>, i, sn)
    <3>1. <<>> \in Seq(Requests)
      BY Empties
    <3> QED BY <1>3, <1>5, <1>11, <1>14, <2>1, <2>2, <2>3, <3>1, Same DEF Becomes, Receive
  <2>5. Around(p) /\ p \in busy' /\ p \notin stuck'
    BY <1>9, <1>10, <1>14, Zenon DEF Around, Types
  <2>6. conn'[p] = d /\ batch'[p] = bt /\ out'[p] = <<>> /\ in'[p] = i /\ seen'[p] = sn
    BY <2>4, Values
  <2> USE <2>6
  <2>7. Range(bt) = c0.requested /\ Follows(bt, Known)
    BY <1>5, <1>7, <1>14, <2>3, SMT DEF Complete, ReplyOk
  <2>8. ~Asking(p)
    <3>1. m.type # "chain_entry" /\ conn[p].callbacks = 0
      BY <1>3, <1>5
    <3> QED BY <3>1, Empties DEF Asking
  <2>9. ~Asking(p)'
    BY <2>2, Empties DEF Asking
  <2>10. Waiting(p)'
    <3>1. Pending(p)' = 1
      BY <2>2, <2>5, Empties, PendingNext
    <3> QED BY <2>2, <2>5, <2>9, <3>1 DEF Waiting
  <2>11. Messages(p)'
    <3>1. \A x \in Range(i) : ReplyOk(x, d)'
      BY DEF ReplyOk
    <3> QED BY <3>1, Empties DEF Messages
  <2>12. Download(p)'
    <3>1. /\ Known \cup c0.requested \cup Range(<<>>) = Known \cup Range(bt)
          /\ Known' \cup d.requested \cup Range(bt) = Known \cup Range(bt)
      BY <1>9, <2>2, <2>7, Empties
    <3>2. Follows(c0.needed, Known \cup Range(bt)) /\ sn \in Known \cup Range(bt) \cup Range(c0.needed)
      BY <1>3, <2>8, <3>1 DEF Download
    <3> QED BY <1>9, <2>2, <2>7, <3>1, <3>2 DEF Download
  <2>13. Link(p)'
    BY <2>10, <2>11, <2>12 DEF Link
  <2> QED BY <2>4, <2>5, <2>13, StepOf
<1> QED BY <1>8, <1>12, <1>13, <1>14, Zenon

\* A block of a response is refused only for a block on its chain that does not verify.
LEMMA Refused ==
  ASSUME IInv, NEW p \in Peer, p \in busy, batch[p] # <<>>,
         LET r == AddNewBlock(Head(batch[p])) IN Core(r) /\ r.what \in {"failed", "orphaned"}
  PROVE  MainOf[Head(batch[p])] \cap Bad # {}
<1>1. Types /\ CoreOk /\ Follows(batch[p], Known)
  BY Zenon DEF IInv, Link, Download
<1> USE <1>1
<1>2. PICK b : b = Head(batch[p])
  BY Zenon
<1>3. b \in Block /\ (b \in Known \/ Parent(b) \in Known)
  BY <1>2, Same, HeadFollows, Zenon
<1>4. PICK r : r = AddNewBlock(b)
  BY Zenon
<1>5. Core(r) /\ (r.what = "failed" \/ r.what = "orphaned")
  BY <1>2, <1>4, Zenon
<1>6. /\ r.what = "failed" => MainOf[b] \cap Bad # {}
      /\ r.what = "orphaned" => b \notin Known /\ b # Genesis /\ Parent(b) \notin Main \cup alt
  BY <1>3, <1>4, <1>5, CoreStep, Zenon
<1> USE <1>6
<1>7. ASSUME r.what = "orphaned" PROVE MainOf[b] \cap Bad # {}
  <2>1. Parent(b) \in invalid
    BY <1>3, <1>7, Zenon DEF Known
  <2>2. MainOf[Parent(b)] \cap Bad # {}
    BY <2>1, Zenon DEF CoreOk
  <2>3. MainOf[b] = MainOf[Parent(b)] \cup {b}
    BY <1>3, <1>7, ChainOfBlock, Zenon
  <2> QED BY <2>2, <2>3, Zenon
<1> QED BY <1>2, <1>5, <1>7, Zenon

LEMMA ProcessBlockStep ==
  ASSUME IInv, NEW p \in Peer, ProcessBlock(p)
  PROVE  IInv'
<1>1. Types /\ CoreOk /\ Link(p) /\ Waiting(p) /\ Messages(p) /\ Download(p)
  BY Zenon DEF IInv, Link
<1> USE <1>1
<1>2. p \in busy /\ batch[p] # <<>> /\ batch[p] \in Seq(Block)
  BY Same, Zenon DEF ProcessBlock
<1>3. PICK b, c, bt, o, i, sn : /\ b = Head(batch[p]) /\ c = conn[p] /\ bt = Tail(batch[p])
                                /\ o = out[p] /\ i = in[p] /\ sn = seen[p]
  BY Zenon
<1> USE <1>3
<1>4. b \in Block /\ bt \in Seq(Block) /\ Range(batch[p]) = {b} \cup Range(bt)
  BY <1>2, RangeOfTail, Zenon
<1>5. PICK r : r = AddNewBlock(b)
  BY Zenon
<1>6. /\ Core(r) /\ UNCHANGED <<world, seen>>
      /\ \/ Drop(p) /\ AddIpFail(p)
         \/ /\ r.what \notin {"failed", "orphaned"} /\ batch' = [batch EXCEPT ![p] = bt]
            /\ UNCHANGED <<conn, busy, in, out, stuck, ips>>
  BY <1>5, Zenon DEF ProcessBlock
<1>7. CoreOk' /\ Known \subseteq Known' /\ (r.what \notin {"failed", "orphaned"} => b \in Known')
  BY <1>4, <1>5, <1>6, CoreStep, Zenon
<1> USE <1>7
<1>8. peerTop' \in [Peer -> Block] /\ events' \in 0..MaxEvents
  BY <1>6, Zenon DEF Types, world
<1>9. seen' = [seen EXCEPT ![p] = sn] /\ sn \in Block
  BY <1>6, Same, Zenon
<1>10. CASE Drop(p) /\ AddIpFail(p)
  <2>1. fails' \in [Peer -> 0..IpFails] /\ blocked' \subseteq Peer
    BY <1>10, IpFailTypes, Zenon
  <2> QED BY <1>8, <1>9, <1>10, <2>1, DropStep, Zenon
<1>11. CASE /\ r.what \notin {"failed", "orphaned"} /\ batch' = [batch EXCEPT ![p] = bt]
            /\ UNCHANGED <<conn, busy, in, out, stuck, ips>>
  <2> USE Zenon
  <2>1. Becomes(p, c, bt, o, i, sn)
    BY <1>4, <1>9, <1>11, Same DEF Becomes
  <2>2. Around(p)
    BY <1>8, <1>11, Zenon DEF Around, Types, ips
  <2>3. conn'[p] = conn[p] /\ batch'[p] = bt /\ out'[p] = out[p] /\ in'[p] = in[p] /\ seen'[p] = seen[p]
    BY <2>1, Values
  <2> USE <2>3
  <2>4. (p \in busy' <=> p \in busy) /\ (p \in stuck' <=> p \in stuck) /\ b \in Known'
    BY <1>11, Zenon
  <2> USE <2>4
  <2>5. (Asking(p)' <=> Asking(p)) /\ (AskedObjects(p)' <=> AskedObjects(p)) /\ Pending(p)' = Pending(p)
    BY DEF Asking, AskedObjects, Pending
  <2>6. Waiting(p)'
    BY <1>2, <2>5 DEF Waiting
  <2>7. \A s : Follows(s, Known) => Follows(s, Known')
    BY FollowsMore
  <2>8. Messages(p)'
    <3>1. ASSUME NEW x \in Range(out[p]) PROVE RequestOk(x, c)'
      BY <2>7 DEF Messages, RequestOk
    <3>2. ASSUME NEW x \in Range(in[p]) PROVE ReplyOk(x, c)'
      BY <2>7 DEF Messages, ReplyOk
    <3> QED BY <3>1, <3>2 DEF Messages
  <2>9. Download(p)'
    <3>1. Follows(bt, Known')
      BY <1>2, TailFollows DEF Download
    <3>2. Known \cup c.requested \cup Range(batch[p]) \subseteq Known' \cup c.requested \cup Range(bt)
      BY <1>4
    <3>3. Follows(c.needed, Known \cup c.requested \cup Range(batch[p]))
      BY DEF Download
    <3>4. Follows(c.needed, Known' \cup c.requested \cup Range(bt))
      BY <3>2, <3>3, FollowsMore
    <3> QED BY <2>5, <3>1, <3>2, <3>4 DEF Download
  <2>10. Link(p)'
    BY <2>6, <2>8, <2>9, Zenon DEF Link
  <2> QED BY <2>1, <2>2, <2>10, StepOf, Zenon
<1> QED BY <1>6, <1>10, <1>11, Zenon

LEMMA FinishResponseStep ==
  ASSUME IInv, NEW p \in Peer, FinishResponse(p)
  PROVE  IInv'
<1> USE Zenon
<1>1. Types /\ CoreOk /\ Link(p) /\ Waiting(p) /\ Download(p)
  BY SMT DEF IInv, Link
<1> USE <1>1
<1>2. p \in busy /\ batch[p] = <<>>
  BY DEF FinishResponse
<1> USE <1>2
<1>3. /\ conn[p].state = "synchronizing" /\ p \notin stuck /\ conn[p].callbacks = 0 /\ out[p] = <<>>
      /\ Count(in[p], Answers) = 0 /\ in[p] \in Seq(Replies) /\ conn[p] \in Contexts
  BY Alone
<1> USE <1>3
<1>4. PICK c, i, sn : c = conn[p] /\ i = in[p] /\ sn = seen[p]
  OBVIOUS
<1> USE <1>4
<1>5. ~Asking(p)
  <2>1. \A m \in Range(in[p]) : m.type \notin Answers
    BY CountType
  <2> QED BY <2>1, Empties DEF Asking, Answers
<1>6. c.requested = {}
  BY DEF Waiting
<1>7. Follows(c.needed, Known) /\ sn \in Known \cup Range(c.needed)
  <2>1. Known \cup c.requested \cup Range(batch[p]) = Known
    BY <1>6, Empties
  <2> QED BY <1>5, <2>1 DEF Download
<1>8. /\ busy' = busy \ {p} /\ RequestMissingObjects(p, c, TRUE) /\ UNCHANGED <<core, ips, world>>
      /\ batch' = batch
  BY DEF FinishResponse
<1>9. in' = [in EXCEPT ![p] = i] /\ seen' = [seen EXCEPT ![p] = sn] /\ sn \in Block
  BY Same DEF FinishResponse
<1>10. c \in Contexts /\ c.state = "synchronizing" /\ c.callbacks = 0 /\ i \in Seq(Replies) /\ Count(i, Answers) = 0
  OBVIOUS
<1> QED BY <1>6, <1>7, <1>8, <1>9, <1>10, RequestStep

LEMMA NotifyNewBlockStep ==
  ASSUME IInv, NEW p \in Peer, NotifyNewBlock(p)
  PROVE  IInv'
<1> USE Zenon
<1>1. Types /\ CoreOk /\ Link(p)
  BY DEF IInv
<1> USE <1>1
<1>2. in[p] # <<>> /\ Head(in[p]).type = "new_block" /\ Open(p) /\ UNCHANGED <<ips, world, seen>>
  BY Zenon DEF NotifyNewBlock, NextIn
<1> USE <1>2
<1>3. PICK m, i, c, sn : m = Head(in[p]) /\ i = Tail(in[p]) /\ c = conn[p] /\ sn = seen[p]
  OBVIOUS
<1> USE <1>3
<1>4. /\ m.type \notin Answers /\ m \in Replies /\ i \in Seq(Replies)
      /\ Count(in[p], Answers) = Count(i, Answers)
  <2>1. m.type \notin Answers
    BY DEF Answers
  <2> QED BY <2>1, Popped
<1>5. m.id \in Block
  BY <1>4 DEF Replies
<1>6. /\ fails' \in [Peer -> 0..IpFails] /\ blocked' \subseteq Peer
      /\ peerTop' \in [Peer -> Block] /\ events' \in 0..MaxEvents
      /\ busy \subseteq Peer /\ stuck \subseteq Peer
  BY Zenon DEF Types, ips, world
<1>7. seen' = [seen EXCEPT ![p] = sn] /\ sn \in Block
  BY Same
<1>8. ASSUME CoreOk', Known \subseteq Known', Receive(p), UNCHANGED <<conn, busy, batch, out, stuck>>
      PROVE  IInv'
  <2>1. Around(p)
    BY <1>6, <1>8 DEF Around
  <2> QED BY <1>4, <1>8, <2>1, Passes
<1>9. CASE conn[p].state # "normal"
  <2>1. Receive(p) /\ UNCHANGED core /\ UNCHANGED <<conn, busy, batch, out, stuck>>
    BY <1>9 DEF NotifyNewBlock
  <2>2. CoreOk' /\ Known' = Known
    BY <2>1, CoreSame, Zenon
  <2> QED BY <1>8, <2>1, <2>2
<1>10. CASE conn[p].state = "normal"
  <2>1. PICK r : r = AddNewBlock(m.id)
    BY Zenon
  <2>2. /\ Core(r)
        /\ \/ Drop(p)
           \/ /\ conn' = [conn EXCEPT ![p].state = "synchronizing"]
              /\ out' = [out EXCEPT ![p] = Append(@, [RequestChain EXCEPT !.ids = Backwards(Path[r.top])])]
              /\ Receive(p) /\ UNCHANGED <<busy, batch, stuck>>
           \/ Receive(p) /\ UNCHANGED <<conn, busy, batch, out, stuck>>
    BY <1>10, <2>1 DEF NotifyNewBlock
  <2>3. CoreOk' /\ Known \subseteq Known' /\ r.top = top'
    BY <1>5, <2>1, <2>2, CoreStep, Zenon
  <2>4. CASE Drop(p)
    BY <1>6, <1>7, <2>3, <2>4, DropStep
  <2>5. CASE /\ conn' = [conn EXCEPT ![p].state = "synchronizing"]
             /\ out' = [out EXCEPT ![p] = Append(@, [RequestChain EXCEPT !.ids = Backwards(Path[r.top])])]
             /\ Receive(p) /\ UNCHANGED <<busy, batch, stuck>>
    <3> USE SMT
    <3>1. /\ out[p] = <<>> /\ batch[p] = <<>> /\ Count(in[p], Answers) = 0 /\ p \notin busy /\ p \notin stuck
          /\ c.callbacks = 0 /\ c.needed = <<>> /\ c.requested = {} /\ c \in Contexts
      BY <1>10, AtRest, Same, Zenon
    <3> USE <3>1
    <3>2. PICK d, b : d = [c EXCEPT !.state = "synchronizing"] /\ b = r.top
      BY Zenon
    <3> USE <3>2
    <3>3. /\ d \in Contexts /\ d.state = "synchronizing" /\ d.callbacks = 0
          /\ d.needed = <<>> /\ d.requested = {}
      BY Zenon DEF Contexts
    <3>4. b \in Block /\ MainOf[b] \subseteq Known'
      BY <2>3, Zenon DEF CoreOk, Known, Main
    <3>5. PICK q : q = [type |-> "request_chain", ids |-> Backwards(Path[b])]
      BY Zenon
    <3>6. q \in Requests /\ [RequestChain EXCEPT !.ids = Backwards(Path[b])] = q
      BY <3>4, <3>5, ShortHistory, Zenon
    <3>8. out' = [out EXCEPT ![p] = <<q>>] /\ <<q>> \in Seq(Requests)
      <4>1. out' = [out EXCEPT ![p] = Append(out[p], q)]
        BY <2>5, <3>6, Zenon
      <4> QED BY <3>6, <4>1, OneMessage, Zenon
    <3>9. Becomes(p, d, <<>>, <<q>>, i, sn)
      <4>1. <<>> \in Seq(Block)
        BY Empties, Zenon
      <4>2. conn' = [conn EXCEPT ![p] = d]
        BY <2>5, Zenon
      <4>3. in' = [in EXCEPT ![p] = i] /\ batch' = batch
        BY <2>5, Zenon DEF Receive
      <4> QED BY <1>4, <1>7, <3>3, <3>8, <4>1, <4>2, <4>3, Same, Zenon DEF Becomes
    <3>10. Around(p) /\ p \notin busy' /\ p \notin stuck'
      BY <1>6, <2>3, <2>5, Zenon DEF Around
    <3>11. Count(i, Answers) = 0
      BY <1>4, Zenon
    <3> QED BY <3>3, <3>4, <3>5, <3>9, <3>10, <3>11, Begins, Zenon
  <2>6. CASE Receive(p) /\ UNCHANGED <<conn, busy, batch, out, stuck>>
    BY <1>8, <2>3, <2>6
  <2> QED BY <2>2, <2>4, <2>5, <2>6
<1> QED BY <1>9, <1>10

----------------------------------------------------------------------------
(***************************************************************************)
(* The theorems.                                                           *)
(***************************************************************************)
LEMMA InitInv == Init => IInv
<1> SUFFICES ASSUME Init PROVE IInv
  BY Zenon
<1>1. Genesis \in Block /\ Start \in [Peer -> Block] /\ IpFails \in Nat /\ MaxEvents \in Nat
  BY SyncAssumption, Zenon
<1>2. Types
  <2>1. <<>> \in Seq(Block) /\ <<>> \in Seq(Requests) /\ <<>> \in Seq(Replies)
    BY Empties, Zenon
  <2> QED BY <1>1, <2>1, ContextOfClosed, Bounds, Zenon DEF Init, Types
<1>3. CoreOk
  <2>1. top = Genesis /\ alt = {} /\ invalid = {}
    BY Zenon DEF Init
  <2>2. Known = MainOf[Genesis]
    BY <2>1, Zenon DEF Known, Main
  <2>3. ASSUME NEW b \in Known PROVE Work[b] <= Work[top]
    BY <1>1, <2>1, <2>2, BelowOnChain, Zenon
  <2> QED BY <1>1, <2>1, <2>3, Zenon DEF CoreOk
<1>4. ASSUME NEW p \in Peer PROVE Link(p)
  <2>1. /\ conn[p] = Closed /\ batch[p] = <<>> /\ out[p] = <<>> /\ in[p] = <<>>
        /\ p \notin busy /\ p \notin stuck
    BY Zenon DEF Init
  <2>2. Pending(p) = 0
    BY <2>1, Empties, ContextOfClosed, PendingNone, Zenon
  <2>3. Waiting(p)
    BY <2>1, <2>2, ContextOfClosed, Zenon DEF Waiting
  <2>4. Messages(p)
    BY <2>1, Empties, Zenon DEF Messages
  <2>5. Download(p)
    BY <2>1, Empties, ContextOfClosed, Zenon DEF Download
  <2> QED BY <2>3, <2>4, <2>5, Zenon DEF Link
<1> QED BY <1>2, <1>3, <1>4, Zenon DEF IInv

LEMMA StutterStep ==
  ASSUME IInv, UNCHANGED vars
  PROVE  IInv'
<1>1. UNCHANGED <<core, links, seen>> /\ fails' = fails /\ blocked' = blocked /\ peerTop' = peerTop
      /\ events' = events
  BY Zenon DEF vars, ips, world
<1>2. /\ fails \in [Peer -> 0..IpFails] /\ blocked \subseteq Peer
      /\ peerTop \in [Peer -> Block] /\ events \in 0..MaxEvents
  BY Zenon DEF IInv, Types
<1> QED BY <1>1, <1>2, NoChange, Zenon

LEMMA NextStep ==
  ASSUME IInv, Next
  PROVE  IInv'
<1> SUFFICES ASSUME NEW p \in Peer,
                    \/ Step(p)
                    \/ \E b \in Block, relay \in BOOLEAN : PeerAdvance(p, b, relay)
                    \/ Disconnect(p)
                    \/ Unblock(p)
             PROVE  IInv'
  BY Zenon DEF Next
<1>1. CASE Step(p)
  BY <1>1, HandshakeStep, ReceiveSyncStep, OnCallbackStep, ResponseChainEntryStep,
     ResponseGetObjectsStep, ProcessBlockStep, FinishResponseStep, NotifyNewBlockStep, AnswerStep,
     TimedSyncStep, Zenon DEF Step
<1>2. CASE \E b \in Block, relay \in BOOLEAN : PeerAdvance(p, b, relay)
  BY <1>2, PeerAdvanceStep, Zenon
<1>3. CASE Disconnect(p)
  BY <1>3, DisconnectStep, Zenon
<1>4. CASE Unblock(p)
  BY <1>4, UnblockStep, Zenon
<1> QED BY <1>1, <1>2, <1>3, <1>4, Zenon

\* The inductive invariant: every connection waits for exactly what it has asked for, and
\* the blocks under way come parents first and reach the last block the peer told of.
THEOREM Inductive == Spec => []IInv
<1>1. IInv /\ [Next]_vars => IInv'
  BY NextStep, StutterStep, Zenon
<1> QED BY <1>1, InitInv, PTL DEF Spec

\* Whatever the interleaving of connections, a synchronizing connection waits for exactly
\* one callback, answer or handler, any other for none, and what it has asked for is in
\* the request or the answer under way.
THEOREM OneRequestAlways == Spec => []OneRequest
<1>1. IInv => OneRequest
  <2> SUFFICES ASSUME IInv PROVE OneRequest
    BY Zenon
  <2>1. Types /\ CoreOk /\ \A p \in Peer : Waiting(p) /\ Messages(p)
    BY Zenon DEF IInv, Link
  <2> USE <2>1
  <2>2. TypeOK
    BY Zenon DEF Types, CoreOk, Contexts, TypeOK
  <2>3. ASSUME NEW p \in Peer
        PROVE  /\ Pending(p) = IF conn[p].state = "synchronizing" /\ p \notin stuck THEN 1 ELSE 0
               /\ conn[p].state # "synchronizing" => conn[p].needed = <<>> /\ conn[p].requested = {}
    BY Zenon DEF Waiting
  <2>4. ASSUME NEW p \in Peer, conn[p].requested # {}
        PROVE  \/ \E i \in 1..Len(out[p]) : /\ out[p][i].type = "request_objects"
                                            /\ Range(out[p][i].ids) = conn[p].requested
               \/ \E i \in 1..Len(in[p]) : /\ in[p][i].type = "objects"
                                           /\ Range(in[p][i].ids) \subseteq conn[p].requested
    <3> USE Zenon
    <3>1. DOMAIN out[p] = 1..Len(out[p]) /\ DOMAIN in[p] = 1..Len(in[p])
      BY Domains
    <3>2. AskedObjects(p)
      BY <2>4 DEF Waiting
    <3>3. ASSUME NEW m \in Range(out[p]), m.type = "request_objects"
          PROVE  \E i \in 1..Len(out[p]) : /\ out[p][i].type = "request_objects"
                                           /\ Range(out[p][i].ids) = conn[p].requested
      <4>1. Range(m.ids) = conn[p].requested
        BY <3>3 DEF Messages, RequestOk
      <4>2. PICK i \in DOMAIN out[p] : m = out[p][i]
        BY DEF Range
      <4> QED BY <3>1, <3>3, <4>1, <4>2
    <3>4. ASSUME NEW m \in Range(in[p]), m.type = "objects"
          PROVE  \E i \in 1..Len(in[p]) : /\ in[p][i].type = "objects"
                                          /\ Range(in[p][i].ids) \subseteq conn[p].requested
      <4>1. Range(m.ids) \subseteq conn[p].requested
        BY <3>4 DEF Messages, ReplyOk
      <4>2. PICK i \in DOMAIN in[p] : m = in[p][i]
        BY DEF Range
      <4> QED BY <3>1, <3>4, <4>1, <4>2
    <3> QED BY <3>2, <3>3, <3>4 DEF AskedObjects
  <2> QED BY <2>2, <2>3, <2>4, Zenon DEF OneRequest
<1> QED BY <1>1, Inductive, PTL

\* A connection in state_normal is downloaded to its end: the last block the peer told of
\* is known, and the main chain has its work or a block below it does not verify.
THEOREM NormalAlwaysCaughtUp == Spec => []NormalIsCaughtUp
<1>1. IInv => NormalIsCaughtUp
  <2> SUFFICES ASSUME IInv, NEW p \in Peer, conn[p].state = "normal"
               PROVE  /\ HaveBlock(seen[p])
                      /\ Work[top] >= Work[seen[p]] \/ MainOf[seen[p]] \cap Bad # {}
    BY Zenon DEF NormalIsCaughtUp
  <2>1. seen[p] \in Known /\ CoreOk
    BY Zenon DEF IInv, Link, Download
  <2>2. Work[seen[p]] <= Work[top] \/ MainOf[seen[p]] \cap Bad # {}
    BY <2>1, Zenon DEF CoreOk
  <2> QED BY <2>1, <2>2, Zenon DEF HaveBlock
<1> QED BY <1>1, Inductive, PTL

\* No step adds an ip fail to a peer or blocks it, but for a block of its response whose
\* chain does not verify: not when it moves to another chain between two answers, not
\* when another connection is faster.
THEOREM HonestNeverBlamed == Spec => HonestNotBlamed
<1> DEFINE Blamed(p) == fails'[p] # fails[p] \/ (p \in blocked' /\ p \notin blocked)
           Fault(p) == p \in busy /\ batch[p] # <<>> /\ MainOf[Head(batch[p])] \cap Bad # {}
<1>1. ASSUME IInv, Next PROVE \A p \in Peer : Blamed(p) => Fault(p)
  <2> USE Zenon
  <2> USE <1>1
  <2> SUFFICES ASSUME NEW q \in Peer,
                      \/ Step(q)
                      \/ \E b \in Block, relay \in BOOLEAN : PeerAdvance(q, b, relay)
                      \/ Disconnect(q)
                      \/ Unblock(q)
               PROVE  \A p \in Peer : Blamed(p) => Fault(p)
    BY DEF Next
  <2>1. CASE UNCHANGED ips
    BY <2>1 DEF ips
  <2> USE <2>1
  <2>2. CASE Unblock(q)
    BY <2>2 DEF Unblock
  <2>3. CASE ProcessBlock(q)
    <3>1. CASE UNCHANGED ips
      BY <3>1 DEF ips
    <3>2. CASE ~UNCHANGED ips
      <4>1. /\ q \in busy /\ batch[q] # <<>> /\ AddIpFail(q)
            /\ LET r == AddNewBlock(Head(batch[q])) IN Core(r) /\ r.what \in {"failed", "orphaned"}
        BY <2>3, <3>2 DEF ProcessBlock
      <4>2. Fault(q)
        BY <4>1, Refused
      <4>3. ASSUME NEW p \in Peer, p # q PROVE ~Blamed(p)
        <5>1. fails \in [Peer -> 0..IpFails]
          BY DEF IInv, Types
        <5>2. fails'[p] = fails[p] /\ (p \in blocked' => p \in blocked)
          BY <4>1, <4>3, <5>1 DEF AddIpFail
        <5> QED BY <5>2
      <4> QED BY <4>2, <4>3
    <3> QED BY <3>1, <3>2, Zenon
  <2>4. CASE ResponseChainEntry(q)
    BY <2>4, ResponseChainEntryStep, Zenon
  <2>5. CASE Step(q)
    BY <2>3, <2>4, <2>5 DEF Step, Handshake, ReceiveSync, OnCallback, ResponseGetObjects,
       FinishResponse, NotifyNewBlock, Answer, TimedSync
  <2>6. CASE \E b \in Block, relay \in BOOLEAN : PeerAdvance(q, b, relay)
    BY <2>6 DEF PeerAdvance
  <2>7. CASE Disconnect(q)
    BY <2>7 DEF Disconnect
  <2> QED BY <2>2, <2>5, <2>6, <2>7
<1>2. ASSUME UNCHANGED vars PROVE \A p \in Peer : Blamed(p) => Fault(p)
  BY <1>2, Zenon DEF vars, ips
<1>3. IInv /\ [Next]_vars => [\A p \in Peer : Blamed(p) => Fault(p)]_vars
  BY <1>1, <1>2
<1> QED BY <1>3, Inductive, PTL DEF Spec, HonestNotBlamed
=============================================================================

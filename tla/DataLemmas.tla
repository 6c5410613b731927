------------------------------ MODULE DataLemmas ------------------------------
(***************************************************************************)
(* Facts that the proofs about several components cite: induction over the *)
(* natural numbers with sets in the place of predicates, what it gives for *)
(* functions defined by recursion over an interval, and what the operators *)
(* on sequences return.                                                    *)
(***************************************************************************)
EXTENDS Integers, Sequences, Functions, WellFoundedInduction, TLAPS

\* A set of natural numbers that is not empty has a least element.
LEMMA LeastElement ==
  ASSUME NEW S \in SUBSET Nat, S # {}
  PROVE  \E least \in S : \A m \in S : least <= m
<1>1. IsWellFoundedOn(OpToRel(<, Nat), Nat)
  BY NatLessThanWellFounded, Zenon
<1>2. PICK least \in S : \A m \in S : ~(<<m, least>> \in OpToRel(<, Nat))
  BY <1>1, WFMin, Zenon
<1>3. \A m \in S : m < least => <<m, least>> \in OpToRel(<, Nat)
  BY DEF OpToRel
<1>4. \A m \in S : ~(m < least)
  BY <1>2, <1>3, Zenon
<1>5. \A m \in S : least <= m
  BY <1>4
<1> QED BY <1>5

\* Induction: what holds of zero and is passed on to the successor holds always.
LEMMA SetInduction ==
  ASSUME NEW S \in SUBSET Nat, 0 \in S, \A k \in S : k + 1 \in S
  PROVE  S = Nat
<1>1. SUFFICES ASSUME Nat \ S # {} PROVE FALSE
  BY Zenon
<1>2. PICK k \in Nat \ S : \A m \in Nat \ S : k <= m
  BY <1>1, LeastElement, Zenon
<1>3. k - 1 \in S
  BY <1>2
<1> QED BY <1>2, <1>3

\* The same between two bounds.
LEMMA IntervalInduction ==
  ASSUME NEW lo \in Nat, NEW hi \in Nat, NEW S, lo \in S,
         \A k \in lo..(hi - 1) : k \in S => k + 1 \in S
  PROVE  \A k \in lo..hi : k \in S
<1>1. SUFFICES ASSUME (lo..hi) \ S # {} PROVE FALSE
  OBVIOUS
<1>2. PICK k \in (lo..hi) \ S : \A m \in (lo..hi) \ S : k <= m
  <2>1. (lo..hi) \ S \in SUBSET Nat
    OBVIOUS
  <2> QED BY <1>1, <2>1, LeastElement, Zenon
<1>3. k - 1 \in lo..(hi - 1) /\ k - 1 \in S
  BY <1>2
<1> QED BY <1>2, <1>3

\* The functions on an interval that begin with base and take each value from the
\* one before: succ[k] maps the value at k - 1 to the value at k.
Recursive(lo, hi, V, base, succ) ==
  {f \in [lo..hi -> V] : f[lo] = base /\ \A k \in (lo + 1)..hi : f[k] = succ[k][f[k - 1]]}

\* There is one.
LEMMA RecursionOnInterval ==
  ASSUME NEW lo \in Nat, NEW hi \in Nat, lo <= hi, NEW V, NEW base \in V,
         NEW succ \in [Nat -> [V -> V]]
  PROVE  Recursive(lo, hi, V, base, succ) # {}
<1> DEFINE Fcn(m) == Recursive(lo, m, V, base, succ)
           S == {m \in lo..hi : Fcn(m) # {}}
<1>1. lo \in S
  <2>1. [k \in lo..lo |-> base] \in Fcn(lo)
    BY DEF Recursive
  <2> HIDE DEF Fcn
  <2> QED BY <2>1
<1>2. ASSUME NEW m \in lo..(hi - 1), m \in S PROVE m + 1 \in S
  <2>1. PICK f \in [lo..m -> V] :
          f[lo] = base /\ \A k \in (lo + 1)..m : f[k] = succ[k][f[k - 1]]
    BY <1>2 DEF Recursive
  <2> DEFINE h == [k \in lo..(m + 1) |-> IF k = m + 1 THEN succ[k][f[k - 1]] ELSE f[k]]
  <2>2. m + 1 \in Nat /\ f[m] \in V
    BY <2>1
  <2>3. h \in [lo..(m + 1) -> V]
    BY <2>1, <2>2
  <2>4. h[lo] = base
    BY <2>1
  <2>5. ASSUME NEW k \in (lo + 1)..(m + 1) PROVE h[k] = succ[k][h[k - 1]]
    <3>1. k \in lo..(m + 1) /\ k - 1 \in lo..(m + 1) /\ k - 1 # m + 1
      OBVIOUS
    <3>2. h[k - 1] = f[k - 1]
      BY <3>1
    <3>3. CASE k = m + 1
      BY <3>1, <3>2, <3>3
    <3>4. CASE k # m + 1
      <4>1. k \in (lo + 1)..m /\ h[k] = f[k]
        BY <3>1, <3>4
      <4> QED BY <4>1, <3>2, <2>1
    <3> QED BY <3>3, <3>4
  <2>6. h \in Fcn(m + 1)
    <3> HIDE DEF h
    <3> QED BY <2>3, <2>4, <2>5 DEF Recursive
  <2> HIDE DEF Fcn
  <2> QED BY <2>6
<1>3. hi \in S
  <2>1. \A k \in lo..hi : k \in S
    <3> HIDE DEF S
    <3> QED BY <1>1, <1>2, IntervalInduction, Zenon
  <2> QED BY <2>1
<1> QED BY <1>3

----------------------------------------------------------------------------
\* Sequences: appending, cutting and joining.
LEMMA AppendFacts ==
  ASSUME NEW S, NEW c \in Seq(S), NEW x \in S
  PROVE  /\ Append(c, x) \in Seq(S) /\ Append(c, x) # <<>>
         /\ Len(Append(c, x)) = Len(c) + 1
         /\ Append(c, x)[Len(c) + 1] = x
         /\ \A i \in 1..Len(c) : Append(c, x)[i] = c[i]
OBVIOUS

LEMMA WholeSeq ==
  ASSUME NEW S, NEW c \in Seq(S)
  PROVE  SubSeq(c, 1, Len(c)) = c
OBVIOUS

LEMMA SubSeqFacts ==
  ASSUME NEW S, NEW c \in Seq(S), NEW m \in 1..(Len(c) + 1), NEW n \in (m - 1)..Len(c)
  PROVE  /\ SubSeq(c, m, n) \in Seq(S)
         /\ Len(SubSeq(c, m, n)) = n - m + 1
         /\ \A i \in 1..(n - m + 1) : SubSeq(c, m, n)[i] = c[m + i - 1]
OBVIOUS

LEMMA SuffixFacts ==
  ASSUME NEW S, NEW c \in Seq(S), NEW k \in Nat, k < Len(c)
  PROVE  LET d == SubSeq(c, k + 1, Len(c))
         IN  /\ d \in Seq(S) /\ d # <<>> /\ Len(d) = Len(c) - k
             /\ \A j \in 1..Len(d) : d[j] = c[k + j]
<1>1. Len(c) \in Nat /\ k + 1 \in 1..(Len(c) + 1) /\ Len(c) \in ((k + 1) - 1)..Len(c)
  OBVIOUS
<1> DEFINE d == SubSeq(c, k + 1, Len(c))
<1>2. /\ d \in Seq(S) /\ Len(d) = Len(c) - (k + 1) + 1
      /\ \A j \in 1..(Len(c) - (k + 1) + 1) : d[j] = c[(k + 1) + j - 1]
  BY <1>1, SubSeqFacts
<1> HIDE DEF d
<1>3. Len(d) = Len(c) - k
  BY <1>1, <1>2
<1>4. ASSUME NEW j \in 1..Len(d) PROVE d[j] = c[k + j]
  <2>1. j \in Nat /\ (k + 1) + j - 1 = k + j
    BY <1>1, <1>3
  <2> QED BY <1>2, <2>1
<1>5. d # <<>>
  BY <1>1, <1>3
<1> QED BY <1>2, <1>3, <1>4, <1>5 DEF d

LEMMA ConcatFacts ==
  ASSUME NEW S, NEW c \in Seq(S), NEW d \in Seq(S)
  PROVE  /\ c \o d \in Seq(S) /\ Len(c \o d) = Len(c) + Len(d)
         /\ \A i \in 1..(Len(c) + Len(d)) :
              (c \o d)[i] = IF i <= Len(c) THEN c[i] ELSE d[i - Len(c)]
OBVIOUS

LEMMA AppendConcat ==
  ASSUME NEW S, NEW c \in Seq(S), NEW x \in S
  PROVE  Append(c, x) = c \o <<x>>
OBVIOUS

LEMMA ConcatAssoc ==
  ASSUME NEW S, NEW c \in Seq(S), NEW d \in Seq(S), NEW e \in Seq(S)
  PROVE  c \o (d \o e) = (c \o d) \o e
OBVIOUS

LEMMA RangeOfConcat ==
  ASSUME NEW S, NEW c \in Seq(S), NEW d \in Seq(S)
  PROVE  Range(c \o d) = Range(c) \cup Range(d)
<1>1. /\ DOMAIN c = 1..Len(c) /\ DOMAIN d = 1..Len(d) /\ Len(c) \in Nat /\ Len(d) \in Nat
      /\ DOMAIN (c \o d) = 1..(Len(c) + Len(d))
  OBVIOUS
<1>2. \A i \in 1..(Len(c) + Len(d)) :
        (c \o d)[i] = IF i <= Len(c) THEN c[i] ELSE d[i - Len(c)]
  OBVIOUS
<1>3. Range(c \o d) \subseteq Range(c) \cup Range(d)
  <2>1. ASSUME NEW i \in 1..(Len(c) + Len(d)) PROVE (c \o d)[i] \in Range(c) \cup Range(d)
    <3>1. CASE i <= Len(c)
      BY <1>1, <1>2, <3>1 DEF Range
    <3>2. CASE ~(i <= Len(c))
      <4>1. i - Len(c) \in 1..Len(d)
        BY <1>1, <3>2
      <4> QED BY <1>1, <1>2, <3>2, <4>1 DEF Range
    <3> QED BY <3>1, <3>2
  <2> QED BY <1>1, <2>1 DEF Range
<1>4. Range(c) \subseteq Range(c \o d)
  <2>1. ASSUME NEW i \in 1..Len(c) PROVE c[i] \in Range(c \o d)
    <3>1. i \in 1..(Len(c) + Len(d)) /\ i <= Len(c)
      BY <1>1
    <3> QED BY <1>1, <1>2, <3>1 DEF Range
  <2> QED BY <1>1, <2>1 DEF Range
<1>5. Range(d) \subseteq Range(c \o d)
  <2>1. ASSUME NEW i \in 1..Len(d) PROVE d[i] \in Range(c \o d)
    <3>1. PICK j \in 1..(Len(c) + Len(d)) : ~(j <= Len(c)) /\ j - Len(c) = i
      <4>1. Len(c) + i \in 1..(Len(c) + Len(d)) /\ ~(Len(c) + i <= Len(c)) /\ Len(c) + i - Len(c) = i
        BY <1>1
      <4> QED BY <4>1
    <3> QED BY <1>1, <1>2, <3>1 DEF Range
  <2> QED BY <1>1, <2>1 DEF Range
<1> QED BY <1>3, <1>4, <1>5

LEMMA RangeOfAppend ==
  ASSUME NEW S, NEW c \in Seq(S), NEW x \in S
  PROVE  Range(Append(c, x)) = Range(c) \cup {x}
<1>1. DOMAIN Append(c, x) = DOMAIN c \cup {Len(c) + 1}
  OBVIOUS
<1>2. \A i \in DOMAIN c : Append(c, x)[i] = c[i]
  OBVIOUS
<1>3. Append(c, x)[Len(c) + 1] = x
  OBVIOUS
<1> QED BY <1>1, <1>2, <1>3, Zenon DEF Range

LEMMA RangeOfTail ==
  ASSUME NEW S, NEW c \in Seq(S), c # <<>>
  PROVE  /\ Head(c) \in S /\ Tail(c) \in Seq(S) /\ Len(Tail(c)) = Len(c) - 1
         /\ \A i \in 1..(Len(c) - 1) : Tail(c)[i] = c[i + 1]
         /\ Range(c) = {Head(c)} \cup Range(Tail(c))
<1> DEFINE d == Tail(c)
<1>1. /\ Head(c) = c[1] /\ c[1] \in S /\ d \in Seq(S) /\ Len(d) = Len(c) - 1 /\ Len(c) \in Nat \ {0}
      /\ \A i \in 1..(Len(c) - 1) : d[i] = c[i + 1]
  OBVIOUS
<1> HIDE DEF d
<1>2. Range(d) \subseteq Range(c) /\ c[1] \in Range(c)
  <2>1. DOMAIN d = 1..(Len(c) - 1) /\ DOMAIN c = 1..Len(c)
    BY <1>1
  <2>2. \A i \in DOMAIN d : \E j \in DOMAIN c : d[i] = c[j]
    <3>1. ASSUME NEW i \in DOMAIN d PROVE i + 1 \in DOMAIN c /\ d[i] = c[i + 1]
      BY <1>1, <2>1
    <3> QED BY <3>1
  <2>3. 1 \in DOMAIN c
    BY <1>1, <2>1
  <2> QED BY <2>2, <2>3, Zenon DEF Range
<1>3. ASSUME NEW y \in Range(c), y # c[1] PROVE y \in Range(d)
  <2>1. PICK i \in 1..Len(c) : y = c[i]
    BY DEF Range
  <2>2. PICK j \in 1..(Len(c) - 1) : i = j + 1
    <3>1. i - 1 \in 1..(Len(c) - 1) /\ i = (i - 1) + 1
      BY <1>1, <1>3, <2>1
    <3> QED BY <3>1
  <2>3. y = d[j] /\ j \in DOMAIN d
    BY <1>1, <2>1, <2>2
  <2> QED BY <2>3, Zenon DEF Range
<1> QED BY <1>1, <1>2, <1>3 DEF d

\* A sequence that was put together from two parts can be taken apart.
LEMMA ConcatParts ==
  ASSUME NEW S, NEW c \in Seq(S), NEW d \in Seq(S)
  PROVE  /\ Len(c \o d) = Len(c) + Len(d)
         /\ SubSeq(c \o d, 1, Len(c)) = c
         /\ SubSeq(c \o d, Len(c) + 1, Len(c \o d)) = d
<1> DEFINE e == c \o d
           r == SubSeq(e, Len(c) + 1, Len(e))
<1>1. /\ e \in Seq(S) /\ Len(e) = Len(c) + Len(d) /\ Len(c) \in Nat /\ Len(d) \in Nat
      /\ \A i \in 1..(Len(c) + Len(d)) : e[i] = IF i <= Len(c) THEN c[i] ELSE d[i - Len(c)]
  BY ConcatFacts
<1> HIDE DEF e
<1>2. SubSeq(e, 1, Len(c)) = c
  BY <1>1
<1>3. \A i \in (Len(c) + 1)..Len(e) : e[i] \in S
  BY <1>1
<1>4. /\ r \in Seq(S)
      /\ Len(r) = Len(e) - (Len(c) + 1) + 1
      /\ \A i \in 1..(Len(e) - (Len(c) + 1) + 1) : r[i] = e[Len(c) + 1 + i - 1]
  <2>1. Len(c) + 1 \in 1..(Len(e) + 1) /\ Len(e) \in (Len(c) + 1 - 1)..Len(e)
    BY <1>1
  <2> QED BY <1>1, <2>1, SubSeqFacts
<1> HIDE DEF r
<1>5. Len(r) = Len(d)
  BY <1>1, <1>4
<1>6. ASSUME NEW i \in 1..Len(d) PROVE r[i] = d[i]
  <2>1. i \in 1..(Len(e) - (Len(c) + 1) + 1) /\ Len(c) + 1 + i - 1 = Len(c) + i
        /\ Len(c) + i \in 1..(Len(c) + Len(d)) /\ ~(Len(c) + i <= Len(c)) /\ (Len(c) + i) - Len(c) = i
    BY <1>1
  <2> QED BY <1>1, <1>4, <2>1, Zenon
<1>7. r = d
  BY <1>4, <1>5, <1>6
<1> QED BY <1>1, <1>2, <1>7 DEF e, r

----------------------------------------------------------------------------
(***************************************************************************)
(* Trees.  A node stands for the path from the root to it.                 *)
(***************************************************************************)
ParentIn(P, b) == P[b][Len(P[b]) - 1]

IsTree(N, root, P) ==
  /\ root \in N /\ P \in [N -> Seq(N)] /\ P[root] = <<root>>
  /\ \A b \in N \ {root} : ParentIn(P, b) \in N /\ P[b] = Append(P[ParentIn(P, b)], b)

\* A path ends in its node; that of a node other than the root is the path of its
\* parent and the node.
LEMMA TreeEnds ==
  ASSUME NEW N, NEW root, NEW P, IsTree(N, root, P), NEW b \in N
  PROVE  /\ P[b] \in Seq(N) /\ Len(P[b]) \in Nat \ {0}
         /\ P[b][Len(P[b])] = b
         /\ b # root => /\ ParentIn(P, b) \in N
                        /\ P[b] = Append(P[ParentIn(P, b)], b)
                        /\ Len(P[b]) = Len(P[ParentIn(P, b)]) + 1
                        /\ Len(P[ParentIn(P, b)]) \in Nat \ {0}
<1>1. \A d \in N : P[d] \in Seq(N) /\ Len(P[d]) \in Nat
  BY DEF IsTree
<1>2. \A d \in N \ {root} : ParentIn(P, d) \in N /\ P[d] = Append(P[ParentIn(P, d)], d)
  BY Zenon DEF IsTree
<1>3. \A d \in N \ {root} : Len(P[d]) = Len(P[ParentIn(P, d)]) + 1 /\ P[d][Len(P[d])] = d
  BY <1>1, <1>2, AppendFacts
<1>4. Len(P[root]) = 1 /\ P[root][1] = root
  BY DEF IsTree
<1>5. ASSUME NEW d \in N PROVE Len(P[d]) \in Nat \ {0} /\ P[d][Len(P[d])] = d
  <2>1. CASE d = root
    BY <1>4, <2>1
  <2>2. CASE d # root
    <3>1. Len(P[d]) = Len(P[ParentIn(P, d)]) + 1 /\ Len(P[ParentIn(P, d)]) \in Nat
      BY <1>1, <1>2, <1>3, <2>2
    <3> QED BY <3>1, <1>3, <2>2
  <2> QED BY <2>1, <2>2
<1> QED BY <1>1, <1>2, <1>3, <1>5

\* Every prefix of a path is the path of the node it ends in, and every path begins
\* with the root: induction over the length.
LEMMA TreePrefix ==
  ASSUME NEW N, NEW root, NEW P, IsTree(N, root, P), NEW b \in N, NEW i \in 1..Len(P[b])
  PROVE  /\ P[b][i] \in N
         /\ P[P[b][i]] = SubSeq(P[b], 1, i)
         /\ Len(P[P[b][i]]) = i
         /\ P[b][1] = root
         /\ i > 1 => ParentIn(P, P[b][i]) = P[b][i - 1] /\ P[b][i] # root
<1> DEFINE Good(d) == /\ \A j \in 1..Len(P[d]) : P[P[d][j]] = SubSeq(P[d], 1, j)
                      /\ P[d][1] = root
           S == {k \in Nat : \A d \in N : Len(P[d]) = k => Good(d)}
<1> HIDE DEF Good, S
<1>0. P[root] = <<root>> /\ root \in N /\ Len(P[root]) = 1
  BY DEF IsTree
<1>1. 0 \in S
  BY TreeEnds DEF S
<1>2. ASSUME NEW k \in S PROVE k + 1 \in S
  <2>1. k \in Nat /\ \A d \in N : Len(P[d]) = k => Good(d)
    BY DEF S
  <2>2. ASSUME NEW d \in N, Len(P[d]) = k + 1, d = root PROVE Good(d)
    <3>1. P[d] \in Seq(N) /\ Len(P[d]) = 1 /\ P[d][1] = root
      BY <1>0, <2>2, TreeEnds
    <3>2. SubSeq(P[d], 1, 1) = P[d]
      BY <3>1, WholeSeq
    <3>3. ASSUME NEW j \in 1..Len(P[d]) PROVE P[P[d][j]] = SubSeq(P[d], 1, j)
      <4>1. j = 1
        BY <3>1
      <4> QED BY <2>2, <3>1, <3>2, <4>1
    <3> QED BY <3>1, <3>3 DEF Good
  <2>3. ASSUME NEW d \in N, Len(P[d]) = k + 1, d # root PROVE Good(d)
    <3>1. PICK e \in N : /\ P[d] = Append(P[e], d) /\ Len(P[e]) = k /\ k # 0
                         /\ P[e] \in Seq(N) /\ P[d] \in Seq(N)
      <4>1. Len(P[d]) = Len(P[ParentIn(P, d)]) + 1 /\ Len(P[ParentIn(P, d)]) \in Nat \ {0}
        BY <2>3, TreeEnds
      <4> QED BY <4>1, <2>1, <2>3, TreeEnds
    <3>2. Good(e)
      BY <2>1, <3>1
    <3>3. \A j \in 1..k : P[d][j] = P[e][j]
      BY <2>1, <3>1
    <3>4. ASSUME NEW j \in 1..k PROVE P[P[d][j]] = SubSeq(P[d], 1, j)
      <4>1. SubSeq(P[d], 1, j) = SubSeq(P[e], 1, j)
        BY <2>1, <3>1, <3>3
      <4> QED BY <4>1, <3>1, <3>2, <3>3 DEF Good
    <3>5. P[P[d][k + 1]] = SubSeq(P[d], 1, k + 1)
      <4>1. P[d] \in Seq(N) /\ P[d][Len(P[d])] = d
        BY TreeEnds
      <4> QED BY <2>3, <4>1, WholeSeq
    <3>6. \A j \in 1..Len(P[d]) : P[P[d][j]] = SubSeq(P[d], 1, j)
      BY <2>1, <2>3, <3>4, <3>5
    <3>7. P[d][1] = root
      BY <2>1, <3>1, <3>2, <3>3 DEF Good
    <3> QED BY <3>6, <3>7 DEF Good
  <2> QED BY <2>1, <2>2, <2>3 DEF S
<1>3. S = Nat
  <2>1. S \in SUBSET Nat
    BY DEF S
  <2> QED BY <1>1, <1>2, <2>1, SetInduction
<1>4. P[b] \in Seq(N) /\ Len(P[b]) \in Nat
  BY TreeEnds
<1>5. Good(b)
  BY <1>3, <1>4 DEF S
<1>6. P[b][i] \in N /\ P[P[b][i]] = SubSeq(P[b], 1, i) /\ P[b][1] = root
  BY <1>4, <1>5 DEF Good
<1>7. Len(SubSeq(P[b], 1, i)) = i
  BY <1>4
<1>8. ASSUME i > 1 PROVE ParentIn(P, P[b][i]) = P[b][i - 1]
  BY <1>4, <1>6, <1>7, <1>8 DEF ParentIn
<1>9. ASSUME i > 1 PROVE P[b][i] # root
  <2>1. Len(P[P[b][i]]) = i /\ i # 1
    BY <1>6, <1>7, <1>9
  <2> QED BY <1>0, <2>1, Zenon
<1> QED BY <1>6, <1>7, <1>8, <1>9

\* A node is on another's path at its own depth only.
LEMMA TreeOnPath ==
  ASSUME NEW N, NEW root, NEW P, IsTree(N, root, P), NEW b \in N, NEW x \in Range(P[b])
  PROVE  /\ x \in N /\ Len(P[x]) \in 1..Len(P[b])
         /\ P[b][Len(P[x])] = x
         /\ P[x] = SubSeq(P[b], 1, Len(P[x]))
<1>1. P[b] \in Seq(N) /\ Len(P[b]) \in Nat
  BY TreeEnds
<1>2. PICK i \in 1..Len(P[b]) : x = P[b][i]
  BY <1>1 DEF Range
<1> QED BY <1>2, TreePrefix
=============================================================================

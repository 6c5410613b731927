---------------------------- MODULE HardForkProofs ----------------------------
(***************************************************************************)
(* Proofs about the hard fork state, for every table of forks, every       *)
(* window size and all blocks that may arrive.                             *)
(***************************************************************************)
EXTENDS HardFork, DataLemmas, FiniteSetTheorems

(***************************************************************************)
(* The table of forks, votes and windows.                                  *)
(***************************************************************************)
Block == Blocks \cup {Genesis}

Fork == 1..Len(Forks)

Votes == 1..MaxVersion

LEMMA Bytes == \A x \in Byte : x \in Nat
BY DEF Byte

LEMMA ForkTable ==
  /\ Len(Forks) \in Nat \ {0}
  /\ \A n \in Fork : Version(n) \in Byte \ {0} /\ Version(n) \in Nat \ {0}
  /\ \A n \in Fork : n # 1 => Version(n - 1) < Version(n)
<1>1. /\ Forks \in Seq([version : Byte \ {0}, height : Nat, threshold : 0..100]) /\ Forks # <<>>
      /\ \A n \in 2..Len(Forks) : Forks[n].version > Forks[n - 1].version
  BY ForkAssumption, Zenon
<1>2. Len(Forks) \in Nat \ {0}
  BY <1>1
<1>3. ASSUME NEW n \in Fork PROVE Version(n) \in Byte \ {0} /\ Version(n) \in Nat \ {0}
  <2>1. Forks[n] \in [version : Byte \ {0}, height : Nat, threshold : 0..100]
    <3> DEFINE T == [version : Byte \ {0}, height : Nat, threshold : 0..100]
    <3>1. Forks \in Seq(T) /\ n \in 1..Len(Forks)
      BY <1>1 DEF Fork
    <3> HIDE DEF T
    <3>2. Forks[n] \in T
      BY <3>1
    <3> QED BY <3>2 DEF T
  <2> QED BY <2>1, Bytes, Zenon DEF Version
<1>4. ASSUME NEW n \in Fork, n # 1 PROVE Version(n - 1) < Version(n)
  <2>1. n \in 2..Len(Forks) /\ n - 1 \in Fork
    BY <1>2, <1>4 DEF Fork
  <2>2. Forks[n].version > Forks[n - 1].version
    BY <1>1, <2>1
  <2>3. Version(n) \in Nat /\ Version(n - 1) \in Nat
    BY <1>3, <2>1
  <2> QED BY <2>2, <2>3 DEF Version
<1> QED BY <1>2, <1>3, <1>4

LEMMA ForkNumbers == DOMAIN Forks = Fork /\ Fork \in SUBSET Nat
<1>1. Forks \in Seq([version : Byte \ {0}, height : Nat, threshold : 0..100])
  BY ForkAssumption, Zenon
<1> QED BY <1>1 DEF Fork

\* Positions in a chain
LEMMA Position ==
  ASSUME NEW l \in Nat, NEW s \in 1..l
  PROVE  /\ s \in Nat /\ s \in 0..l /\ s - 1 \in 0..l /\ s - 1 <= s
         /\ s \in 0..s /\ s \in 1..s /\ s - 1 \in 0..s
         /\ \A m \in Nat : l <= m => s \in 0..m
OBVIOUS

LEMMA Shift ==
  ASSUME NEW k \in Nat, NEW l \in Nat
  PROVE  (k - l) + 1 = (k + 1) - l /\ l + ((k - l) + 1) = k + 1
OBVIOUS

\* Versions grow along the table.
LEMMA VersionsGrow ==
  ASSUME NEW n \in Fork, NEW m \in Fork
  PROVE  Version(n) <= Version(m) <=> n <= m
<1>1. ASSUME NEW a \in Fork, NEW b \in Fork, a < b PROVE Version(a) < Version(b)
  <2> DEFINE S == {k \in (a + 1)..b : Version(a) < Version(k)}
  <2>1. a + 1 \in Nat /\ b \in Nat /\ a + 1 <= b /\ Len(Forks) \in Nat
    BY <1>1, ForkTable DEF Fork
  <2>2. a + 1 \in S
    <3>1. a + 1 \in Fork /\ a + 1 # 1 /\ (a + 1) - 1 = a
      BY <2>1 DEF Fork
    <3>2. Version(a) < Version(a + 1)
      BY <3>1, ForkTable
    <3> QED BY <2>1, <3>2
  <2>3. ASSUME NEW k \in (a + 1)..(b - 1), k \in S PROVE k + 1 \in S
    <3>1. k + 1 \in Fork /\ k + 1 # 1 /\ (k + 1) - 1 = k /\ k \in Fork /\ k + 1 \in (a + 1)..b
      BY <2>1 DEF Fork
    <3>2. Version(k) < Version(k + 1)
      BY <3>1, ForkTable
    <3>3. Version(a) \in Nat /\ Version(k) \in Nat /\ Version(k + 1) \in Nat
      BY <3>1, ForkTable
    <3>4. Version(a) < Version(k)
      BY <2>3
    <3>5. Version(a) < Version(k + 1)
      BY <3>2, <3>3, <3>4
    <3> QED BY <3>1, <3>5
  <2> HIDE DEF S
  <2>4. \A k \in (a + 1)..b : k \in S
    BY <2>1, <2>2, <2>3, IntervalInduction, Zenon
  <2>5. b \in (a + 1)..b
    BY <2>1
  <2> QED BY <2>4, <2>5 DEF S
<1>2. Version(n) \in Nat /\ Version(m) \in Nat /\ n \in Nat /\ m \in Nat
  BY ForkTable DEF Fork
<1>3. n < m => Version(n) < Version(m)
  BY <1>1
<1>4. m < n => Version(m) < Version(n)
  BY <1>1
<1>5. CASE n = m
  BY <1>2, <1>5
<1>6. CASE n < m
  BY <1>2, <1>3, <1>6
<1>7. CASE m < n
  BY <1>2, <1>4, <1>7
<1> QED BY <1>2, <1>5, <1>6, <1>7

LEMMA VoteTypes ==
  /\ MaxVersion \in Nat \ {0}
  /\ \A n \in Fork : Version(n) \in Votes
  /\ \A b \in Block : b.version \in Byte /\ BlockVote(b) \in Nat /\ VoteOf(b) \in Votes
<1>1. Len(Forks) \in Fork
  BY ForkTable DEF Fork
<1>2. MaxVersion = Version(Len(Forks))
  BY DEF MaxVersion, Version
<1>3. MaxVersion \in Nat \ {0}
  BY <1>1, <1>2, ForkTable
<1>4. ASSUME NEW n \in Fork PROVE Version(n) \in Votes
  <2>1. n <= Len(Forks)
    BY ForkTable DEF Fork
  <2>2. Version(n) <= Version(Len(Forks)) /\ Version(n) \in Nat \ {0}
    BY <1>1, <2>1, VersionsGrow, ForkTable
  <2>3. Version(n) <= MaxVersion
    BY <1>2, <2>2
  <2> QED BY <1>3, <2>2, <2>3 DEF Votes
<1>5. ASSUME NEW b \in Block PROVE b.version \in Byte /\ BlockVote(b) \in Nat /\ VoteOf(b) \in Votes
  <2>1. b \in [version : Byte, vote : Byte]
    <3> DEFINE T == [version : Byte, vote : Byte]
    <3>1. {Genesis} \cup Blocks \subseteq T
      BY ForkAssumption, Zenon
    <3> HIDE DEF T
    <3>2. b \in T
      BY <3>1 DEF Block
    <3> QED BY <3>2 DEF T
  <2>2. BlockVote(b) \in Nat \ {0}
    BY <2>1, Bytes DEF BlockVote
  <2>3. VoteOf(b) \in Votes
    BY <1>3, <2>2 DEF VoteOf, EffectiveVersion, Votes
  <2> QED BY <2>1, <2>2, <2>3
<1> QED BY <1>3, <1>4, <1>5

\* The largest element of a set of numbers between two bounds.
LEMMA LargestElement ==
  ASSUME NEW hi \in Nat, NEW S \in SUBSET (0..hi), S # {}
  PROVE  Max(S) \in S /\ \A x \in S : x <= Max(S)
<1> DEFINE D == {hi - x : x \in S}
<1>1. D \in SUBSET Nat /\ D # {}
  <2>1. \A x \in S : hi - x \in Nat
    OBVIOUS
  <2> QED BY <2>1
<1>2. PICK d \in D : \A y \in D : d <= y
  <2> HIDE DEF D
  <2> QED BY <1>1, LeastElement
<1>3. PICK x \in S : d = hi - x
  BY <1>2
<1>4. ASSUME NEW y \in S PROVE x >= y
  <2>1. hi - y \in D
    OBVIOUS
  <2>2. hi - x <= hi - y
    BY <1>2, <1>3, <2>1, Zenon
  <2> QED BY <2>2
<1>5. Max(S) \in S /\ \A y \in S : Max(S) >= y
  <2>1. \E m \in S : \A y \in S : m >= y
    BY <1>4
  <2> QED BY <2>1, Zenon DEF Max
<1> QED BY <1>5

----------------------------------------------------------------------------
\* The places of a sequence that hold an element of T, and how many they are.
PlacesOf(s, T) == {i \in 1..Len(s) : s[i] \in T}

LEMMA PlacesFinite ==
  ASSUME NEW S, NEW s \in Seq(S), NEW T
  PROVE  /\ IsFiniteSet(PlacesOf(s, T)) /\ Cardinality(PlacesOf(s, T)) \in Nat
         /\ Cardinality(PlacesOf(s, T)) = 0 <=> Range(s) \cap T = {}
<1>1. IsFiniteSet(PlacesOf(s, T))
  <2>1. IsFiniteSet(1..Len(s))
    BY FS_Interval
  <2>2. PlacesOf(s, T) \in SUBSET (1..Len(s))
    BY DEF PlacesOf
  <2> QED BY <2>1, <2>2, FS_Subset
<1>2. PlacesOf(s, T) = {} <=> Range(s) \cap T = {}
  <2>1. DOMAIN s = 1..Len(s)
    OBVIOUS
  <2> QED BY <2>1, Zenon DEF PlacesOf, Range
<1>3. Cardinality(PlacesOf(s, T)) \in Nat
  BY <1>1, FS_CardinalityType
<1>4. Cardinality(PlacesOf(s, T)) = 0 <=> PlacesOf(s, T) = {}
  BY <1>1, FS_EmptySet, Zenon
<1> QED BY <1>1, <1>2, <1>3, <1>4, Zenon

LEMMA PlacesAppend ==
  ASSUME NEW S, NEW s \in Seq(S), NEW x \in S, NEW T
  PROVE  Cardinality(PlacesOf(Append(s, x), T))
           = Cardinality(PlacesOf(s, T)) + (IF x \in T THEN 1 ELSE 0)
<1> DEFINE d == Append(s, x)
           n == Len(s) + 1
<1>1. /\ d[n] = x /\ \A i \in 1..Len(s) : d[i] = s[i]
      /\ 1..Len(d) = (1..Len(s)) \cup {n} /\ n \notin 1..Len(s)
  OBVIOUS
<1>2. IsFiniteSet(PlacesOf(s, T)) /\ Cardinality(PlacesOf(s, T)) \in Nat
  BY PlacesFinite
<1> HIDE DEF d, n
<1>3. PlacesOf(d, T) = IF x \in T THEN PlacesOf(s, T) \cup {n} ELSE PlacesOf(s, T)
  BY <1>1 DEF PlacesOf
<1>4. n \notin PlacesOf(s, T)
  BY <1>1 DEF PlacesOf
<1>5. Cardinality(PlacesOf(s, T) \cup {n}) = Cardinality(PlacesOf(s, T)) + 1
  BY <1>2, <1>4, FS_AddElement, Zenon
<1> QED BY <1>2, <1>3, <1>5 DEF d

LEMMA PlacesTail ==
  ASSUME NEW S, NEW s \in Seq(S), s # <<>>, NEW T
  PROVE  Cardinality(PlacesOf(Tail(s), T))
           = Cardinality(PlacesOf(s, T)) - (IF s[1] \in T THEN 1 ELSE 0)
<1> DEFINE d == Tail(s)
           W == PlacesOf(s, T) \ {1}
           f == [i \in PlacesOf(d, T) |-> i + 1]
<1>1. /\ d \in Seq(S) /\ Len(d) = Len(s) - 1 /\ Len(s) \in Nat \ {0}
      /\ \A i \in 1..(Len(s) - 1) : d[i] = s[i + 1]
  OBVIOUS
<1> HIDE DEF d
<1>2. \A i \in PlacesOf(d, T) : i \in Nat /\ i + 1 \in W
  BY <1>1 DEF PlacesOf
<1>3. f \in Injection(PlacesOf(d, T), W)
  BY <1>2 DEF Injection, IsInjective
<1>4. f \in Surjection(PlacesOf(d, T), W)
  <2>1. ASSUME NEW k \in W PROVE \E i \in PlacesOf(d, T) : f[i] = k
    <3>1. k \in 1..Len(s) /\ k # 1 /\ s[k] \in T
      BY DEF PlacesOf
    <3>2. k - 1 \in 1..(Len(s) - 1) /\ (k - 1) + 1 = k
      BY <1>1, <3>1
    <3>3. k - 1 \in PlacesOf(d, T)
      BY <1>1, <3>1, <3>2 DEF PlacesOf
    <3> QED BY <3>2, <3>3
  <2> QED BY <1>3, <2>1 DEF Surjection, Injection
<1>5. ExistsBijection(PlacesOf(d, T), W)
  BY <1>3, <1>4, Zenon DEF ExistsBijection, Bijection
<1>6. /\ IsFiniteSet(PlacesOf(s, T)) /\ Cardinality(PlacesOf(s, T)) \in Nat
      /\ IsFiniteSet(PlacesOf(d, T))
  BY <1>1, PlacesFinite
<1>7. Cardinality(W) = Cardinality(PlacesOf(d, T))
  BY <1>5, <1>6, FS_Bijection
<1>8. Cardinality(W) = IF 1 \in PlacesOf(s, T) THEN Cardinality(PlacesOf(s, T)) - 1
                       ELSE Cardinality(PlacesOf(s, T))
  BY <1>6, FS_RemoveElement, Zenon
<1>9. 1 \in PlacesOf(s, T) <=> s[1] \in T
  BY <1>1 DEF PlacesOf
<1> QED BY <1>6, <1>7, <1>8, <1>9 DEF d

----------------------------------------------------------------------------
(***************************************************************************)
(* The in-memory state.                                                    *)
(***************************************************************************)
States == [versions : Seq(Votes), last : [Votes -> Nat], cur : Fork]

Tally(vs) == [v \in Votes |-> Cardinality({i \in DOMAIN vs : vs[i] = v})]

State(vs, n) == [versions |-> vs, last |-> Tally(vs), cur |-> n]

\* last_versions counts the votes in versions.
Counted(s) ==
  s \in States /\ Len(s.versions) <= WindowSize /\ s.last = Tally(s.versions)

LEMMA TallyType ==
  ASSUME NEW vs \in Seq(Votes)
  PROVE  /\ Tally(vs) \in [Votes -> Nat]
         /\ \A v \in Votes : Tally(vs)[v] = Cardinality(PlacesOf(vs, {v}))
<1>1. ASSUME NEW v \in Votes PROVE Tally(vs)[v] = Cardinality(PlacesOf(vs, {v}))
  <2>1. {i \in DOMAIN vs : vs[i] = v} = PlacesOf(vs, {v})
    BY DEF PlacesOf
  <2> QED BY <2>1, Zenon DEF Tally
<1>2. \A v \in Votes : Cardinality(PlacesOf(vs, {v})) \in Nat
  BY PlacesFinite
<1>3. Tally(vs) = [v \in Votes |-> Tally(vs)[v]]
  BY DEF Tally
<1>4. \A v \in Votes : Tally(vs)[v] \in Nat
  BY <1>1, <1>2, Zenon
<1> QED BY <1>1, <1>3, <1>4

LEMMA StateCounted ==
  ASSUME NEW vs \in Seq(Votes), Len(vs) <= WindowSize, NEW n \in Fork
  PROVE  Counted(State(vs, n))
BY TallyType DEF Counted, State, States

LEMMA CountedState ==
  ASSUME NEW s, Counted(s)
  PROVE  /\ s = State(s.versions, s.cur) /\ s.versions \in Seq(Votes) /\ s.cur \in Fork
         /\ Len(s.versions) <= WindowSize
BY DEF Counted, State, States

\* The window after one more vote.
Slide(vs, v) == Append(IF Len(vs) >= WindowSize THEN Tail(vs) ELSE vs, v)

LEMMA SlideFacts ==
  ASSUME NEW vs \in Seq(Votes), Len(vs) <= WindowSize, NEW v \in Votes
  PROVE  /\ Slide(vs, v) \in Seq(Votes) /\ Len(Slide(vs, v)) <= WindowSize
         /\ Tally(Slide(vs, v)) =
              [(IF Len(vs) >= WindowSize THEN [Tally(vs) EXCEPT ![vs[1]] = @ - 1] ELSE Tally(vs))
                 EXCEPT ![v] = @ + 1]
<1> DEFINE full == Len(vs) >= WindowSize
           rest == IF full THEN Tail(vs) ELSE vs
           less == IF full THEN [Tally(vs) EXCEPT ![vs[1]] = @ - 1] ELSE Tally(vs)
<1>1. WindowSize \in Nat \ {0} /\ Len(vs) \in Nat
  BY ForkAssumption
<1>2. /\ rest \in Seq(Votes) /\ Len(rest) < WindowSize
      /\ full => vs # <<>> /\ vs[1] \in Votes
  BY <1>1
<1>3. ASSUME NEW u \in Votes PROVE Tally(rest)[u] = less[u]
  <2>1. CASE full
    <3>1. Cardinality(PlacesOf(Tail(vs), {u})) = Cardinality(PlacesOf(vs, {u})) - (IF vs[1] \in {u} THEN 1 ELSE 0)
      BY <1>2, <2>1, PlacesTail
    <3>2. Tally(Tail(vs))[u] = Tally(vs)[u] - (IF vs[1] = u THEN 1 ELSE 0)
      BY <1>2, <2>1, <3>1, TallyType, Zenon
    <3>3. Tally(vs) \in [Votes -> Nat]
      BY TallyType
    <3> QED BY <1>2, <2>1, <3>2, <3>3
  <2>2. CASE ~full
    BY <2>2
  <2> QED BY <2>1, <2>2
<1>4. less \in [Votes -> Int]
  <2>1. Tally(vs) \in [Votes -> Nat]
    BY TallyType
  <2>2. CASE full
    BY <1>2, <2>1, <2>2
  <2>3. CASE ~full
    BY <2>1, <2>3
  <2> QED BY <2>2, <2>3
<1> HIDE DEF rest, less
<1>5. Slide(vs, v) = Append(rest, v)
  BY DEF Slide, rest
<1>6. Append(rest, v) \in Seq(Votes) /\ Len(Append(rest, v)) = Len(rest) + 1
  BY <1>2
<1>7. ASSUME NEW u \in Votes PROVE Tally(Append(rest, v))[u] = [less EXCEPT ![v] = @ + 1][u]
  <2>1. Cardinality(PlacesOf(Append(rest, v), {u})) = Cardinality(PlacesOf(rest, {u})) + (IF v \in {u} THEN 1 ELSE 0)
    BY <1>2, PlacesAppend
  <2>2. Tally(Append(rest, v))[u] = Tally(rest)[u] + (IF v = u THEN 1 ELSE 0)
    BY <1>2, <1>6, <2>1, TallyType, Zenon
  <2>3. less[u] \in Int
    BY <1>4
  <2> QED BY <1>3, <1>4, <2>2, <2>3
<1>8. Tally(Append(rest, v)) = [less EXCEPT ![v] = @ + 1]
  <2>1. Tally(Append(rest, v)) \in [Votes -> Nat]
    BY <1>6, TallyType, Zenon
  <2>2. [less EXCEPT ![v] = @ + 1] = [u \in Votes |-> [less EXCEPT ![v] = @ + 1][u]]
    BY <1>4, Zenon
  <2> QED BY <1>7, <2>1, <2>2
<1>9. Len(Append(rest, v)) <= WindowSize
  <2>1. Len(rest) \in Nat
    BY <1>2
  <2> QED BY <1>1, <1>2, <1>6, <2>1
<1> QED BY <1>5, <1>6, <1>8, <1>9 DEF less

\* The window after HardFork::add has taken one vote in.
LEMMA WithVoteState ==
  ASSUME NEW s, Counted(s), NEW v \in Votes
  PROVE  WithVote(s, v) = State(Slide(s.versions, v), s.cur)
<1>1. /\ s = State(s.versions, s.cur) /\ s.versions \in Seq(Votes) /\ s.cur \in Fork
      /\ Len(s.versions) <= WindowSize /\ s.last = Tally(s.versions)
  BY CountedState DEF Counted
<1> DEFINE vs == Slide(s.versions, v)
           l == [(IF Len(s.versions) >= WindowSize THEN [s.last EXCEPT ![s.versions[1]] = @ - 1] ELSE s.last)
                   EXCEPT ![v] = @ + 1]
<1>2. WithVote(s, v) = [versions |-> vs, last |-> l, cur |-> s.cur]
  BY DEF WithVote, Slide
<1>3. l = Tally(vs)
  BY <1>1, SlideFacts, Zenon
<1> HIDE DEF vs, l
<1> QED BY <1>2, <1>3 DEF State, vs

\* get_voted_fork_index never returns less than the index in force.
LEMMA RaisedState ==
  ASSUME NEW s, Counted(s), NEW h \in Nat
  PROVE  /\ Counted(Raised(s, h)) /\ Raised(s, h).versions = s.versions
         /\ s.cur <= Raised(s, h).cur
<1>1. /\ s = State(s.versions, s.cur) /\ s.versions \in Seq(Votes) /\ s.cur \in Fork
      /\ Len(s.versions) <= WindowSize
  BY CountedState
<1> DEFINE n == VotedForkIndex(s, h)
           S == {s.cur} \cup {k \in (s.cur + 1)..Len(Forks) :
                                /\ h >= Forks[k].height
                                /\ VotesFor(s.last, k) >= Threshold(k)}
<1>2. S \in SUBSET (0..Len(Forks)) /\ S # {} /\ S \in SUBSET Fork /\ s.cur \in S /\ Len(Forks) \in Nat
  BY <1>1, ForkTable DEF Fork
<1>3. n = Max(S)
  BY DEF VotedForkIndex
<1> HIDE DEF S
<1>4. n \in Fork /\ s.cur <= n
  BY <1>2, <1>3, LargestElement, Zenon
<1> HIDE DEF n
<1>5. Raised(s, h) = State(s.versions, n)
  BY <1>1 DEF Raised, State, n
<1>6. Counted(State(s.versions, n))
  BY <1>1, <1>4, StateCounted
<1> QED BY <1>4, <1>5, <1>6 DEF State

----------------------------------------------------------------------------
(***************************************************************************)
(* HardFork::add, and the blocks of a chain added one after the other.     *)
(***************************************************************************)
CountedStates == {s \in States : Counted(s)}

Memories == [hf : CountedStates, recorded : [0..(MaxHeight - 1) -> Byte]]

\* What add does to the in-memory state.
Step(s, b, h) ==
  IF DoCheck(s, b) THEN Raised(WithVote(s, VoteOf(b)), h + 1) ELSE s

LEMMA StepFacts ==
  ASSUME NEW s, Counted(s), NEW b \in Block, NEW h \in Nat
  PROVE  /\ Counted(Step(s, b, h)) /\ s.cur <= Step(s, b, h).cur
         /\ DoCheck(s, b) => Step(s, b, h).versions = Slide(s.versions, VoteOf(b))
<1>1. VoteOf(b) \in Votes /\ h + 1 \in Nat
  BY VoteTypes
<1>2. s.versions \in Seq(Votes) /\ s.cur \in Fork /\ Len(s.versions) <= WindowSize /\ s.cur \in Int
  BY CountedState DEF Fork
<1> DEFINE w == WithVote(s, VoteOf(b))
<1>3. w = State(Slide(s.versions, VoteOf(b)), s.cur)
  BY <1>1, WithVoteState
<1>4. Counted(w) /\ w.cur = s.cur /\ w.versions = Slide(s.versions, VoteOf(b))
  <2>1. Slide(s.versions, VoteOf(b)) \in Seq(Votes) /\ Len(Slide(s.versions, VoteOf(b))) <= WindowSize
    BY <1>1, <1>2, SlideFacts, Zenon
  <2>2. Counted(State(Slide(s.versions, VoteOf(b)), s.cur))
    BY <1>2, <2>1, StateCounted
  <2> HIDE DEF w
  <2> QED BY <1>3, <2>2, Zenon DEF State
<1> HIDE DEF w
<1>5. /\ Counted(Raised(w, h + 1)) /\ Raised(w, h + 1).versions = w.versions
      /\ w.cur <= Raised(w, h + 1).cur
  BY <1>1, <1>4, RaisedState
<1>6. CASE DoCheck(s, b)
  BY <1>4, <1>5, <1>6, Zenon DEF Step, w
<1>7. CASE ~DoCheck(s, b)
  BY <1>2, <1>7 DEF Step
<1> QED BY <1>6, <1>7

LEMMA AddFacts ==
  ASSUME NEW m \in Memories, NEW b \in Block, NEW h \in 0..(MaxHeight - 1)
  PROVE  /\ Add(m, b, h) \in Memories /\ Add(m, b, h).hf = Step(m.hf, b, h)
         /\ Add(m, b, h).recorded =
              IF DoCheck(m.hf, b) THEN [m.recorded EXCEPT ![h] = b.version] ELSE m.recorded
<1>1. /\ m.hf \in States /\ Counted(m.hf) /\ m.recorded \in [0..(MaxHeight - 1) -> Byte]
      /\ m = [hf |-> m.hf, recorded |-> m.recorded] /\ h \in Nat
  BY ForkAssumption DEF Memories, CountedStates
<1>2. Counted(Step(m.hf, b, h)) /\ b.version \in Byte
  BY <1>1, StepFacts, VoteTypes
<1>3. Step(m.hf, b, h) \in CountedStates
  BY <1>2 DEF Counted, CountedStates
<1>4. CASE DoCheck(m.hf, b)
  <2>1. Version(m.hf.cur) = b.version
    BY <1>4 DEF DoCheck
  <2>2. Add(m, b, h) = [hf |-> Step(m.hf, b, h), recorded |-> [m.recorded EXCEPT ![h] = b.version]]
    BY <1>4, <2>1 DEF Add, Step
  <2>3. [m.recorded EXCEPT ![h] = b.version] \in [0..(MaxHeight - 1) -> Byte]
    BY <1>1, <1>2
  <2> QED BY <1>3, <1>4, <2>2, <2>3 DEF Memories
<1>5. CASE ~DoCheck(m.hf, b)
  BY <1>5 DEF Add, Step
<1> QED BY <1>4, <1>5, Zenon

\* f[k] is the memory after the blocks of c at the heights h to k - 1.
Trace(m, c, h, f) ==
  /\ f \in [h..Len(c) -> Memories] /\ f[h] = m
  /\ \A k \in (h + 1)..Len(c) : f[k] = Add(f[k - 1], c[k], k - 1)

LEMMA AddFromTrace ==
  ASSUME NEW m \in Memories, NEW c \in Seq(Block), Len(c) <= MaxHeight, NEW h \in 0..Len(c)
  PROVE  \E f : Trace(m, c, h, f) /\ AddFrom(m, c, h) = f[Len(c)]
<1> DEFINE n == Len(c)
           Is(g) == g = [k \in h..Len(c) |-> IF k = h THEN m ELSE Add(g[k - 1], c[k], k - 1)]
           f == CHOOSE g : Is(g)
<1>1. /\ n \in Nat /\ h \in Nat /\ h <= n /\ n \in h..n
      /\ \A k \in (h + 1)..n : /\ k \in Nat /\ c[k] \in Block /\ k - 1 \in 0..(MaxHeight - 1)
                               /\ k \in h..n /\ k # h /\ k - 1 \in h..n
      /\ \A k \in h..n : k # h => k \in (h + 1)..n
  BY ForkAssumption
<1>2. AddFrom(m, c, h) = f[n]
  BY DEF AddFrom
<1>3. \E g : Is(g)
  <2> DEFINE succ == [k \in Nat |-> [a \in Memories |->
                        IF k \in (h + 1)..n THEN Add(a, c[k], k - 1) ELSE a]]
  <2>1. ASSUME NEW k \in Nat, NEW a \in Memories PROVE succ[k][a] \in Memories
    <3>1. CASE k \in (h + 1)..n
      <4>1. Add(a, c[k], k - 1) \in Memories
        BY <1>1, <3>1, AddFacts, Zenon
      <4> QED BY <3>1, <4>1
    <3>2. CASE k \notin (h + 1)..n
      BY <3>2
    <3> QED BY <3>1, <3>2
  <2>2. succ \in [Nat -> [Memories -> Memories]]
    BY <2>1
  <2>3. \A k \in (h + 1)..n : \A a \in Memories : succ[k][a] = Add(a, c[k], k - 1)
    BY <1>1
  <2> HIDE DEF succ, n
  <2>4. Recursive(h, n, Memories, m, succ) # {}
    BY <1>1, <2>2, RecursionOnInterval, Zenon
  <2>5. PICK g \in [h..n -> Memories] : g[h] = m /\ \A k \in (h + 1)..n : g[k] = succ[k][g[k - 1]]
    BY <2>4, Zenon DEF Recursive
  <2>6. \A k \in h..n : g[k] = IF k = h THEN m ELSE Add(g[k - 1], c[k], k - 1)
    BY <1>1, <2>3, <2>5
  <2>7. g = [k \in h..n |-> IF k = h THEN m ELSE Add(g[k - 1], c[k], k - 1)]
    BY <2>5, <2>6
  <2>8. Is(g)
    BY <2>7, Zenon DEF n
  <2> QED BY <2>8, Zenon
<1>4. Is(f)
  <2> HIDE DEF Is
  <2> QED BY <1>3
<1> HIDE DEF f
<1>5. f = [k \in h..n |-> f[k]] /\ f[h] = m /\ \A k \in (h + 1)..n : f[k] = Add(f[k - 1], c[k], k - 1)
  <2>1. f = [k \in h..n |-> IF k = h THEN m ELSE Add(f[k - 1], c[k], k - 1)]
    BY <1>4
  <2> HIDE DEF n, Is
  <2>2. \A k \in h..n : f[k] = IF k = h THEN m ELSE Add(f[k - 1], c[k], k - 1)
    BY <2>1, Zenon
  <2>3. f[h] = m
    BY <1>1, <2>2
  <2>4. \A k \in (h + 1)..n : f[k] = Add(f[k - 1], c[k], k - 1)
    BY <1>1, <2>2
  <2>5. f = [k \in h..n |-> f[k]]
    BY <2>1, Zenon
  <2> QED BY <2>3, <2>4, <2>5, Zenon
<1> HIDE DEF n, Is
<1>6. \A k \in h..n : f[k] \in Memories
  <2> DEFINE S == {k \in h..n : f[k] \in Memories}
  <2>1. h \in S
    BY <1>1, <1>5
  <2>2. ASSUME NEW k \in h..(n - 1), k \in S PROVE k + 1 \in S
    <3>1. k + 1 \in (h + 1)..n /\ (k + 1) - 1 = k /\ k + 1 \in h..n
      BY <1>1
    <3>2. f[k + 1] = Add(f[k], c[k + 1], k) /\ c[k + 1] \in Block /\ k \in 0..(MaxHeight - 1)
      BY <1>1, <1>5, <3>1, Zenon
    <3>3. f[k + 1] \in Memories
      BY <2>2, <3>2, AddFacts, Zenon
    <3> QED BY <3>1, <3>3
  <2> HIDE DEF S
  <2>3. \A k \in h..n : k \in S
    BY <1>1, <2>1, <2>2, IntervalInduction, Zenon
  <2> QED BY <2>3 DEF S
<1>7. Trace(m, c, h, f)
  BY <1>5, <1>6, Zenon DEF Trace, n
<1> QED BY <1>2, <1>7 DEF n

----------------------------------------------------------------------------
(***************************************************************************)
(* The votes of the last window_size of the first k blocks.                *)
(***************************************************************************)
Lo(k) == IF k > WindowSize THEN k - WindowSize ELSE 0

Window(c, k) == [i \in 1..(k - Lo(k)) |-> VoteOf(c[Lo(k) + i])]

LEMMA WindowType ==
  ASSUME NEW c \in Seq(Block), NEW k \in 0..Len(c)
  PROVE  /\ Lo(k) \in 0..k /\ k - Lo(k) \in Nat /\ k - Lo(k) <= WindowSize
         /\ Window(c, k) \in Seq(Votes) /\ Len(Window(c, k)) = k - Lo(k)
         /\ \A i \in 1..(k - Lo(k)) : Window(c, k)[i] = VoteOf(c[Lo(k) + i])
<1>1. WindowSize \in Nat \ {0} /\ k \in Nat /\ Len(c) \in Nat /\ k <= Len(c)
  BY ForkAssumption
<1>2. Lo(k) \in 0..k /\ k - Lo(k) \in Nat /\ k - Lo(k) <= WindowSize
  BY <1>1 DEF Lo
<1>3. ASSUME NEW i \in 1..(k - Lo(k)) PROVE VoteOf(c[Lo(k) + i]) \in Votes
  <2>1. Lo(k) + i \in 1..Len(c)
    BY <1>1, <1>2
  <2>2. c[Lo(k) + i] \in Block
    BY <2>1
  <2> QED BY <2>2, VoteTypes
<1>4. Window(c, k) \in [1..(k - Lo(k)) -> Votes]
  BY <1>3 DEF Window
<1>5. Window(c, k) \in Seq(Votes) /\ Len(Window(c, k)) = k - Lo(k)
  BY <1>2, <1>4
<1>6. \A i \in 1..(k - Lo(k)) : Window(c, k)[i] = VoteOf(c[Lo(k) + i])
  BY Zenon DEF Window
<1> QED BY <1>2, <1>5, <1>6

LEMMA WindowSlides ==
  ASSUME NEW c \in Seq(Block), NEW k \in 0..(Len(c) - 1)
  PROVE  Slide(Window(c, k), VoteOf(c[k + 1])) = Window(c, k + 1)
<1> DEFINE w == Window(c, k)
           v == VoteOf(c[k + 1])
           rest == IF Len(w) >= WindowSize THEN Tail(w) ELSE w
           n == Len(rest)
<1>1. WindowSize \in Nat \ {0} /\ k \in Nat /\ Len(c) \in Nat /\ k \in 0..Len(c) /\ k + 1 \in 0..Len(c)
      /\ k + 1 \in 1..Len(c)
  BY ForkAssumption
<1>2. w \in Seq(Votes) /\ Len(w) = k - Lo(k) /\ v \in Votes
  <2>1. c[k + 1] \in Block
    BY <1>1
  <2> QED BY <1>1, <2>1, WindowType, VoteTypes, Zenon
<1>3. \A i \in 1..Len(w) : w[i] = VoteOf(c[Lo(k) + i])
  BY <1>1, <1>2, WindowType, Zenon
<1>4. /\ Window(c, k + 1) \in Seq(Votes) /\ Len(Window(c, k + 1)) = (k + 1) - Lo(k + 1)
      /\ Lo(k + 1) \in Nat
      /\ \A i \in 1..((k + 1) - Lo(k + 1)) : Window(c, k + 1)[i] = VoteOf(c[Lo(k + 1) + i])
  <2>1. \A j \in 0..Len(c) : /\ Window(c, j) \in Seq(Votes) /\ Len(Window(c, j)) = j - Lo(j) /\ Lo(j) \in 0..j
                            /\ \A i \in 1..(j - Lo(j)) : Window(c, j)[i] = VoteOf(c[Lo(j) + i])
    BY WindowType, Zenon
  <2>2. Lo(k + 1) \in 0..(k + 1)
    BY <1>1, <2>1, Zenon
  <2>3. Lo(k + 1) \in Nat
    BY <1>1, <2>2
  <2> QED BY <1>1, <2>1, <2>3, Zenon
<1> HIDE DEF w, v
<1>5. /\ rest \in Seq(Votes) /\ n = k - Lo(k + 1) /\ n \in Nat /\ Lo(k + 1) + n + 1 = k + 1
      /\ \A i \in 1..n : rest[i] = VoteOf(c[Lo(k + 1) + i])
  <2>1. CASE k >= WindowSize
    <3>1. Lo(k) = k - WindowSize /\ Lo(k + 1) = Lo(k) + 1 /\ Len(w) = WindowSize /\ Lo(k) \in Nat
      BY <1>1, <1>2, <2>1 DEF Lo
    <3>2. rest = Tail(w) /\ rest \in Seq(Votes) /\ n = WindowSize - 1 /\ n \in Nat
      BY <1>1, <1>2, <3>1
    <3>3. ASSUME NEW i \in 1..n PROVE rest[i] = VoteOf(c[Lo(k + 1) + i])
      <4>1. rest[i] = w[i + 1] /\ i + 1 \in 1..Len(w) /\ Lo(k) + (i + 1) = Lo(k + 1) + i
        BY <1>1, <1>2, <3>1, <3>2
      <4> QED BY <1>3, <4>1
    <3> HIDE DEF rest, n
    <3>4. n = k - Lo(k + 1) /\ Lo(k + 1) + n + 1 = k + 1
      <4>1. WindowSize \in Int /\ k \in Int
        BY <1>1
      <4>2. n = WindowSize - 1 /\ Lo(k + 1) = (k - WindowSize) + 1
        BY <3>1, <3>2, Zenon
      <4> QED BY <4>1, <4>2
    <3> QED BY <3>2, <3>3, <3>4, Zenon
  <2>2. CASE k < WindowSize
    <3>1. Lo(k) = 0 /\ Lo(k + 1) = 0 /\ Len(w) = k /\ rest = w
      BY <1>1, <1>2, <2>2 DEF Lo
    <3> QED BY <1>1, <1>2, <1>3, <3>1
  <2> QED BY <1>1, <2>1, <2>2
<1>6. Slide(w, v) = Append(rest, v)
  BY DEF Slide
<1> HIDE DEF rest, n
<1> DEFINE a == Append(rest, v)
           z == Window(c, k + 1)
<1>7. a \in Seq(Votes) /\ Len(a) = Len(z) /\ z \in Seq(Votes)
  <2>1. a \in Seq(Votes) /\ Len(a) = n + 1
    BY <1>2, <1>5 DEF n
  <2>2. n + 1 = (k + 1) - Lo(k + 1)
    BY <1>1, <1>4, <1>5, Shift, Zenon
  <2> QED BY <1>4, <2>1, <2>2
<1>8. ASSUME NEW i \in 1..Len(a) PROVE a[i] = z[i]
  <2>1. Len(a) = n + 1
    BY <1>2, <1>5 DEF n
  <2>2. z[i] = VoteOf(c[Lo(k + 1) + i])
    BY <1>4, <1>7, Zenon
  <2>3. CASE i = n + 1
    <3>1. Lo(k + 1) + i = k + 1
      BY <1>1, <1>4, <1>5, <2>3, Shift, Zenon
    <3>2. a[i] = v
      BY <1>2, <1>5, <2>3 DEF n
    <3> QED BY <2>2, <3>1, <3>2 DEF v
  <2>4. CASE i # n + 1
    <3>1. i \in 1..n
      BY <1>5, <2>1, <2>4
    <3>2. a[i] = rest[i]
      BY <1>2, <1>5, <3>1 DEF n
    <3> QED BY <1>5, <2>2, <3>1, <3>2, Zenon
  <2> QED BY <2>3, <2>4, Zenon
<1> HIDE DEF a, z
<1>9. a = z
  BY <1>7, <1>8
<1> QED BY <1>6, <1>9 DEF a, z, w, v

\* What rescanning these blocks makes of a state.
LEMMA WindowedState ==
  ASSUME NEW c \in Seq(Block), NEW k \in 0..Len(c), NEW s
  PROVE  Windowed(s, SubSeq(c, Lo(k) + 1, k)) = State(Window(c, k), s.cur)
<1> DEFINE bs == SubSeq(c, Lo(k) + 1, k)
           votes == [i \in DOMAIN bs |-> VoteOf(bs[i])]
<1>1. Lo(k) \in Nat /\ Lo(k) <= k /\ k \in Nat /\ Len(c) \in Nat /\ k <= Len(c)
  BY WindowType
<1>2. DOMAIN bs = 1..(k - Lo(k)) /\ \A i \in 1..(k - Lo(k)) : bs[i] = c[Lo(k) + i]
  <2>1. Lo(k) + 1 \in 1..(Len(c) + 1) /\ k \in ((Lo(k) + 1) - 1)..Len(c)
    BY <1>1
  <2>2. /\ bs \in Seq(Block) /\ Len(bs) = k - (Lo(k) + 1) + 1
        /\ \A i \in 1..(k - (Lo(k) + 1) + 1) : bs[i] = c[(Lo(k) + 1) + i - 1]
    BY <2>1, SubSeqFacts
  <2>3. k - (Lo(k) + 1) + 1 = k - Lo(k) /\ DOMAIN bs = 1..Len(bs)
    BY <1>1, <2>2
  <2>4. \A i \in 1..(k - Lo(k)) : (Lo(k) + 1) + i - 1 = Lo(k) + i
    BY <1>1
  <2> HIDE DEF bs
  <2> QED BY <2>2, <2>3, <2>4
<1> HIDE DEF bs
<1>3. votes = Window(c, k)
  <2>1. \A i \in 1..(k - Lo(k)) : VoteOf(bs[i]) = VoteOf(c[Lo(k) + i])
    BY <1>2, Zenon
  <2>2. votes = [i \in 1..(k - Lo(k)) |-> VoteOf(bs[i])]
    BY <1>2, Zenon
  <2> QED BY <2>1, <2>2, Zenon DEF Window
<1>4. Windowed(s, bs) = [versions |-> votes,
                         last |-> [v \in 1..MaxVersion |-> Cardinality({i \in DOMAIN votes : votes[i] = v})],
                         cur |-> s.cur]
  BY Zenon DEF Windowed
<1> HIDE DEF votes
<1> QED BY <1>3, <1>4, Zenon DEF State, Tally, Votes, bs

----------------------------------------------------------------------------
(***************************************************************************)
(* The state of a node that saw only the first k blocks of a chain.        *)
(***************************************************************************)
Pre(c, k) == SubSeq(c, 1, k)

R(c, k) == Replayed(Pre(c, k))

Fresh == [hf |-> Empty, recorded |-> [h \in 0..(MaxHeight - 1) |-> 0]]

Chains == {c \in Seq(Block) : Len(c) <= MaxHeight}

LEMMA ChainFacts ==
  ASSUME NEW c \in Chains
  PROVE  c \in Seq(Block) /\ Len(c) \in Nat /\ Len(c) <= MaxHeight /\ MaxHeight \in Nat
BY ForkAssumption DEF Chains

LEMMA PreFacts ==
  ASSUME NEW c \in Chains, NEW k \in 0..Len(c)
  PROVE  /\ Len(c) \in Nat /\ Len(c) <= MaxHeight /\ Pre(c, k) \in Chains /\ Len(Pre(c, k)) = k
         /\ \A i \in 1..k : Pre(c, k)[i] = c[i]
         /\ \A j \in 0..k : Pre(Pre(c, k), j) = Pre(c, j)
         /\ Pre(c, Len(c)) = c
<1>1. c \in Seq(Block) /\ Len(c) \in Nat /\ Len(c) <= MaxHeight /\ MaxHeight \in Nat
  BY ForkAssumption DEF Chains
<1>2. ASSUME NEW d \in Seq(Block), NEW j \in 0..Len(d)
      PROVE  Pre(d, j) \in Seq(Block) /\ Len(Pre(d, j)) = j /\ \A i \in 1..j : Pre(d, j)[i] = d[i]
  BY DEF Pre
<1>3. /\ Pre(c, k) \in Seq(Block) /\ Len(Pre(c, k)) = k /\ Pre(c, k) \in Chains
      /\ \A i \in 1..k : Pre(c, k)[i] = c[i]
  <2>1. Pre(c, k) \in Seq(Block) /\ Len(Pre(c, k)) = k /\ \A i \in 1..k : Pre(c, k)[i] = c[i]
    BY <1>1, <1>2, Zenon
  <2>2. k <= MaxHeight
    BY <1>1
  <2> QED BY <2>1, <2>2 DEF Chains
<1>4. ASSUME NEW j \in 0..k PROVE Pre(Pre(c, k), j) = Pre(c, j)
  <2> DEFINE d == Pre(Pre(c, k), j)
             e == Pre(c, j)
  <2>1. j \in 0..Len(c) /\ \A i \in 1..j : i \in 1..k
    BY <1>1
  <2>2. d \in Seq(Block) /\ Len(d) = j /\ \A i \in 1..j : d[i] = Pre(c, k)[i]
    BY <1>2, <1>3, Zenon
  <2>3. e \in Seq(Block) /\ Len(e) = j /\ \A i \in 1..j : e[i] = c[i]
    BY <1>1, <1>2, <2>1, Zenon
  <2>4. \A i \in 1..j : d[i] = e[i]
    BY <1>3, <2>1, <2>2, <2>3, Zenon
  <2> HIDE DEF d, e
  <2>5. d = e
    BY <2>2, <2>3, <2>4
  <2> QED BY <2>5 DEF d, e
<1>5. Pre(c, Len(c)) = c
  BY <1>1, WholeSeq DEF Pre
<1> QED BY <1>1, <1>3, <1>4, <1>5

LEMMA AppendedFacts ==
  ASSUME NEW c \in Chains, Len(c) < MaxHeight, NEW b \in Block
  PROVE  /\ Append(c, b) \in Chains /\ Len(Append(c, b)) = Len(c) + 1 /\ Append(c, b)[Len(c) + 1] = b
         /\ \A i \in 1..Len(c) : Append(c, b)[i] = c[i]
         /\ \A k \in 0..Len(c) : Pre(Append(c, b), k) = Pre(c, k)
<1> DEFINE d == Append(c, b)
<1>1. c \in Seq(Block) /\ Len(c) \in Nat /\ MaxHeight \in Nat
  BY ForkAssumption DEF Chains
<1>2. /\ d \in Seq(Block) /\ Len(d) = Len(c) + 1 /\ d[Len(c) + 1] = b
      /\ \A i \in 1..Len(c) : d[i] = c[i]
  BY <1>1
<1> HIDE DEF d
<1>3. d \in Chains
  BY <1>1, <1>2 DEF Chains
<1>4. ASSUME NEW k \in 0..Len(c) PROVE Pre(d, k) = Pre(c, k)
  <2>1. k \in 0..Len(d) /\ \A i \in 1..k : i \in 1..Len(c)
    BY <1>1, <1>2
  <2>2. /\ Pre(d, k) \in Chains /\ Len(Pre(d, k)) = k /\ Pre(c, k) \in Chains /\ Len(Pre(c, k)) = k
        /\ \A i \in 1..k : Pre(d, k)[i] = d[i] /\ Pre(c, k)[i] = c[i]
    BY <1>3, <2>1, PreFacts, Zenon
  <2>3. \A i \in 1..k : Pre(d, k)[i] = Pre(c, k)[i]
    BY <1>2, <2>1, <2>2, Zenon
  <2>4. Pre(d, k) \in Seq(Block) /\ Pre(c, k) \in Seq(Block)
    BY <2>2 DEF Chains
  <2> QED BY <2>2, <2>3, <2>4
<1> QED BY <1>2, <1>3, <1>4 DEF d

\* Two traces over the same blocks agree.
LEMMA TracesAgree ==
  ASSUME NEW m, NEW c \in Chains, NEW d \in Chains, NEW n \in Nat, n <= Len(c), n <= Len(d),
         \A i \in 1..n : c[i] = d[i],
         NEW f, NEW g, Trace(m, c, 0, f), Trace(m, d, 0, g)
  PROVE  \A k \in 0..n : f[k] = g[k]
<1> DEFINE S == {k \in 0..n : f[k] = g[k]}
<1>1. Len(c) \in Nat /\ Len(d) \in Nat /\ 0 + 1 = 1
  BY DEF Chains
<1>2. f[0] = m /\ g[0] = m
  BY DEF Trace
<1>3. 0 \in S
  BY <1>2
<1>4. ASSUME NEW k \in 0..(n - 1), k \in S PROVE k + 1 \in S
  <2>1. k + 1 \in 1..n /\ k + 1 \in 1..Len(c) /\ k + 1 \in 1..Len(d) /\ (k + 1) - 1 = k /\ k + 1 \in 0..n
    BY <1>1
  <2>2. f[k + 1] = Add(f[k], c[k + 1], k) /\ g[k + 1] = Add(g[k], d[k + 1], k)
    BY <1>1, <2>1, Zenon DEF Trace
  <2>3. c[k + 1] = d[k + 1] /\ f[k] = g[k]
    BY <1>4, <2>1
  <2> QED BY <2>1, <2>2, <2>3, Zenon
<1> HIDE DEF S
<1>5. \A k \in 0..n : k \in S
  BY <1>3, <1>4, IntervalInduction, Zenon
<1> QED BY <1>5 DEF S

LEMMA FreshFacts == Fresh \in Memories /\ Counted(Empty) /\ Empty.cur = 1 /\ Empty.versions = <<>>
<1>1. 1 \in Fork /\ <<>> \in Seq(Votes) /\ Len(<<>>) <= WindowSize
  BY ForkTable, ForkAssumption DEF Fork
<1>2. Empty = State(<<>>, 1)
  <2>1. NoVotes = Tally(<<>>)
    <3>1. ASSUME NEW v \in Votes PROVE {i \in DOMAIN <<>> : <<>>[i] = v} = {}
      OBVIOUS
    <3>2. Cardinality({}) = 0
      BY FS_EmptySet
    <3> QED BY <3>1, <3>2 DEF NoVotes, Tally, Votes
  <2> QED BY <2>1 DEF Empty, State
<1>3. Counted(Empty)
  BY <1>1, <1>2, StateCounted, Zenon
<1>4. Empty \in CountedStates
  BY <1>3 DEF Counted, CountedStates
<1>5. [h \in 0..(MaxHeight - 1) |-> 0] \in [0..(MaxHeight - 1) -> Byte]
  BY DEF Byte
<1> QED BY <1>3, <1>4, <1>5, Zenon DEF Fresh, Memories, Empty

\* Each block takes the replayed state one step on.
LEMMA ReplayFacts ==
  ASSUME NEW c \in Chains
  PROVE  /\ R(c, 0) = Empty /\ R(c, Len(c)) = Replayed(c)
         /\ \A k \in 0..Len(c) : Counted(R(c, k))
         /\ \A k \in 1..Len(c) : R(c, k) = Step(R(c, k - 1), c[k], k - 1)
<1>1. Len(c) \in Nat /\ Pre(c, Len(c)) = c /\ c \in Seq(Block) /\ Len(c) <= MaxHeight /\ MaxHeight \in Nat
  <2>1. Len(c) \in 0..Len(c)
    BY DEF Chains
  <2> QED BY <2>1, PreFacts, ForkAssumption, Zenon DEF Chains
<1>2. ASSUME NEW d \in Chains
      PROVE  \E f : Trace(Fresh, d, 0, f) /\ Replayed(d) = f[Len(d)].hf
  <2>1. d \in Seq(Block) /\ Len(d) <= MaxHeight /\ 0 \in 0..Len(d)
    BY DEF Chains
  <2>2. \E f : Trace(Fresh, d, 0, f) /\ AddFrom(Fresh, d, 0) = f[Len(d)]
    BY <2>1, FreshFacts, AddFromTrace
  <2> QED BY <2>2, Zenon DEF Replayed, Fresh
<1>3. PICK f : Trace(Fresh, c, 0, f) /\ Replayed(c) = f[Len(c)].hf
  BY <1>2
<1>4. ASSUME NEW k \in 0..Len(c) PROVE R(c, k) = f[k].hf
  <2> DEFINE d == Pre(c, k)
  <2>1. d \in Chains /\ Len(d) = k /\ k \in Nat /\ k <= Len(c) /\ \A i \in 1..k : c[i] = d[i]
    BY <1>1, PreFacts
  <2> HIDE DEF d
  <2>2. PICK g : Trace(Fresh, d, 0, g) /\ Replayed(d) = g[Len(d)].hf
    BY <1>2, <2>1
  <2>3. k <= Len(d) /\ k \in 0..k
    BY <2>1
  <2>4. \A j \in 0..k : f[j] = g[j]
    BY <1>3, <2>1, <2>2, <2>3, TracesAgree
  <2>5. Replayed(d) = f[k].hf
    BY <2>1, <2>2, <2>3, <2>4, Zenon
  <2> QED BY <2>5, Zenon DEF R, d
<1>5. f \in [0..Len(c) -> Memories] /\ f[0] = Fresh
      /\ \A k \in 1..Len(c) : f[k] = Add(f[k - 1], c[k], k - 1)
  <2>1. 0 + 1 = 1
    OBVIOUS
  <2> QED BY <1>3, <2>1, Zenon DEF Trace
<1>6. R(c, 0) = Empty
  <2>1. 0 \in 0..Len(c)
    BY <1>1
  <2> QED BY <1>4, <1>5, <2>1 DEF Fresh
<1>7. ASSUME NEW k \in 0..Len(c) PROVE Counted(R(c, k))
  <2>1. f[k] \in Memories
    BY <1>5
  <2>2. Counted(f[k].hf)
    BY <2>1 DEF Memories, CountedStates
  <2> QED BY <1>4, <2>2
<1>8. ASSUME NEW k \in 1..Len(c) PROVE R(c, k) = Step(R(c, k - 1), c[k], k - 1)
  <2>1. k \in 0..Len(c) /\ k - 1 \in 0..Len(c) /\ c[k] \in Block /\ k - 1 \in 0..(MaxHeight - 1)
    BY <1>1
  <2>2. f[k] = Add(f[k - 1], c[k], k - 1) /\ f[k - 1] \in Memories
    BY <1>5, <2>1, Zenon
  <2>3. f[k].hf = Step(f[k - 1].hf, c[k], k - 1)
    BY <2>1, <2>2, AddFacts, Zenon
  <2> QED BY <1>4, <2>1, <2>3, Zenon
<1> QED BY <1>1, <1>6, <1>7, <1>8, Zenon DEF R

----------------------------------------------------------------------------
(***************************************************************************)
(* Chains every block of which passes the test at its height, and the      *)
(* records that agree with a chain.                                        *)
(***************************************************************************)
Clean(c) == \A k \in 1..Len(c) : DoCheck(R(c, k - 1), c[k])

Matches(rec, c) == \A k \in 1..Len(c) : rec[k - 1] = c[k].version

\* The index in force never falls along a chain.
LEMMA IndexGrows ==
  ASSUME NEW c \in Chains, NEW j \in 0..Len(c), NEW k \in 0..Len(c), j <= k
  PROVE  R(c, j).cur <= R(c, k).cur
<1> DEFINE S == {n \in j..k : R(c, j).cur <= R(c, n).cur}
<1>1. Len(c) \in Nat /\ j \in Nat /\ k \in Nat /\ c \in Seq(Block)
  BY DEF Chains
<1>2. \A n \in 0..Len(c) : Counted(R(c, n)) /\ R(c, n).cur \in Nat
  BY ReplayFacts, CountedState DEF Fork
<1>3. j \in S
  BY <1>1, <1>2
<1>4. ASSUME NEW n \in j..(k - 1), n \in S PROVE n + 1 \in S
  <2>1. n \in 0..Len(c) /\ n + 1 \in 0..Len(c) /\ n + 1 \in 1..Len(c) /\ (n + 1) - 1 = n /\ n + 1 \in j..k
        /\ n \in Nat /\ c[n + 1] \in Block
    BY <1>1
  <2>2. R(c, n + 1) = Step(R(c, n), c[n + 1], n)
    BY <2>1, ReplayFacts, Zenon
  <2>3. R(c, n).cur <= R(c, n + 1).cur
    BY <1>2, <2>1, <2>2, StepFacts, Zenon
  <2>4. R(c, j).cur \in Nat /\ R(c, n).cur \in Nat /\ R(c, n + 1).cur \in Nat /\ R(c, j).cur <= R(c, n).cur
    BY <1>2, <1>4, <2>1, Zenon
  <2>5. R(c, j).cur <= R(c, n + 1).cur
    BY <2>3, <2>4
  <2> QED BY <2>1, <2>5, Zenon
<1> HIDE DEF S
<1>5. \A n \in j..k : n \in S
  BY <1>1, <1>3, <1>4, IntervalInduction, Zenon
<1>6. k \in j..k
  BY <1>1
<1> QED BY <1>5, <1>6 DEF S

LEMMA IndexAtMost ==
  ASSUME NEW c \in Chains, NEW j \in 0..Len(c), NEW k \in 0..Len(c), j <= k,
         NEW m \in Nat, R(c, k).cur <= m
  PROVE  R(c, j).cur <= m
<1>1. R(c, j).cur <= R(c, k).cur
  BY IndexGrows, Zenon
<1>2. R(c, j).cur \in Nat /\ R(c, k).cur \in Nat
  BY ReplayFacts, CountedState DEF Fork
<1> QED BY <1>1, <1>2

\* The window of a clean chain holds the votes of its last blocks, and the index is the
\* one that get_voted_fork_index makes of them and the index before.
LEMMA CleanWindow ==
  ASSUME NEW c \in Chains, Clean(c)
  PROVE  /\ \A k \in 0..Len(c) : R(c, k).versions = Window(c, k)
         /\ \A k \in 1..Len(c) : R(c, k) = Raised(State(Window(c, k), R(c, k - 1).cur), k)
<1> DEFINE S == {k \in 0..Len(c) : R(c, k).versions = Window(c, k)}
<1>1. Len(c) \in Nat /\ c \in Seq(Block)
  BY DEF Chains
<1>2. 0 \in S
  <2>1. Lo(0) = 0
    BY ForkAssumption DEF Lo
  <2>2. Window(c, 0) \in Seq(Votes) /\ Len(Window(c, 0)) = 0
    BY <1>1, <2>1, WindowType
  <2>3. Window(c, 0) = <<>>
    BY <2>2
  <2> QED BY <1>1, <2>3, ReplayFacts, FreshFacts
<1>3. ASSUME NEW k \in 0..(Len(c) - 1), R(c, k).versions = Window(c, k)
      PROVE  /\ R(c, k + 1).versions = Window(c, k + 1)
             /\ R(c, k + 1) = Raised(State(Window(c, k + 1), R(c, k).cur), k + 1)
  <2>1. k \in 0..Len(c) /\ k + 1 \in 1..Len(c) /\ (k + 1) - 1 = k /\ k \in Nat /\ c[k + 1] \in Block
    BY <1>1
  <2>2. R(c, k + 1) = Step(R(c, k), c[k + 1], k) /\ Counted(R(c, k)) /\ DoCheck(R(c, k), c[k + 1])
    BY <2>1, ReplayFacts DEF Clean
  <2>3. Slide(R(c, k).versions, VoteOf(c[k + 1])) = Window(c, k + 1)
    BY <1>1, <1>3, WindowSlides, Zenon
  <2>4. R(c, k + 1).versions = Window(c, k + 1)
    BY <2>1, <2>2, <2>3, StepFacts
  <2>5. WithVote(R(c, k), VoteOf(c[k + 1])) = State(Window(c, k + 1), R(c, k).cur)
    BY <2>1, <2>2, <2>3, WithVoteState, VoteTypes
  <2> QED BY <2>2, <2>4, <2>5, Zenon DEF Step
<1>4. \A k \in 0..Len(c) : k \in S
  <2>1. ASSUME NEW k \in 0..(Len(c) - 1), k \in S PROVE k + 1 \in S
    BY <1>1, <1>3, <2>1
  <2> HIDE DEF S
  <2> QED BY <1>1, <1>2, <2>1, IntervalInduction, Zenon
<1>5. ASSUME NEW k \in 1..Len(c) PROVE R(c, k) = Raised(State(Window(c, k), R(c, k - 1).cur), k)
  <2>1. k - 1 \in 0..(Len(c) - 1) /\ (k - 1) + 1 = k /\ k - 1 \in 0..Len(c)
    BY <1>1
  <2>2. R(c, k - 1).versions = Window(c, k - 1)
    BY <1>4, <2>1
  <2>3. R(c, (k - 1) + 1) = Raised(State(Window(c, (k - 1) + 1), R(c, k - 1).cur), (k - 1) + 1)
    BY <1>3, <2>1, <2>2, Zenon
  <2> QED BY <2>1, <2>3, Zenon
<1> QED BY <1>4, <1>5

\* What is true of a chain is true of its first blocks.
LEMMA CleanPrefix ==
  ASSUME NEW c \in Chains, NEW k \in 0..Len(c)
  PROVE  /\ Pre(c, k) \in Chains /\ Len(Pre(c, k)) = k
         /\ \A j \in 0..k : R(Pre(c, k), j) = R(c, j)
         /\ Clean(c) => Clean(Pre(c, k))
         /\ \A rec : Matches(rec, c) => Matches(rec, Pre(c, k))
<1>1. /\ Pre(c, k) \in Chains /\ Len(Pre(c, k)) = k /\ Len(c) \in Nat
      /\ \A i \in 1..k : Pre(c, k)[i] = c[i]
      /\ \A j \in 0..k : Pre(Pre(c, k), j) = Pre(c, j)
  BY PreFacts, Zenon
<1>2. \A j \in 0..k : R(Pre(c, k), j) = R(c, j)
  BY <1>1, Zenon DEF R
<1>3. \A j \in 1..k : j \in 1..Len(c) /\ j - 1 \in 0..k
  BY <1>1
<1>4. Clean(c) => Clean(Pre(c, k))
  BY <1>1, <1>2, <1>3, Zenon DEF Clean
<1>5. \A rec : Matches(rec, c) => Matches(rec, Pre(c, k))
  BY <1>1, <1>3, Zenon DEF Matches
<1> QED BY <1>1, <1>2, <1>4, <1>5, Zenon

\* A block that passes the test under the replayed index keeps the chain clean, the
\* records matching and the state the replayed one.
LEMMA AddedBlock ==
  ASSUME NEW c \in Chains, Len(c) < MaxHeight, NEW b \in Block, NEW m \in Memories,
         DoCheck(m.hf, b), m.hf.cur = Replayed(c).cur, Clean(c), Matches(m.recorded, c)
  PROVE  /\ Append(c, b) \in Chains /\ Len(Append(c, b)) = Len(c) + 1
         /\ Clean(Append(c, b)) /\ Add(m, b, Len(c)) \in Memories
         /\ Matches(Add(m, b, Len(c)).recorded, Append(c, b))
         /\ m.hf = Replayed(c) => Add(m, b, Len(c)).hf = Replayed(Append(c, b))
         /\ m.hf.cur <= Add(m, b, Len(c)).hf.cur
         /\ \A k \in 0..Len(c) : R(Append(c, b), k) = R(c, k)
<1> DEFINE n == Len(c)
           d == Append(c, b)
           a == Add(m, b, n)
<1>1. n \in Nat /\ n \in 0..(MaxHeight - 1) /\ MaxHeight \in Nat /\ n \in 0..n
  BY ForkAssumption DEF Chains
<1>2. /\ d \in Chains /\ Len(d) = n + 1 /\ d[n + 1] = b /\ \A i \in 1..n : d[i] = c[i]
      /\ \A k \in 0..n : Pre(d, k) = Pre(c, k)
  BY AppendedFacts, Zenon
<1>3. /\ a \in Memories /\ a.hf = Step(m.hf, b, n)
      /\ a.recorded = [m.recorded EXCEPT ![n] = b.version]
  BY <1>1, AddFacts, Zenon
<1> HIDE DEF a, d
<1>4. \A k \in 0..n : R(d, k) = R(c, k)
  BY <1>2, Zenon DEF R
<1>5. R(d, n) = Replayed(c) /\ R(d, n + 1) = Replayed(d)
  BY <1>1, <1>2, <1>4, ReplayFacts, Zenon
<1>6. \A k \in 1..(n + 1) : k # n + 1 => k \in 1..n /\ k - 1 \in 0..n /\ k - 1 # n /\ k - 1 \in 0..(MaxHeight - 1)
  BY <1>1
<1>7. (n + 1) - 1 = n /\ n + 1 \in 1..(n + 1)
  BY <1>1
<1>8. Clean(d)
  <2>1. DoCheck(R(d, n), b)
    BY <1>5, Zenon DEF DoCheck
  <2>2. ASSUME NEW k \in 1..(n + 1), k # n + 1 PROVE DoCheck(R(d, k - 1), d[k])
    <3>1. R(d, k - 1) = R(c, k - 1) /\ d[k] = c[k] /\ k \in 1..n
      BY <1>2, <1>4, <1>6, <2>2, Zenon
    <3>2. DoCheck(R(c, k - 1), c[k])
      BY <3>1, Zenon DEF Clean
    <3> QED BY <3>1, <3>2, Zenon
  <2> QED BY <1>2, <1>7, <2>1, <2>2, Zenon DEF Clean
<1>9. Matches(a.recorded, d)
  <2>1. m.recorded \in [0..(MaxHeight - 1) -> Byte]
    BY Zenon DEF Memories
  <2>2. a.recorded[n] = b.version /\ \A k \in 0..(MaxHeight - 1) : k # n => a.recorded[k] = m.recorded[k]
    BY <1>1, <1>3, <2>1
  <2> QED BY <1>2, <1>6, <1>7, <2>2, Zenon DEF Matches
<1>10. m.hf = Replayed(c) => a.hf = Replayed(d)
  <2>1. R(d, n + 1) = Step(R(d, n), b, n)
    BY <1>2, <1>7, ReplayFacts, Zenon
  <2> QED BY <1>3, <1>5, <2>1, Zenon
<1>11. m.hf.cur <= a.hf.cur
  <2>1. Counted(m.hf)
    BY Zenon DEF Memories, CountedStates
  <2>2. m.hf.cur <= Step(m.hf, b, n).cur
    BY <1>1, <2>1, StepFacts, Zenon
  <2> QED BY <1>3, <2>2, Zenon
<1> QED BY <1>2, <1>3, <1>4, <1>8, <1>9, <1>10, <1>11, Zenon DEF a, d

----------------------------------------------------------------------------
(***************************************************************************)
(* reorganize_from_chain_height and init.                                  *)
(***************************************************************************)
\* Adding the rest of a clean chain to the state of its first h blocks.
LEMMA AddRest ==
  ASSUME NEW c \in Chains, Clean(c), NEW h \in 0..Len(c), NEW m \in Memories,
         m.hf = R(c, h), Matches(m.recorded, c)
  PROVE  AddFrom(m, c, h).hf = Replayed(c) /\ Matches(AddFrom(m, c, h).recorded, c)
<1>1. c \in Seq(Block) /\ Len(c) \in Nat /\ Len(c) <= MaxHeight /\ MaxHeight \in Nat /\ h \in Nat
  BY ForkAssumption DEF Chains
<1>2. PICK f : Trace(m, c, h, f) /\ AddFrom(m, c, h) = f[Len(c)]
  BY <1>1, AddFromTrace, Zenon
<1> DEFINE S == {k \in h..Len(c) : f[k].hf = R(c, k) /\ Matches(f[k].recorded, c)}
<1>3. h \in S
  BY <1>1, <1>2 DEF Trace
<1>4. ASSUME NEW k \in h..(Len(c) - 1), k \in S PROVE k + 1 \in S
  <2>1. /\ k + 1 \in (h + 1)..Len(c) /\ (k + 1) - 1 = k /\ k \in h..Len(c) /\ k + 1 \in 1..Len(c)
        /\ k \in 0..(MaxHeight - 1) /\ c[k + 1] \in Block /\ k + 1 \in h..Len(c)
    BY <1>1
  <2>2. f[k] \in Memories /\ f[k + 1] = Add(f[k], c[k + 1], k)
    BY <1>2, <2>1, Zenon DEF Trace
  <2>3. f[k].hf = R(c, k) /\ Matches(f[k].recorded, c)
    BY <1>4
  <2>4. DoCheck(f[k].hf, c[k + 1])
    BY <2>1, <2>3, Zenon DEF Clean
  <2>5. /\ f[k + 1].hf = Step(R(c, k), c[k + 1], k)
        /\ f[k + 1].recorded = [f[k].recorded EXCEPT ![k] = c[k + 1].version]
    <3>1. \A x \in Memories : DoCheck(x.hf, c[k + 1]) =>
            /\ Add(x, c[k + 1], k).hf = Step(x.hf, c[k + 1], k)
            /\ Add(x, c[k + 1], k).recorded = [x.recorded EXCEPT ![k] = c[k + 1].version]
      BY <2>1, AddFacts, Zenon
    <3> QED BY <2>2, <2>3, <2>4, <3>1, Zenon
  <2>6. f[k + 1].hf = R(c, k + 1)
    BY <2>1, <2>5, ReplayFacts, Zenon
  <2>7. Matches(f[k + 1].recorded, c)
    <3> SUFFICES ASSUME NEW j \in 1..Len(c) PROVE f[k + 1].recorded[j - 1] = c[j].version
      BY Zenon DEF Matches
    <3>1. f[k].recorded \in [0..(MaxHeight - 1) -> Byte] /\ f[k].recorded[j - 1] = c[j].version
      BY <2>2, <2>3, Zenon DEF Memories, Matches
    <3>2. j - 1 \in 0..(MaxHeight - 1) /\ (j - 1 = k => j = k + 1)
      BY <1>1, <2>1
    <3> QED BY <2>1, <2>5, <3>1, <3>2, Zenon
  <2> QED BY <2>1, <2>6, <2>7, Zenon
<1> HIDE DEF S
<1>5. \A k \in h..Len(c) : k \in S
  BY <1>1, <1>3, <1>4, IntervalInduction, Zenon
<1>6. Len(c) \in h..Len(c)
  BY <1>1
<1>7. f[Len(c)].hf = R(c, Len(c)) /\ Matches(f[Len(c)].recorded, c)
  BY <1>5, <1>6 DEF S
<1> QED BY <1>2, <1>7, ReplayFacts, Zenon

\* The index is lowered to that of the version at which the rescan starts.
LEMMA LoweredIndex ==
  ASSUME NEW s, Counted(s), NEW start \in Nat
  PROVE  /\ Lowered(s, start).cur \in Fork
         /\ \A n \in Fork : n <= s.cur /\ start = Version(n) => Lowered(s, start).cur = n
<1>1. s = State(s.versions, s.cur) /\ s.cur \in Fork /\ Len(Forks) \in Nat \ {0}
  BY CountedState, ForkTable, Zenon
<1> DEFINE S == {1} \cup {n \in 1..s.cur : Version(n) <= start}
<1>2. S \in SUBSET Fork /\ S \in SUBSET (0..Len(Forks)) /\ S # {} /\ Len(Forks) \in Nat
  BY <1>1 DEF Fork
<1>3. Lowered(s, start).cur = Max(S)
  BY <1>1 DEF Lowered, State
<1>4. ASSUME NEW n \in Fork, n <= s.cur, start = Version(n) PROVE Max(S) = n
  <2>1. n \in S
    <3>1. n \in 1..s.cur
      BY <1>1, <1>4 DEF Fork
    <3>2. Version(n) <= start
      BY <1>4
    <3> QED BY <3>1, <3>2
  <2>2. ASSUME NEW x \in S PROVE x <= n
    <3>1. x \in Fork
      BY <1>2
    <3>2. CASE x = 1
      BY <3>2 DEF Fork
    <3>3. CASE x # 1
      <4>1. Version(x) <= Version(n)
        BY <1>4, <3>3
      <4> QED BY <3>1, <4>1, VersionsGrow
    <3> QED BY <3>2, <3>3
  <2> HIDE DEF S
  <2>3. Max(S) \in S /\ n <= Max(S)
    BY <1>2, <2>1, LargestElement, Zenon
  <2>4. Max(S) <= n /\ Max(S) \in Fork
    BY <1>2, <2>2, <2>3, Zenon
  <2> QED BY <2>3, <2>4 DEF Fork
<1> HIDE DEF S
<1>5. Max(S) \in Fork
  BY <1>2, LargestElement, Zenon
<1> QED BY <1>3, <1>4, <1>5

\* The memory from which the blocks above the split are added again.
Rescanned(m, c, height) ==
  LET start == IF height = 1 THEN OriginalVersion ELSE m.recorded[height - 1]
  IN [hf |-> Raised(State(Window(c, height), Lowered(m.hf, start).cur), height),
      recorded |-> m.recorded]

LEMMA ReorganizeForm ==
  ASSUME NEW m \in Memories, NEW c \in Chains, NEW height \in 1..Len(c)
  PROVE  /\ ReorganizeFromChainHeight(m, c, height) = AddFrom(Rescanned(m, c, height), c, height)
         /\ Rescanned(m, c, height) \in Memories
<1>1. /\ c \in Seq(Block) /\ Len(c) \in Nat /\ Len(c) <= MaxHeight /\ MaxHeight \in Nat
      /\ height \in Nat /\ WindowSize \in Nat \ {0} /\ height \in 0..Len(c)
  BY ForkAssumption DEF Chains
<1>2. /\ m = [hf |-> m.hf, recorded |-> m.recorded] /\ Counted(m.hf)
      /\ m.recorded \in [0..(MaxHeight - 1) -> Byte]
  BY Zenon DEF Memories, CountedStates
<1> DEFINE top == height - 1
           first == IF top >= WindowSize - 1 THEN top - (WindowSize - 1) ELSE 0
           start == IF top = 0 THEN OriginalVersion ELSE m.recorded[top]
           l == Lowered(m.hf, start)
           scanned == Windowed(l, SubSeq(c, first + 1, height))
<1>3. first = Lo(height) /\ (top = 0 <=> height = 1) /\ height # 0 /\ ~(top >= Len(c))
  BY <1>1 DEF Lo
<1>4. start \in Nat
  <2>1. OriginalVersion = Version(1) /\ 1 \in Fork
    BY GenesisAssumption, ForkTable DEF Version, Fork
  <2>2. OriginalVersion \in Nat
    BY <2>1, ForkTable
  <2>3. top \in 0..(MaxHeight - 1)
    BY <1>1
  <2>4. m.recorded[top] \in Nat
    BY <1>2, <2>3, Bytes, Zenon
  <2> QED BY <2>2, <2>4, Zenon
<1>5. l.cur \in Fork
  <2> HIDE DEF start
  <2> QED BY <1>2, <1>4, LoweredIndex, Zenon
<1>6. ReorganizeFromChainHeight(m, c, height)
        = AddFrom([m EXCEPT !.hf = Raised(scanned, height)], c, height)
  BY <1>3, Zenon DEF ReorganizeFromChainHeight
<1>7. scanned = State(Window(c, height), l.cur)
  <2> HIDE DEF l, first
  <2> QED BY <1>1, <1>3, WindowedState
<1> DEFINE t == State(Window(c, height), l.cur)
<1> HIDE DEF scanned
<1>8. [m EXCEPT !.hf = Raised(scanned, height)] = [hf |-> Raised(t, height), recorded |-> m.recorded]
  <2> HIDE DEF t
  <2> QED BY <1>2, <1>7 DEF t
<1>9. Rescanned(m, c, height) = [hf |-> Raised(t, height), recorded |-> m.recorded]
  <2>1. start = IF height = 1 THEN OriginalVersion ELSE m.recorded[height - 1]
    BY <1>3, Zenon
  <2> QED BY <2>1, Zenon DEF Rescanned
<1>10. Raised(t, height) \in CountedStates
  <2>1. Window(c, height) \in Seq(Votes) /\ Len(Window(c, height)) <= WindowSize
    BY <1>1, WindowType, Zenon
  <2> HIDE DEF l
  <2>2. Counted(t)
    BY <1>5, <2>1, StateCounted, Zenon
  <2> HIDE DEF t
  <2>3. Counted(Raised(t, height))
    BY <1>1, <2>2, RaisedState, Zenon
  <2> QED BY <2>3, Zenon DEF Counted, CountedStates
<1> HIDE DEF t
<1>11. [hf |-> Raised(t, height), recorded |-> m.recorded] \in Memories
  BY <1>2, <1>10, Zenon DEF Memories
<1> QED BY <1>6, <1>8, <1>9, <1>11, Zenon

LEMMA ReorganizeType ==
  ASSUME NEW m \in Memories, NEW c \in Chains, NEW height \in 0..Len(c)
  PROVE  ReorganizeFromChainHeight(m, c, height) \in Memories
<1>1. c \in Seq(Block) /\ Len(c) \in Nat /\ Len(c) <= MaxHeight
  BY DEF Chains
<1>2. CASE height = 0
  BY <1>2, Zenon DEF ReorganizeFromChainHeight
<1>3. CASE height # 0
  <2>1. height \in 1..Len(c) /\ Len(c) \in height..Len(c)
    BY <1>1, <1>3
  <2>2. PICK r : r = Rescanned(m, c, height)
    OBVIOUS
  <2>3. r \in Memories /\ ReorganizeFromChainHeight(m, c, height) = AddFrom(r, c, height)
    BY <2>1, <2>2, ReorganizeForm, Zenon
  <2>4. PICK f : Trace(r, c, height, f) /\ AddFrom(r, c, height) = f[Len(c)]
    BY <1>1, <2>3, AddFromTrace, Zenon
  <2> QED BY <2>1, <2>3, <2>4 DEF Trace
<1> QED BY <1>2, <1>3

\* On a clean chain whose blocks are recorded, with an index that is not too low, the
\* rescan ends in the replayed state.
LEMMA Reorganized ==
  ASSUME NEW m \in Memories, NEW c \in Chains, NEW height \in 1..Len(c), Clean(c),
         Matches(m.recorded, c), R(c, height - 1).cur <= m.hf.cur, c[1].version = OriginalVersion
  PROVE  /\ ReorganizeFromChainHeight(m, c, height).hf = Replayed(c)
         /\ Matches(ReorganizeFromChainHeight(m, c, height).recorded, c)
<1>1. /\ c \in Seq(Block) /\ Len(c) \in Nat /\ height \in Nat /\ height - 1 \in 0..Len(c)
      /\ height \in 0..Len(c) /\ (height = 1 => height - 1 = 0)
  BY DEF Chains
<1> DEFINE start == IF height = 1 THEN OriginalVersion ELSE m.recorded[height - 1]
           n == R(c, height - 1).cur
           r == Rescanned(m, c, height)
<1>2. Counted(m.hf) /\ n \in Fork
  <2>1. Counted(m.hf)
    BY Zenon DEF Memories, CountedStates
  <2>2. Counted(R(c, height - 1))
    BY <1>1, ReplayFacts, Zenon
  <2> QED BY <2>1, <2>2, CountedState, Zenon
<1>3. start = Version(n)
  <2>1. DoCheck(R(c, height - 1), c[height])
    BY DEF Clean
  <2>2. c[height].version = Version(n)
    BY <2>1, Zenon DEF DoCheck
  <2>3. CASE height = 1
    BY <2>2, <2>3, Zenon
  <2>4. CASE height # 1
    BY <2>2, <2>4, Zenon DEF Matches
  <2> QED BY <2>3, <2>4, Zenon
<1>4. Lowered(m.hf, start).cur = n
  <2>1. start \in Nat
    BY <1>2, <1>3, ForkTable, Zenon
  <2> HIDE DEF start, n
  <2>2. n <= m.hf.cur
    BY DEF n
  <2> QED BY <1>2, <1>3, <2>1, <2>2, LoweredIndex, Zenon
<1>5. r = [hf |-> Raised(State(Window(c, height), n), height), recorded |-> m.recorded]
  BY <1>4, Zenon DEF Rescanned
<1>6. R(c, height) = Raised(State(Window(c, height), n), height)
  BY CleanWindow, Zenon
<1> HIDE DEF start, n
<1>7. r.hf = R(c, height) /\ r.recorded = m.recorded
  <2> HIDE DEF r
  <2> QED BY <1>5, <1>6, Zenon
<1>8. r \in Memories /\ ReorganizeFromChainHeight(m, c, height) = AddFrom(r, c, height)
  BY ReorganizeForm, Zenon
<1> HIDE DEF r
<1>9. AddFrom(r, c, height).hf = Replayed(c) /\ Matches(AddFrom(r, c, height).recorded, c)
  BY <1>1, <1>7, <1>8, AddRest
<1> QED BY <1>8, <1>9, Zenon

LEMMA SmallestElement ==
  ASSUME NEW S \in SUBSET Nat, S # {}
  PROVE  Min(S) \in S
<1>1. \E x \in S : \A y \in S : x <= y
  BY LeastElement
<1> QED BY <1>1, Zenon DEF Min

\* init takes the index from the last record and rescans the last window.
LEMMA InitForm ==
  ASSUME NEW rec \in [0..(MaxHeight - 1) -> Byte], NEW c \in Chains, c # <<>>
  PROVE  \E n \in Fork :
           /\ InitFrom(rec, c) = Raised(State(Window(c, Len(c)), n), Len(c))
           /\ \A x \in Fork : Version(x) = rec[Len(c) - 1] => n = x
<1>1. c \in Seq(Block) /\ Len(c) \in Nat \ {0} /\ Len(c) \in 0..Len(c) /\ WindowSize \in Nat \ {0}
  BY ForkAssumption DEF Chains
<1> DEFINE lastv == rec[Len(c) - 1]
           match == {n \in DOMAIN Forks : Version(n) = lastv}
           found == IF match = {} THEN Len(Forks) ELSE Min(match)
           s == [Empty EXCEPT !.cur = found]
<1>2. DOMAIN Forks = Fork
  BY ForkNumbers, Zenon
<1>3. match \subseteq Fork /\ match \in SUBSET Nat /\ Len(Forks) \in Fork
  BY <1>2, ForkTable DEF Fork
<1>4. found \in Fork /\ (match # {} => found \in match)
  <2>1. CASE match = {}
    BY <1>3, <2>1
  <2>2. CASE match # {}
    <3> HIDE DEF match
    <3>1. Min(match) \in match
      BY <1>3, <2>2, SmallestElement
    <3> QED BY <1>3, <2>2, <3>1, Zenon
  <2> QED BY <2>1, <2>2, Zenon
<1>5. ASSUME NEW x \in Fork, Version(x) = lastv PROVE found = x
  <2>1. x \in match
    BY <1>2, <1>5
  <2>2. Version(found) = Version(x)
    BY <1>4, <1>5, <2>1, Zenon
  <2> HIDE DEF found
  <2>3. found <= x /\ x <= found
    <3>1. Version(x) \in Nat
      BY ForkTable
    <3>2. Version(found) <= Version(x) /\ Version(x) <= Version(found)
      BY <2>2, <3>1
    <3> QED BY <1>4, <3>2, VersionsGrow, Zenon
  <2> QED BY <1>4, <2>3 DEF Fork
<1>6. s.cur = found
  <2> HIDE DEF found
  <2> QED BY DEF Empty
<1>7. RescanFirst(c) = Lo(Len(c))
  BY <1>1 DEF RescanFirst, Lo
<1>8. InitFrom(rec, c) = Raised(Windowed(s, SubSeq(c, RescanFirst(c) + 1, Len(c))), Len(c))
  BY Zenon DEF InitFrom
<1> HIDE DEF s, found
<1>9. Windowed(s, SubSeq(c, Lo(Len(c)) + 1, Len(c))) = State(Window(c, Len(c)), s.cur)
  BY <1>1, WindowedState
<1> QED BY <1>4, <1>5, <1>6, <1>7, <1>8, <1>9, Zenon

LEMMA InitCounted ==
  ASSUME NEW rec \in [0..(MaxHeight - 1) -> Byte], NEW c \in Chains, c # <<>>
  PROVE  InitFrom(rec, c) \in CountedStates
<1>1. c \in Seq(Block) /\ Len(c) \in 0..Len(c) /\ Len(c) \in Nat
  BY DEF Chains
<1>2. PICK n \in Fork : InitFrom(rec, c) = Raised(State(Window(c, Len(c)), n), Len(c))
  BY InitForm
<1>3. Window(c, Len(c)) \in Seq(Votes) /\ Len(Window(c, Len(c))) <= WindowSize
  BY <1>1, WindowType
<1>4. Counted(State(Window(c, Len(c)), n))
  BY <1>3, StateCounted, Zenon
<1>5. Counted(InitFrom(rec, c))
  BY <1>1, <1>2, <1>4, RaisedState
<1> QED BY <1>5 DEF Counted, CountedStates

\* Restarted on a clean chain whose blocks are recorded, the daemon has the replayed state.
LEMMA InitReplayed ==
  ASSUME NEW rec \in [0..(MaxHeight - 1) -> Byte], NEW c \in Chains, c # <<>>, Clean(c), Matches(rec, c)
  PROVE  InitFrom(rec, c) = Replayed(c)
<1> DEFINE k == Len(c)
           x == R(c, k - 1).cur
<1>1. k \in 1..k /\ k - 1 \in 0..Len(c)
  BY DEF Chains
<1>2. PICK n \in Fork : /\ InitFrom(rec, c) = Raised(State(Window(c, k), n), k)
                        /\ \A y \in Fork : Version(y) = rec[k - 1] => n = y
  BY InitForm, Zenon
<1>3. DoCheck(R(c, k - 1), c[k]) /\ rec[k - 1] = c[k].version
  BY <1>1, Zenon DEF Clean, Matches
<1>4. x \in Fork
  <2>1. Counted(R(c, k - 1))
    BY <1>1, ReplayFacts, Zenon
  <2> QED BY <2>1, CountedState
<1>5. n = x
  BY <1>2, <1>3, <1>4, Zenon DEF DoCheck
<1>6. R(c, k) = Raised(State(Window(c, k), x), k)
  BY <1>1, CleanWindow, Zenon
<1> QED BY <1>2, <1>5, <1>6, ReplayFacts, Zenon

----------------------------------------------------------------------------
(***************************************************************************)
(* rollback_blockchain_switching: the old blocks are added again.          *)
(***************************************************************************)
\* A chain of the daemon: the genesis block, then blocks that arrived.
Genuine(c) == Len(c) >= 1 /\ c[1] = Genesis /\ \A i \in 2..Len(c) : c[i] \in Blocks

\* The memory is that of a node that saw only this chain.
Good(m, c) == Clean(c) /\ Matches(m.recorded, c) /\ m.hf = Replayed(c)

Accs == [m : Memories, c : {c \in Chains : Genuine(c)}, ok : BOOLEAN]

Grown(acc, n, k) == acc \in Accs /\ n <= Len(acc.c) /\ Len(acc.c) <= n + k

LEMMA GenuineAppend ==
  ASSUME NEW c \in Chains, Genuine(c), Len(c) < MaxHeight, NEW b \in Blocks
  PROVE  Append(c, b) \in Chains /\ Genuine(Append(c, b)) /\ Len(Append(c, b)) = Len(c) + 1
<1> DEFINE d == Append(c, b)
<1>1. b \in Block /\ Len(c) \in Nat
  BY DEF Block, Chains
<1>2. /\ d \in Chains /\ Len(d) = Len(c) + 1 /\ d[Len(c) + 1] = b
      /\ \A i \in 1..Len(c) : d[i] = c[i]
  BY <1>1, AppendedFacts, Zenon
<1> HIDE DEF d
<1>3. d[1] = Genesis /\ Len(d) >= 1
  BY <1>1, <1>2 DEF Genuine
<1>4. ASSUME NEW i \in 2..Len(d) PROVE d[i] \in Blocks
  <2>1. CASE i = Len(c) + 1
    BY <1>2, <2>1, Zenon
  <2>2. CASE i # Len(c) + 1
    <3>1. i \in 1..Len(c) /\ i \in 2..Len(c)
      BY <1>1, <1>2, <2>2
    <3> QED BY <1>2, <3>1, Zenon DEF Genuine
  <2> QED BY <2>1, <2>2, Zenon
<1> QED BY <1>2, <1>3, <1>4, Zenon DEF Genuine, d

LEMMA ReAddGrows ==
  ASSUME NEW acc, NEW n \in Nat, NEW k \in Nat, Grown(acc, n, k), n + k < MaxHeight, NEW b \in Blocks
  PROVE  /\ Grown(ReAdd(acc, b), n, k + 1)
         /\ Good(acc.m, acc.c) => Good(ReAdd(acc, b).m, ReAdd(acc, b).c)
<1>1. /\ acc = [m |-> acc.m, c |-> acc.c, ok |-> acc.ok] /\ acc.m \in Memories /\ acc.c \in Chains
      /\ Genuine(acc.c) /\ acc.ok \in BOOLEAN /\ n <= Len(acc.c) /\ Len(acc.c) <= n + k
  BY Zenon DEF Grown, Accs
<1>2. b \in Block /\ Len(acc.c) \in Nat /\ MaxHeight \in Nat
  BY <1>1, ForkAssumption DEF Block, Chains
<1>3. Len(acc.c) < MaxHeight /\ Len(acc.c) \in 0..(MaxHeight - 1)
  BY <1>1, <1>2
<1>4. CASE acc.ok /\ DoCheck(acc.m.hf, b)
  <2> DEFINE a == Add(acc.m, b, Len(acc.c))
             d == Append(acc.c, b)
  <2>1. ReAdd(acc, b) = [m |-> a, c |-> d, ok |-> TRUE]
    BY <1>4, Zenon DEF ReAdd
  <2>2. d \in Chains /\ Genuine(d) /\ Len(d) = Len(acc.c) + 1
    BY <1>1, <1>3, GenuineAppend, Zenon
  <2>3. a \in Memories
    BY <1>1, <1>2, <1>3, AddFacts, Zenon
  <2>4. Good(acc.m, acc.c) => Good(a, d)
    <3>1. ASSUME Good(acc.m, acc.c) PROVE Good(a, d)
      <4>1. Clean(acc.c) /\ Matches(acc.m.recorded, acc.c) /\ acc.m.hf = Replayed(acc.c)
            /\ acc.m.hf.cur = Replayed(acc.c).cur
        BY <3>1, Zenon DEF Good
      <4>2. Clean(d) /\ Matches(a.recorded, d) /\ a.hf = Replayed(d)
        BY <1>1, <1>2, <1>3, <1>4, <4>1, AddedBlock, Zenon
      <4> QED BY <4>2, Zenon DEF Good
    <3> QED BY <3>1, Zenon
  <2> HIDE DEF a, d
  <2>5. n <= Len(d) /\ Len(d) <= n + (k + 1)
    BY <1>1, <1>2, <2>2
  <2>6. ReAdd(acc, b).m = a /\ ReAdd(acc, b).c = d /\ ReAdd(acc, b) \in Accs
    BY <2>1, <2>2, <2>3 DEF Accs
  <2> QED BY <2>4, <2>5, <2>6, Zenon DEF Grown
<1>5. CASE ~(acc.ok /\ DoCheck(acc.m.hf, b))
  <2>1. ReAdd(acc, b) = [acc EXCEPT !.ok = FALSE]
    BY <1>5, Zenon DEF ReAdd
  <2>2. ReAdd(acc, b).m = acc.m /\ ReAdd(acc, b).c = acc.c /\ ReAdd(acc, b) \in Accs
    BY <1>1, <2>1, Zenon DEF Accs
  <2>3. Len(acc.c) <= n + (k + 1)
    BY <1>1, <1>2
  <2> QED BY <1>1, <2>2, <2>3, Zenon DEF Grown
<1> QED BY <1>4, <1>5, Zenon

LEMMA ReAddAllFacts ==
  ASSUME NEW m \in Memories, NEW c \in Chains, Genuine(c), NEW bs \in Seq(Blocks),
         Len(c) + Len(bs) <= MaxHeight
  PROVE  /\ Grown(ReAddAll(m, c, bs), Len(c), Len(bs))
         /\ Good(m, c) => Good(ReAddAll(m, c, bs).m, ReAddAll(m, c, bs).c)
<1> DEFINE n == Len(c)
           l == Len(bs)
           base == [m |-> m, c |-> c, ok |-> TRUE]
           Is(g) == g = [k \in 0..Len(bs) |-> IF k = 0 THEN [m |-> m, c |-> c, ok |-> TRUE]
                                               ELSE ReAdd(g[k - 1], bs[k])]
           f == CHOOSE g : Is(g)
           Fits(a, k) == Grown(a, n, k) /\ (Good(m, c) => Good(a.m, a.c))
<1>1. /\ n \in Nat /\ l \in Nat /\ 0 <= l /\ l \in 0..l /\ MaxHeight \in Nat /\ 0 \in Nat
      /\ \A k \in 0..(l - 1) : /\ k \in Nat /\ k + 1 \in 1..l /\ k + 1 \in Nat /\ (k + 1) - 1 = k
                               /\ bs[k + 1] \in Blocks /\ n + k < MaxHeight
      /\ \A k \in 0..l : k # 0 => k \in 1..l
      /\ \A k \in 1..l : k # 0 /\ k - 1 \in 0..(l - 1) /\ (k - 1) + 1 = k
  BY ForkAssumption DEF Chains
<1>2. base \in Accs /\ Fits(base, 0)
  <2>1. base \in Accs /\ base.m = m /\ base.c = c
    BY Zenon DEF Accs
  <2>2. n <= n /\ n <= n + 0
    BY <1>1
  <2> HIDE DEF base
  <2> QED BY <2>1, <2>2, Zenon DEF Grown
<1>3. ASSUME NEW k \in 0..(l - 1), NEW a, Fits(a, k)
      PROVE  Fits(ReAdd(a, bs[k + 1]), k + 1) /\ ReAdd(a, bs[k + 1]) \in Accs
  <2>1. Fits(ReAdd(a, bs[k + 1]), k + 1)
    BY <1>1, <1>3, ReAddGrows, Zenon
  <2> QED BY <2>1, Zenon DEF Grown
<1> HIDE DEF Fits
<1>4. ReAddAll(m, c, bs) = f[l]
  BY DEF ReAddAll
<1>5. \E g : Is(g)
  <2> DEFINE succ == [k \in Nat |-> [a \in Accs |->
                        IF ReAdd(a, bs[k]) \in Accs THEN ReAdd(a, bs[k]) ELSE a]]
  <2>1. succ \in [Nat -> [Accs -> Accs]]
    BY Zenon
  <2>2. \A k \in Nat : \A a \in Accs : ReAdd(a, bs[k]) \in Accs => succ[k][a] = ReAdd(a, bs[k])
    BY Zenon
  <2> HIDE DEF succ, n, l, base
  <2>3. Recursive(0, l, Accs, base, succ) # {}
    BY <1>1, <1>2, <2>1, RecursionOnInterval, Zenon
  <2>4. 0 + 1 = 1
    OBVIOUS
  <2>5. PICK g \in [0..l -> Accs] : g[0] = base /\ \A k \in 1..l : g[k] = succ[k][g[k - 1]]
    BY <2>3, <2>4, Zenon DEF Recursive
  <2> DEFINE S == {k \in 0..l : Fits(g[k], k)}
  <2>6. ASSUME NEW k \in 0..(l - 1), Fits(g[k], k) PROVE g[k + 1] = ReAdd(g[k], bs[k + 1])
    <3>1. k \in 0..l
      BY <1>1
    <3>2. g[k] \in Accs /\ ReAdd(g[k], bs[k + 1]) \in Accs
      BY <1>3, <2>5, <2>6, <3>1
    <3>3. g[k + 1] = succ[k + 1][g[k]]
      BY <1>1, <2>5, Zenon
    <3> QED BY <1>1, <2>2, <3>2, <3>3, Zenon
  <2>7. 0 \in S
    BY <1>1, <1>2, <2>5
  <2>8. ASSUME NEW k \in 0..(l - 1), k \in S PROVE k + 1 \in S
    <3>1. Fits(g[k], k)
      BY <2>8
    <3>2. Fits(g[k + 1], k + 1)
      BY <1>3, <2>6, <3>1, Zenon
    <3>3. k + 1 \in 0..l
      BY <1>1
    <3> QED BY <3>2, <3>3
  <2> HIDE DEF S
  <2>9. \A k \in 0..l : k \in S
    BY <1>1, <2>7, <2>8, IntervalInduction, Zenon
  <2>10. \A k \in 0..(l - 1) : k \in 0..l
    BY <1>1
  <2>11. ASSUME NEW k \in 1..l PROVE g[k] = ReAdd(g[k - 1], bs[k])
    <3>1. k - 1 \in 0..(l - 1) /\ (k - 1) + 1 = k
      BY <1>1, Zenon
    <3>2. Fits(g[k - 1], k - 1)
      BY <2>9, <2>10, <3>1, Zenon DEF S
    <3>3. g[(k - 1) + 1] = ReAdd(g[k - 1], bs[(k - 1) + 1])
      BY <2>6, <3>1, <3>2, Zenon
    <3> QED BY <3>1, <3>3, Zenon
  <2>12. \A k \in 0..l : g[k] = IF k = 0 THEN base ELSE ReAdd(g[k - 1], bs[k])
    BY <1>1, <2>5, <2>11, Zenon
  <2>13. g = [k \in 0..l |-> IF k = 0 THEN base ELSE ReAdd(g[k - 1], bs[k])]
    BY <2>5, <2>12
  <2>14. Is(g)
    BY <2>13, Zenon DEF l, base
  <2> QED BY <2>14
<1>6. Is(f)
  <2> HIDE DEF Is
  <2> QED BY <1>5
<1> HIDE DEF f
<1>7. f[0] = base /\ \A k \in 1..l : f[k] = ReAdd(f[k - 1], bs[k])
  <2>1. f = [k \in 0..l |-> IF k = 0 THEN base ELSE ReAdd(f[k - 1], bs[k])]
    BY <1>6, Zenon
  <2> HIDE DEF Is, l, base
  <2>2. \A k \in 0..l : f[k] = IF k = 0 THEN base ELSE ReAdd(f[k - 1], bs[k])
    BY <2>1, Zenon
  <2>3. 0 \in 0..l /\ \A k \in 1..l : k \in 0..l
    BY <1>1
  <2> QED BY <1>1, <2>2, <2>3, Zenon
<1> HIDE DEF Is, l, base
<1> DEFINE T == {k \in 0..l : Fits(f[k], k)}
<1>8. 0 \in T
  BY <1>1, <1>2, <1>7
<1>9. ASSUME NEW k \in 0..(l - 1), k \in T PROVE k + 1 \in T
  <2>1. f[k + 1] = ReAdd(f[k], bs[k + 1])
    BY <1>1, <1>7, Zenon
  <2>2. Fits(f[k + 1], k + 1)
    BY <1>3, <1>9, <2>1, Zenon
  <2>3. k + 1 \in 0..l
    BY <1>1
  <2> QED BY <2>2, <2>3
<1> HIDE DEF T
<1>10. \A k \in 0..l : k \in T
  BY <1>1, <1>8, <1>9, IntervalInduction, Zenon
<1>11. Fits(f[l], l)
  BY <1>1, <1>10, Zenon DEF T
<1> QED BY <1>4, <1>11, Zenon DEF Fits, l

----------------------------------------------------------------------------
(***************************************************************************)
(* The inductive invariant.                                                *)
(***************************************************************************)
Types ==
  /\ chain \in Chains /\ Genuine(chain) /\ Memory \in Memories
  /\ phase \in {"rest", "switch"} /\ old \in Seq(Blocks)
  /\ phase = "rest" => split = 0 /\ old = <<>>
  /\ phase = "switch" => split \in 1..Len(chain) /\ split + Len(old) <= MaxHeight
  /\ ahead \in BOOLEAN /\ restarts \in 0..MaxRestarts

\* No switch has connected a block under a stale index: the chain is clean and recorded,
\* and the state is the replayed one, or, in a switch, its index is not below that of the
\* blocks that are kept.
Faithful ==
  /\ Clean(chain) /\ Matches(recorded, chain)
  /\ phase = "rest" => hf = Replayed(chain)
  /\ phase = "switch" => R(chain, split).cur <= hf.cur

\* The types of the state, the counts of the votes, and what keeps the state that of a node
\* that saw only the present chain.
IInv == Types /\ (~ahead => Faithful)

LEMMA MemoryBecomes ==
  ASSUME NEW m \in Memories, Becomes(m)
  PROVE  Memory' = m /\ hf' = m.hf /\ recorded' = m.recorded
<1>1. m = [hf |-> m.hf, recorded |-> m.recorded]
  BY Zenon DEF Memories
<1> QED BY <1>1, Zenon DEF Becomes, Memory

LEMMA MemoryParts ==
  ASSUME Types
  PROVE  /\ Memory.hf = hf /\ Memory.recorded = recorded
         /\ Counted(hf) /\ hf.cur \in Nat /\ recorded \in [0..(MaxHeight - 1) -> Byte]
<1>1. Memory \in Memories /\ Memory.hf = hf /\ Memory.recorded = recorded
  BY Zenon DEF Types, Memory
<1>2. Counted(hf) /\ recorded \in [0..(MaxHeight - 1) -> Byte]
  BY <1>1 DEF Memories, CountedStates
<1> QED BY <1>1, <1>2, CountedState DEF Fork

LEMMA InitIInv == Init => IInv
<1> SUFFICES ASSUME Init PROVE IInv
  BY Zenon
<1> DEFINE D == [h \in 0..(MaxHeight - 1) |-> IF h = 0 THEN OriginalVersion ELSE 0]
           m == [hf |-> Empty, recorded |-> D]
           a == Add(m, Genesis, 0)
<1>1. OriginalVersion = Version(1) /\ 1 \in Fork /\ OriginalVersion \in Byte /\ OriginalVersion \in Nat \ {0}
  <2>1. OriginalVersion = Version(1) /\ 1 \in Fork
    BY GenesisAssumption, ForkTable DEF Version, Fork
  <2> QED BY <2>1, ForkTable, Zenon
<1>2. m \in Memories /\ m.hf = Empty /\ m.recorded = D
  <2>1. 0 \in Byte
    BY DEF Byte
  <2>2. D \in [0..(MaxHeight - 1) -> Byte]
    BY <1>1, <2>1, Zenon
  <2>3. Empty \in CountedStates
    BY FreshFacts DEF Counted, CountedStates
  <2> HIDE DEF D
  <2> QED BY <2>2, <2>3 DEF Memories
<1>3. Genesis \in Block /\ BlockVote(Genesis) \in Nat
  BY VoteTypes, Zenon DEF Block
<1>4. DoCheck(Empty, Genesis)
  <2>1. Genesis.version = OriginalVersion /\ (Genesis.vote >= OriginalVersion \/ (Genesis.vote = 0 /\ OriginalVersion = 1))
    BY GenesisAssumption
  <2>2. BlockVote(Genesis) >= OriginalVersion
    BY <1>1, <2>1 DEF BlockVote
  <2> QED BY <1>1, <2>1, <2>2, FreshFacts, Zenon DEF DoCheck
<1>5. /\ <<>> \in Chains /\ Len(<<>>) = 0 /\ 0 < MaxHeight /\ Append(<<>>, Genesis) = <<Genesis>>
      /\ MaxHeight \in Nat
  BY ForkAssumption DEF Chains
<1>6. Replayed(<<>>) = Empty
  <2>1. R(<<>>, 0) = Empty /\ R(<<>>, 0) = Replayed(<<>>)
    BY <1>5, ReplayFacts, Zenon
  <2> QED BY <2>1
<1>7. Clean(<<>>) /\ Matches(D, <<>>)
  BY DEF Clean, Matches
<1> HIDE DEF D, m
<1>8. /\ <<Genesis>> \in Chains /\ Clean(<<Genesis>>) /\ a \in Memories
      /\ Matches(a.recorded, <<Genesis>>) /\ a.hf = Replayed(<<Genesis>>)
  <2> HIDE DEF a
  <2>1. Len(<<>>) < MaxHeight /\ m.hf.cur = Replayed(<<>>).cur /\ m.hf = Replayed(<<>>)
        /\ DoCheck(m.hf, Genesis) /\ Matches(m.recorded, <<>>)
    BY <1>2, <1>4, <1>5, <1>6, <1>7, Zenon
  <2>2. a = Add(m, Genesis, Len(<<>>))
    BY <1>5, Zenon DEF a
  <2> QED BY <1>2, <1>3, <1>5, <1>7, <2>1, <2>2, AddedBlock, Zenon
<1>9. NewDatabase = a
  BY Zenon DEF NewDatabase, a, m, D
<1> HIDE DEF a
<1>10. /\ chain = <<Genesis>> /\ hf = a.hf /\ recorded = a.recorded
       /\ phase = "rest" /\ split = 0 /\ old = <<>> /\ ahead = FALSE /\ restarts = 0
  BY <1>9, Zenon DEF Init
<1>11. Memory \in Memories
  <2>1. a = [hf |-> a.hf, recorded |-> a.recorded]
    BY <1>8, Zenon DEF Memories
  <2> QED BY <1>8, <1>10, <2>1, Zenon DEF Memory
<1>12. Genuine(chain) /\ old \in Seq(Blocks) /\ restarts \in 0..MaxRestarts
  BY <1>10, ForkAssumption DEF Genuine
<1>13. Types
  BY <1>8, <1>10, <1>11, <1>12, Zenon DEF Types
<1>14. Faithful
  BY <1>8, <1>10, Zenon DEF Faithful
<1> QED BY <1>13, <1>14, Zenon DEF IInv

LEMMA AddBlockStep ==
  ASSUME IInv, NEW b \in Blocks, AddBlock(b)
  PROVE  IInv'
<1> DEFINE n == Len(chain)
           d == Append(chain, b)
           a == Add(Memory, b, n)
<1>1. /\ phase = "rest" /\ n < MaxHeight /\ DoCheck(hf, b) /\ chain' = d /\ Becomes(a)
      /\ phase' = phase /\ split' = split /\ old' = old /\ ahead' = ahead /\ restarts' = restarts
  BY DEF AddBlock
<1>2. /\ Types /\ chain \in Chains /\ Genuine(chain) /\ Memory \in Memories /\ Memory.hf = hf
      /\ Memory.recorded = recorded
  BY MemoryParts, Zenon DEF IInv, Types
<1>3. b \in Block /\ n \in 0..(MaxHeight - 1)
  BY <1>1, <1>2, ForkAssumption DEF Block, Chains
<1>4. d \in Chains /\ Genuine(d) /\ a \in Memories
  <2>1. d \in Chains /\ Genuine(d)
    BY <1>1, <1>2, GenuineAppend, Zenon
  <2>2. a \in Memories
    BY <1>2, <1>3, AddFacts, Zenon
  <2> QED BY <2>1, <2>2
<1> HIDE DEF a, d
<1>5. Memory' = a /\ hf' = a.hf /\ recorded' = a.recorded
  BY <1>1, <1>4, MemoryBecomes
<1>6. Types'
  BY <1>1, <1>2, <1>4, <1>5, Zenon DEF Types
<1>7. ASSUME ~ahead' PROVE Faithful'
  <2>1. Clean(chain) /\ Matches(recorded, chain) /\ hf = Replayed(chain)
    BY <1>1, <1>7, Zenon DEF IInv, Faithful
  <2>2. hf.cur = Replayed(chain).cur /\ DoCheck(Memory.hf, b)
    BY <1>1, <1>2, <2>1, Zenon
  <2>3. Clean(d) /\ Matches(a.recorded, d) /\ a.hf = Replayed(d)
    BY <1>1, <1>2, <1>3, <2>1, <2>2, AddedBlock, Zenon DEF a, d
  <2>4. phase' # "switch"
    BY <1>1
  <2> QED BY <1>1, <1>5, <2>3, <2>4, Zenon DEF Faithful
<1> QED BY <1>6, <1>7, Zenon DEF IInv

LEMMA ConnectBlockStep ==
  ASSUME IInv, NEW b \in Blocks, ConnectBlock(b)
  PROVE  IInv'
<1> DEFINE n == Len(chain)
           d == Append(chain, b)
           a == Add(Memory, b, n)
<1>1. /\ phase = "switch" /\ n < MaxHeight /\ DoCheck(hf, b) /\ chain' = d /\ Becomes(a)
      /\ phase' = phase /\ split' = split /\ old' = old /\ restarts' = restarts
      /\ ahead' = (ahead \/ Stale)
  BY Zenon DEF ConnectBlock
<1>2. /\ Types /\ chain \in Chains /\ Genuine(chain) /\ Memory \in Memories /\ Memory.hf = hf
      /\ Memory.recorded = recorded /\ split \in 1..n /\ n \in Nat /\ hf.cur \in Nat
  BY <1>1, MemoryParts, ChainFacts, Zenon DEF IInv, Types
<1>3. b \in Block /\ n \in 0..(MaxHeight - 1)
  BY <1>1, <1>2, ForkAssumption DEF Block, Chains
<1>4. d \in Chains /\ Genuine(d) /\ a \in Memories /\ Len(d) = n + 1
  <2>1. d \in Chains /\ Genuine(d) /\ Len(d) = n + 1
    BY <1>1, <1>2, GenuineAppend, Zenon
  <2>2. a \in Memories
    BY <1>2, <1>3, AddFacts, Zenon
  <2> QED BY <2>1, <2>2, Zenon
<1> HIDE DEF a, d
<1>5. Memory' = a /\ hf' = a.hf /\ recorded' = a.recorded
  BY <1>1, <1>4, MemoryBecomes
<1>6. split \in 1..Len(d) /\ split \in 0..n
  BY <1>2, <1>4
<1>7. Types'
  <2>1. ahead' \in BOOLEAN
    BY <1>1, <1>2 DEF Types
  <2> QED BY <1>1, <1>2, <1>4, <1>5, <1>6, <2>1, Zenon DEF Types
<1>8. ASSUME ~ahead' PROVE Faithful'
  <2>1. ~ahead /\ hf.cur = Replayed(chain).cur
    BY <1>1, <1>8, Zenon DEF Stale
  <2>2. Clean(chain) /\ Matches(recorded, chain) /\ R(chain, split).cur <= hf.cur
    BY <1>1, <2>1, Zenon DEF IInv, Faithful
  <2>3. /\ Clean(d) /\ Matches(a.recorded, d) /\ hf.cur <= a.hf.cur
        /\ \A k \in 0..n : R(d, k) = R(chain, k)
    BY <1>1, <1>2, <1>3, <2>1, <2>2, AddedBlock, Zenon DEF a, d
  <2>4. R(d, split).cur <= a.hf.cur
    <3>1. R(d, split) = R(chain, split)
      BY <1>6, <2>3, Zenon
    <3>2. R(chain, split).cur \in Nat
      BY <1>2, <1>6, ReplayFacts, CountedState DEF Fork
    <3>3. a.hf.cur \in Nat
      BY <1>4, CountedState DEF Memories, CountedStates, Fork
    <3> QED BY <1>2, <2>2, <2>3, <3>1, <3>2, <3>3
  <2>5. phase' # "rest"
    BY <1>1
  <2> QED BY <1>1, <1>5, <2>3, <2>4, <2>5, Zenon DEF Faithful
<1> QED BY <1>7, <1>8, Zenon DEF IInv

LEMMA GenuinePrefix ==
  ASSUME NEW c \in Chains, Genuine(c), NEW k \in 1..Len(c)
  PROVE  Genuine(Pre(c, k)) /\ Pre(c, k) \in Chains /\ Len(Pre(c, k)) = k
<1>1. Len(c) \in Nat /\ k \in 0..Len(c) /\ 1 \in 1..k /\ k >= 1
  BY DEF Chains
<1>2. Len(Pre(c, k)) = k /\ Pre(c, k) \in Chains /\ \A i \in 1..k : Pre(c, k)[i] = c[i]
  BY <1>1, PreFacts, Zenon
<1>3. \A i \in 2..k : i \in 1..k /\ i \in 2..Len(c)
  BY <1>1
<1> QED BY <1>1, <1>2, <1>3, Zenon DEF Genuine

LEMMA PopBlockStep ==
  ASSUME IInv, PopBlock
  PROVE  IInv'
<1> DEFINE n == Len(chain)
           d == Pre(chain, n - 1)
           x == chain[n]
<1>1. /\ phase = "rest" \/ (phase = "switch" /\ n = split)
      /\ phase' = "switch" /\ chain' = d /\ split' = n - 1 /\ old' = <<x>> \o old /\ n > 1
      /\ recorded' = recorded /\ hf' = hf /\ ahead' = ahead /\ restarts' = restarts
  BY Zenon DEF PopBlock, Popping, Pre
<1>2. /\ Types /\ chain \in Chains /\ Genuine(chain) /\ Memory \in Memories /\ n \in Nat
      /\ old \in Seq(Blocks) /\ n <= MaxHeight /\ MaxHeight \in Nat
  BY ForkAssumption DEF IInv, Types, Chains
<1>3. /\ n - 1 \in 1..n /\ n - 1 \in 0..n /\ n \in 2..n /\ n - 1 \in 1..(n - 1) /\ n \in 0..n
      /\ n - 1 <= n /\ n - 1 \in 0..(n - 1)
  BY <1>1, <1>2
<1>4. x \in Blocks
  BY <1>2, <1>3, Zenon DEF Genuine
<1>5. d \in Chains /\ Genuine(d) /\ Len(d) = n - 1
  BY <1>2, <1>3, GenuinePrefix, Zenon
<1> HIDE DEF x
<1>6. <<x>> \o old \in Seq(Blocks) /\ Len(<<x>> \o old) = 1 + Len(old) /\ Len(old) \in Nat
  BY <1>2, <1>4
<1>7. (n - 1) + Len(old') <= MaxHeight
  <2>1. n + Len(old) <= MaxHeight
    <3>1. CASE phase = "rest"
      <4>1. old = <<>>
        BY <1>2, <3>1 DEF Types
      <4> QED BY <1>2, <4>1
    <3>2. CASE phase = "switch"
      BY <1>1, <1>2, <3>2 DEF Types
    <3> QED BY <1>1, <3>1, <3>2
  <2> QED BY <1>1, <1>2, <1>6, <2>1
<1> HIDE DEF d
<1>8. Types'
  <2>1. Memory' = Memory
    BY <1>1, Zenon DEF Memory
  <2>2. split' \in 1..Len(chain') /\ split' + Len(old') <= MaxHeight
    BY <1>1, <1>3, <1>5, <1>7, Zenon
  <2>3. phase' # "rest"
    BY <1>1
  <2> QED BY <1>1, <1>2, <1>5, <1>6, <2>1, <2>2, <2>3, Zenon DEF Types
<1>9. ASSUME ~ahead' PROVE Faithful'
  <2>1. Faithful
    BY <1>1, <1>9, Zenon DEF IInv
  <2>2. Clean(d) /\ Matches(recorded, d)
    BY <1>2, <1>3, <2>1, CleanPrefix, Zenon DEF Faithful, d
  <2>3. R(chain, n).cur <= hf.cur
    <3>1. CASE phase = "rest"
      <4>1. hf = R(chain, n)
        BY <1>2, <2>1, <3>1, ReplayFacts, Zenon DEF Faithful
      <4>2. hf.cur \in Nat
        BY <1>2, MemoryParts
      <4> QED BY <4>1, <4>2
    <3>2. CASE phase = "switch"
      BY <1>1, <2>1, <3>2, Zenon DEF Faithful
    <3> QED BY <1>1, <3>1, <3>2
  <2>4. R(chain, n - 1).cur <= R(chain, n).cur
    BY <1>2, <1>3, IndexGrows
  <2>5. R(d, n - 1) = R(chain, n - 1)
    BY <1>2, <1>3, CleanPrefix, Zenon DEF d
  <2>6. R(chain, n - 1).cur \in Nat /\ R(chain, n).cur \in Nat /\ hf.cur \in Nat
    <3>1. Counted(R(chain, n - 1)) /\ Counted(R(chain, n))
      BY <1>2, <1>3, ReplayFacts, Zenon
    <3> QED BY <1>2, <3>1, CountedState, MemoryParts DEF Fork
  <2>7. R(d, n - 1).cur <= hf.cur
    BY <2>3, <2>4, <2>5, <2>6
  <2>8. phase' # "rest"
    BY <1>1
  <2> QED BY <1>1, <2>2, <2>7, <2>8, Zenon DEF Faithful
<1> QED BY <1>8, <1>9, Zenon DEF IInv

\* The end of a switch or a restart, whatever the chain and the memory have become.
LEMMA Rested ==
  ASSUME IInv, NEW c \in Chains, Genuine(c), NEW m \in Memories, chain' = c, Becomes(m), Rest,
         ahead' = ahead, restarts' \in 0..MaxRestarts, ~ahead => Good(m, c)
  PROVE  IInv'
<1>1. Memory' = m /\ hf' = m.hf /\ recorded' = m.recorded
  BY MemoryBecomes
<1>2. phase' = "rest" /\ split' = 0 /\ old' = <<>> /\ phase' # "switch"
  BY DEF Rest
<1>3. <<>> \in Seq(Blocks)
  OBVIOUS
<1>4. Types'
  BY <1>1, <1>2, <1>3, Zenon DEF IInv, Types
<1>5. ~ahead' => Faithful'
  BY <1>1, <1>2, Zenon DEF Faithful, Good
<1> QED BY <1>4, <1>5, Zenon DEF IInv

LEMMA FinishSwitchStep ==
  ASSUME IInv, FinishSwitch
  PROVE  IInv'
<1> DEFINE a == ReorganizeFromChainHeight(Memory, chain, split)
<1>1. phase = "switch" /\ Becomes(a) /\ Rest /\ chain' = chain /\ ahead' = ahead /\ restarts' = restarts
  BY Zenon DEF FinishSwitch
<1>2. /\ Types /\ chain \in Chains /\ Genuine(chain) /\ Memory \in Memories /\ Memory.hf = hf
      /\ Memory.recorded = recorded /\ split \in 1..Len(chain) /\ hf.cur \in Nat
      /\ restarts \in 0..MaxRestarts
  BY <1>1, MemoryParts, Zenon DEF IInv, Types
<1>3. split \in 0..Len(chain) /\ split - 1 \in 0..Len(chain) /\ split - 1 <= split
  BY <1>2, ChainFacts, Position, Zenon
<1>4. a \in Memories
  BY <1>2, <1>3, ReorganizeType, Zenon
<1>5. ASSUME ~ahead PROVE Good(a, chain)
  <2>1. Clean(chain) /\ Matches(recorded, chain) /\ R(chain, split).cur <= hf.cur
    BY <1>1, <1>5, Zenon DEF IInv, Faithful
  <2>2. R(chain, split - 1).cur <= hf.cur
    BY <1>2, <1>3, <2>1, IndexAtMost, Zenon
  <2>3. chain[1].version = OriginalVersion
    BY <1>2, GenesisAssumption, Zenon DEF Genuine
  <2>4. a.hf = Replayed(chain) /\ Matches(a.recorded, chain)
    BY <1>2, <2>1, <2>2, <2>3, Reorganized, Zenon
  <2> QED BY <2>1, <2>4, Zenon DEF Good
<1> HIDE DEF a
<1> QED BY <1>1, <1>2, <1>4, <1>5, Rested, Zenon

LEMMA RollBackStep ==
  ASSUME IInv, RollBack
  PROVE  IInv'
<1> DEFINE kept == Pre(chain, split)
           lowered == ReorganizeFromChainHeight(Memory, kept, split)
           back == ReAddAll(lowered, kept, old)
           again == ReorganizeFromChainHeight(back.m, back.c, split)
           a == IF back.ok THEN again ELSE back.m
<1>1. phase = "switch" /\ chain' = back.c /\ Becomes(a) /\ Rest /\ ahead' = ahead /\ restarts' = restarts
  BY Zenon DEF RollBack, Pre
<1>2. /\ Types /\ chain \in Chains /\ Genuine(chain) /\ Memory \in Memories /\ Memory.hf = hf
      /\ Memory.recorded = recorded /\ split \in 1..Len(chain) /\ hf.cur \in Nat
      /\ restarts \in 0..MaxRestarts /\ old \in Seq(Blocks) /\ split + Len(old) <= MaxHeight
  BY <1>1, MemoryParts, Zenon DEF IInv, Types
<1>3. /\ split \in 0..Len(chain) /\ split - 1 \in 0..Len(chain) /\ split - 1 <= split
      /\ split \in 0..split /\ split \in 1..split /\ split - 1 \in 0..split /\ split \in Nat
  BY <1>2, ChainFacts, Position, Zenon
<1>4. kept \in Chains /\ Genuine(kept) /\ Len(kept) = split
  BY <1>2, GenuinePrefix
<1>5. lowered \in Memories
  <2> HIDE DEF kept
  <2> QED BY <1>2, <1>3, <1>4, ReorganizeType, Zenon
<1>6. ASSUME ~ahead PROVE Good(lowered, kept)
  <2>1. Clean(chain) /\ Matches(recorded, chain) /\ R(chain, split).cur <= hf.cur
    BY <1>1, <1>6, Zenon DEF IInv, Faithful
  <2>2. Clean(kept) /\ Matches(recorded, kept) /\ R(kept, split - 1) = R(chain, split - 1)
    BY <1>2, <1>3, <2>1, CleanPrefix, Zenon
  <2>3. R(chain, split - 1).cur <= hf.cur
    BY <1>2, <1>3, <2>1, IndexAtMost, Zenon
  <2>4. kept[1].version = OriginalVersion
    BY <1>4, GenesisAssumption, Zenon DEF Genuine
  <2> HIDE DEF kept
  <2>5. lowered.hf = Replayed(kept) /\ Matches(lowered.recorded, kept)
    BY <1>2, <1>3, <1>4, <2>2, <2>3, <2>4, Reorganized, Zenon
  <2> QED BY <2>2, <2>5, Zenon DEF Good
<1> HIDE DEF kept, lowered
<1>7. back \in Accs /\ split <= Len(back.c) /\ (Good(lowered, kept) => Good(back.m, back.c))
  <2>1. Grown(back, Len(kept), Len(old)) /\ (Good(lowered, kept) => Good(back.m, back.c))
    BY <1>2, <1>4, <1>5, ReAddAllFacts, Zenon
  <2> QED BY <1>4, <2>1, Zenon DEF Grown
<1>8. back.m \in Memories /\ back.c \in Chains /\ Genuine(back.c)
  <2> HIDE DEF back
  <2> QED BY <1>7, Zenon DEF Accs
<1> HIDE DEF back
<1>9. /\ split \in 0..Len(back.c) /\ split \in 1..Len(back.c) /\ split - 1 \in 0..Len(back.c)
      /\ Len(back.c) \in 0..Len(back.c) /\ split - 1 <= Len(back.c)
  BY <1>2, <1>3, <1>7, <1>8 DEF Chains
<1>10. again \in Memories
  BY <1>8, <1>9, ReorganizeType
<1>11. ASSUME ~ahead PROVE Good(back.m, back.c) /\ Good(again, back.c)
  <2>1. Good(back.m, back.c)
    BY <1>6, <1>7, <1>11, Zenon
  <2>2. /\ Clean(back.c) /\ Matches(back.m.recorded, back.c) /\ back.m.hf = R(back.c, Len(back.c))
    BY <1>8, <2>1, ReplayFacts, Zenon DEF Good
  <2>3. R(back.c, split - 1).cur <= back.m.hf.cur
    <3>1. R(back.c, split - 1).cur <= R(back.c, Len(back.c)).cur
      BY <1>8, <1>9, IndexGrows
    <3> QED BY <2>2, <3>1, Zenon
  <2>4. back.c[1].version = OriginalVersion
    BY <1>8, GenesisAssumption, Zenon DEF Genuine
  <2>5. again.hf = Replayed(back.c) /\ Matches(again.recorded, back.c)
    BY <1>8, <1>9, <2>2, <2>3, <2>4, Reorganized, Zenon
  <2> QED BY <2>1, <2>2, <2>5, Zenon DEF Good
<1> HIDE DEF again
<1>12. a \in Memories /\ (~ahead => Good(a, back.c))
  BY <1>8, <1>10, <1>11
<1> HIDE DEF a
<1> QED BY <1>1, <1>2, <1>8, <1>12, Rested, Zenon

LEMMA RestartStep ==
  ASSUME IInv, Restart
  PROVE  IInv'
<1> DEFINE s == InitFrom(recorded, chain)
           m == [hf |-> s, recorded |-> recorded]
<1>1. /\ restarts < MaxRestarts /\ restarts' = restarts + 1 /\ hf' = s /\ Rest
      /\ chain' = chain /\ recorded' = recorded /\ ahead' = ahead
  BY Zenon DEF Restart
<1>2. /\ Types /\ chain \in Chains /\ Genuine(chain) /\ recorded \in [0..(MaxHeight - 1) -> Byte]
      /\ restarts \in 0..MaxRestarts
  BY MemoryParts DEF IInv, Types
<1>3. chain # <<>>
  BY <1>2 DEF Genuine
<1>4. s \in CountedStates
  BY <1>2, <1>3, InitCounted
<1>5. ~ahead => Clean(chain) /\ Matches(recorded, chain)
  BY Zenon DEF IInv, Faithful
<1>6. ~ahead => s = Replayed(chain)
  BY <1>2, <1>3, <1>5, InitReplayed, Zenon
<1> HIDE DEF s
<1>7. m \in Memories /\ m.hf = s /\ m.recorded = recorded
  BY <1>2, <1>4 DEF Memories
<1> HIDE DEF m
<1>8. Becomes(m) /\ (~ahead => Good(m, chain))
  BY <1>1, <1>5, <1>6, <1>7, Zenon DEF Becomes, Good
<1>9. restarts' \in 0..MaxRestarts
  BY <1>1, <1>2, ForkAssumption
<1> QED BY <1>1, <1>2, <1>7, <1>8, <1>9, Rested, Zenon

----------------------------------------------------------------------------
(***************************************************************************)
(* Theorems                                                                *)
(***************************************************************************)
\* Adding, popping and connecting blocks, the end of a switch, a rollback and a restart
\* keep the types, the counts of the votes and, as long as no switch has connected a block
\* under a stale index, the agreement of the memory and the records with the chain.
THEOREM Inductive == Spec => []IInv
<1>1. Init => IInv
  BY InitIInv
<1>2. IInv /\ [Next]_vars => IInv'
  <2> SUFFICES ASSUME IInv, [Next]_vars PROVE IInv'
    OBVIOUS
  <2>1. ASSUME NEW b \in Blocks, AddBlock(b) PROVE IInv'
    BY <2>1, AddBlockStep
  <2>2. ASSUME NEW b \in Blocks, ConnectBlock(b) PROVE IInv'
    BY <2>2, ConnectBlockStep
  <2>3. CASE PopBlock
    BY <2>3, PopBlockStep
  <2>4. CASE FinishSwitch
    BY <2>4, FinishSwitchStep
  <2>5. CASE RollBack
    BY <2>5, RollBackStep
  <2>6. CASE Restart
    BY <2>6, RestartStep
  <2>7. CASE UNCHANGED vars
    <3>1. Types' /\ (Faithful' <=> Faithful) /\ ahead' = ahead
      BY <2>7, Zenon DEF vars, IInv, Types, Faithful, Memory
    <3> QED BY <3>1, Zenon DEF IInv
  <2> QED BY <2>1, <2>2, <2>3, <2>4, <2>5, <2>6, <2>7, Zenon DEF Next
<1> QED BY <1>1, <1>2, PTL DEF Spec

\* Whatever was popped, re-added, rescanned or restarted, last_versions counts exactly the
\* votes of the window, and the window never holds more than window_size of them: the
\* assertion of HardFork::add holds when a vote leaves the window.
THEOREM CountsAlwaysMatch == Spec => []CountsMatchWindow
<1>1. IInv => CountsMatchWindow
  <2> SUFFICES ASSUME IInv PROVE CountsMatchWindow
    BY Zenon
  <2>1. Types /\ Counted(hf) /\ recorded \in [0..(MaxHeight - 1) -> Byte] /\ chain \in Chains /\ Genuine(chain)
    BY MemoryParts, Zenon DEF IInv, Types
  <2>2. chain \in Seq(Blocks \cup {Genesis}) /\ Len(chain) \in 1..MaxHeight
    BY <2>1, ForkAssumption DEF Chains, Block, Genuine
  <2>3. hf \in States /\ Len(hf.versions) <= WindowSize /\ hf.last = Tally(hf.versions)
    BY <2>1 DEF Counted
  <2>4. DOMAIN Forks = Fork
    BY ForkNumbers, Zenon
  <2>5. hf.versions \in Seq(1..MaxVersion) /\ hf.last \in [1..MaxVersion -> Nat] /\ hf.cur \in DOMAIN Forks
    BY <2>3, <2>4, Zenon DEF States, Votes
  <2>6. split \in 0..MaxHeight
    <3>1. Len(chain) \in Nat /\ Len(chain) <= MaxHeight /\ MaxHeight \in Nat
      BY <2>1, ChainFacts, Zenon
    <3>2. CASE phase = "rest"
      <4>1. 0 \in 0..MaxHeight
        BY <3>1
      <4> QED BY <2>1, <3>2, <4>1, Zenon DEF Types
    <3>3. CASE phase = "switch"
      BY <2>1, <3>1, <3>3, Position, Zenon DEF Types
    <3> QED BY <2>1, <3>2, <3>3, Zenon DEF Types
  <2>7. TypeOK
    BY <2>1, <2>2, <2>5, <2>6, Zenon DEF TypeOK, Types
  <2>8. \A v \in 1..MaxVersion :
          hf.last[v] = Cardinality({i \in DOMAIN hf.versions : hf.versions[i] = v})
    BY <2>3, Zenon DEF Tally, Votes
  <2> QED BY <2>3, <2>7, <2>8, Zenon DEF CountsMatchWindow
<1> QED BY <1>1, Inductive, PTL

\* Between operations the window, its counts and the fork in force are those of a node that
\* saw only the blocks of the present chain, and each height has the record of its block:
\* reorganize_from_chain_height and init undo what popped blocks left behind, for every
\* table of forks, as long as no switch connected a block under a stale index.
THEOREM AtRestAlwaysReplayed == Spec => []AtRestAsReplayed
<1>1. IInv => AtRestAsReplayed
  <2> SUFFICES ASSUME IInv, phase = "rest", ~ahead
               PROVE  /\ hf = Replayed(chain)
                      /\ \A h \in 1..(Len(chain) - 1) : recorded[h] = chain[h + 1].version
    BY DEF AtRestAsReplayed
  <2>1. hf = Replayed(chain) /\ Matches(recorded, chain) /\ Len(chain) \in Nat
    BY DEF IInv, Faithful, Types, Chains
  <2>2. \A h \in 1..(Len(chain) - 1) : h + 1 \in 1..Len(chain) /\ (h + 1) - 1 = h
    BY <2>1
  <2> QED BY <2>1, <2>2, Zenon DEF Matches
<1> QED BY <1>1, Inductive, PTL

=============================================================================

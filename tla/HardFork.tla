------------------------------- MODULE HardFork -------------------------------
(***************************************************************************)
(* Which block version the daemon accepts next: class HardFork             *)
(* (cryptonote_core/hardfork.cpp) driven by the way blocks enter and leave *)
(* the main chain in Blockchain and BlockchainDB::add_block.               *)
(*                                                                         *)
(* The in-memory state is a window of the last votes, their counts, and    *)
(* current_fork_index.  The database records a version for every height,   *)
(* and keeps the record of a height whose block is popped.  Popping does   *)
(* not touch the in-memory state either: reorganize_from_chain_height      *)
(* rebuilds it when a switch has ended, and, during a rollback, as soon as *)
(* the blocks of the failed branch are popped.                             *)
(*                                                                         *)
(* Heights count from 0 as in the code; the block at height h is           *)
(* chain[h + 1].  Fork indexes count from 1.                               *)
(***************************************************************************)
EXTENDS Integers, Sequences, FiniteSets, FiniteSetsExt

CONSTANTS
  Forks,            \* heights: <<[version, height, threshold], ...>>
  WindowSize,       \* window_size
  OriginalVersion,  \* original_version
  Genesis,          \* the first block
  Blocks,           \* blocks that may arrive: [version, vote]
  MaxHeight,        \* bound: the length of the chain
  MaxPops,          \* bound: blocks popped by one switch
  MaxRestarts       \* bound: restarts of the daemon

Byte == 0..255  \* uint8_t

\* What add_fork and the constructor insist on.
ASSUME ForkAssumption ==
  /\ WindowSize \in Nat \ {0}
  /\ Forks \in Seq([version : Byte \ {0}, height : Nat, threshold : 0..100]) /\ Forks # <<>>
  /\ \A n \in 2..Len(Forks) : /\ Forks[n].version > Forks[n - 1].version
                              /\ Forks[n].height > Forks[n - 1].height
  /\ {Genesis} \cup Blocks \subseteq [version : Byte, vote : Byte]
  /\ MaxHeight \in Nat \ {0} /\ MaxPops \in Nat /\ MaxRestarts \in Nat

\* The first fork of the tables is the original version, and the genesis block is of
\* this version and votes for it.
ASSUME GenesisAssumption ==
  /\ OriginalVersion = Forks[1].version /\ Genesis.version = OriginalVersion
  /\ Genesis.vote >= OriginalVersion \/ (Genesis.vote = 0 /\ OriginalVersion = 1)

VARIABLES
  chain,     \* the blocks of the main chain
  recorded,  \* m_hf_versions: height -> version, 0 where there is none
  hf,        \* versions, last_versions, current_fork_index
  phase,     \* "rest", or "switch" while switch_to_alternative_blockchain runs
  split,     \* split_height of the running switch
  old,       \* disconnected_chain of the running switch
  ahead,     \* history: a switch connected a block under a stale index
  restarts

vars == <<chain, recorded, hf, phase, split, old, ahead, restarts>>

----------------------------------------------------------------------------
(***************************************************************************)
(* Votes                                                                   *)
(***************************************************************************)
MaxVersion == Forks[Len(Forks)].version

Version(n) == Forks[n].version

\* get_block_vote: minor version 0 stands for 1
BlockVote(b) == IF b.vote = 0 THEN 1 ELSE b.vote

\* get_effective_version: a vote for an unknown version counts for the last
EffectiveVersion(v) == IF v > MaxVersion THEN MaxVersion ELSE v

VoteOf(b) == EffectiveVersion(BlockVote(b))

Threshold(n) == (WindowSize * Forks[n].threshold + 99) \div 100

\* accumulated_votes when the loop of get_voted_fork_index reaches n
VotesFor(last, n) ==
  MapThenSumSet(LAMBDA k : last[Version(k)], n..Len(Forks))

VotedForkIndex(s, height) ==
  Max({s.cur} \cup {n \in (s.cur + 1)..Len(Forks) :
                      /\ height >= Forks[n].height
                      /\ VotesFor(s.last, n) >= Threshold(n)})

DoCheck(s, b) == b.version = Version(s.cur) /\ BlockVote(b) >= Version(s.cur)

NoVotes == [v \in 1..MaxVersion |-> 0]

Empty == [versions |-> <<>>, last |-> NoVotes, cur |-> 1]

\* The window made of a sequence of blocks: versions and last_versions.
Windowed(s, bs) ==
  LET votes == [i \in DOMAIN bs |-> VoteOf(bs[i])]
  IN [versions |-> votes,
      last |-> [v \in 1..MaxVersion |-> Cardinality({i \in DOMAIN votes : votes[i] = v})],
      cur |-> s.cur]

Raised(s, height) == [s EXCEPT !.cur = VotedForkIndex(s, height)]

\* Mutant: the vote that leaves the window stays counted.
WithVoteUncounted(s, v) ==
  LET full == Len(s.versions) >= WindowSize
  IN [s EXCEPT !.versions = Append(IF full THEN Tail(@) ELSE @, v),
               !.last[v] = @ + 1]

\* The window after one more vote: the oldest one leaves a full window.
WithVote(s, v) ==
  LET full == Len(s.versions) >= WindowSize
      less == IF full THEN [s.last EXCEPT ![s.versions[1]] = @ - 1] ELSE s.last
  IN [versions |-> Append(IF full THEN Tail(s.versions) ELSE s.versions, v),
      last |-> [less EXCEPT ![v] = @ + 1],
      cur |-> s.cur]

(***************************************************************************)
(* HardFork::add, on the pair of the in-memory state and the records: the  *)
(* version recorded is the one in force when the block arrives.            *)
(***************************************************************************)
Add(m, b, h) ==
  IF ~DoCheck(m.hf, b) THEN m
  ELSE [hf |-> Raised(WithVote(m.hf, VoteOf(b)), h + 1),
        recorded |-> [m.recorded EXCEPT ![h] = Version(m.hf.cur)]]

\* The blocks of c from height h on, added one after the other.
AddFrom(m, c, h) ==
  LET after[k \in h..Len(c)] == IF k = h THEN m ELSE Add(after[k - 1], c[k], k - 1)
  IN after[Len(c)]

Lowered(s, start) ==
  [s EXCEPT !.cur = Max({1} \cup {n \in 1..s.cur : Version(n) <= start})]

\* Mutant: the index is never lowered.
ReorganizeFromChainHeightNoLowering(m, c, height) ==
  LET top == height - 1
      first == IF top >= WindowSize - 1 THEN top - (WindowSize - 1) ELSE 0
      scanned == Windowed(m.hf, SubSeq(c, first + 1, height))
  IN IF height = 0 \/ top >= Len(c) THEN m
     ELSE AddFrom([m EXCEPT !.hf = Raised(scanned, height)], c, height)

\* reorganize_from_chain_height, that is reorganize_from_block_height(height - 1)
ReorganizeFromChainHeight(m, c, height) ==
  LET top == height - 1
      first == IF top >= WindowSize - 1 THEN top - (WindowSize - 1) ELSE 0
      start == IF top = 0 THEN OriginalVersion ELSE m.recorded[top]
      scanned == Windowed(Lowered(m.hf, start), SubSeq(c, first + 1, height))
  IN IF height = 0 \/ top >= Len(c) THEN m
     ELSE AddFrom([m EXCEPT !.hf = Raised(scanned, height)], c, height)

\* The height init hands to rescan_from_chain_height, less one.
RescanFirst(c) ==
  (IF Len(c) > WindowSize THEN Len(c) - (WindowSize - 1) ELSE 1) - 1

\* init of a database that has hard fork records: rescan_from_chain_height.
\* A recorded version that no fork has leaves the last index.
InitFrom(rec, c) ==
  LET lastv == rec[Len(c) - 1]
      match == {n \in DOMAIN Forks : Version(n) = lastv}
      found == IF match = {} THEN Len(Forks) ELSE Min(match)
  IN Raised(Windowed([Empty EXCEPT !.cur = found],
                     SubSeq(c, RescanFirst(c) + 1, Len(c))),
            Len(c))

----------------------------------------------------------------------------
Memory == [hf |-> hf, recorded |-> recorded]

Becomes(m) == hf' = m.hf /\ recorded' = m.recorded

\* A new database: init finds no records and writes the one of height 0, then
\* the genesis block is added.
NewDatabase ==
  Add([hf |-> Empty,
       recorded |-> [h \in 0..(MaxHeight - 1) |->
                       IF h = 0 THEN OriginalVersion ELSE 0]],
      Genesis, 0)

Init ==
  /\ chain = <<Genesis>>
  /\ hf = NewDatabase.hf
  /\ recorded = NewDatabase.recorded
  /\ phase = "rest" /\ split = 0 /\ old = <<>>
  /\ ahead = FALSE /\ restarts = 0

\* The rules as a node that saw only this chain would apply them.
Replayed(c) == AddFrom([hf |-> Empty, recorded |-> [h \in 0..(MaxHeight - 1) |-> 0]], c, 0).hf

Stale == hf.cur # Replayed(chain).cur

\* handle_block_to_main_chain, for a block that passes every other test
AddBlock(b) ==
  /\ phase = "rest" /\ Len(chain) < MaxHeight
  /\ DoCheck(hf, b)
  /\ chain' = Append(chain, b)
  /\ Becomes(Add(Memory, b, Len(chain)))
  /\ UNCHANGED <<phase, split, old, ahead, restarts>>

Popping ==
  /\ phase = "rest" \/ (phase = "switch" /\ Len(chain) = split)
  /\ Len(old) < MaxPops
  /\ phase' = "switch"
  /\ chain' = SubSeq(chain, 1, Len(chain) - 1)
  /\ split' = Len(chain) - 1
  /\ UNCHANGED <<recorded, hf, ahead, restarts>>

\* The first loop of switch_to_alternative_blockchain.
PopBlock == Popping /\ Len(chain) > 1 /\ old' = <<chain[Len(chain)]>> \o old

\* Its second loop: handle_block_to_main_chain on a block of the branch.
ConnectBlock(b) ==
  /\ phase = "switch" /\ Len(chain) < MaxHeight
  /\ DoCheck(hf, b)
  /\ chain' = Append(chain, b)
  /\ Becomes(Add(Memory, b, Len(chain)))
  /\ ahead' = (ahead \/ Stale)
  /\ UNCHANGED <<phase, split, old, restarts>>

Rest == phase' = "rest" /\ split' = 0 /\ old' = <<>>

\* All of the branch is connected: it has one block at least.
FinishSwitch ==
  /\ phase = "switch" /\ Len(chain) > split
  /\ Becomes(ReorganizeFromChainHeight(Memory, chain, split))
  /\ Rest
  /\ UNCHANGED <<chain, ahead, restarts>>

\* Re-adding a block of the old chain: a refusal stops the loop.
ReAdd(acc, b) ==
  IF acc.ok /\ DoCheck(acc.m.hf, b)
  THEN [m |-> Add(acc.m, b, Len(acc.c)), c |-> Append(acc.c, b), ok |-> TRUE]
  ELSE [acc EXCEPT !.ok = FALSE]

\* The blocks of bs, one after the other, on the chain c.
ReAddAll(m, c, bs) ==
  LET back[k \in 0..Len(bs)] == IF k = 0 THEN [m |-> m, c |-> c, ok |-> TRUE]
                                ELSE ReAdd(back[k - 1], bs[k])
  IN back[Len(bs)]

\* A block of the branch was refused: rollback_blockchain_switching.
RollBack ==
  /\ phase = "switch"
  /\ LET kept == SubSeq(chain, 1, split)
         lowered == ReorganizeFromChainHeight(Memory, kept, split)
         back == ReAddAll(lowered, kept, old)
     IN /\ chain' = back.c
        /\ Becomes(IF back.ok
                   THEN ReorganizeFromChainHeight(back.m, back.c, split)
                   ELSE back.m)
  /\ Rest
  /\ UNCHANGED <<ahead, restarts>>

\* The daemon stops or crashes, possibly half way through a switch: every
\* popped or added block was committed with its record.
Restart ==
  /\ restarts < MaxRestarts
  /\ restarts' = restarts + 1
  /\ hf' = InitFrom(recorded, chain)
  /\ Rest
  /\ UNCHANGED <<chain, recorded, ahead>>

Next ==
  \/ \E b \in Blocks : AddBlock(b) \/ ConnectBlock(b)
  \/ PopBlock
  \/ FinishSwitch
  \/ RollBack
  \/ Restart

Spec == Init /\ [][Next]_vars

----------------------------------------------------------------------------
(***************************************************************************)
(* Properties                                                              *)
(***************************************************************************)
\* The types of the state.
TypeOK ==
  /\ chain \in Seq(Blocks \cup {Genesis}) /\ Len(chain) \in 1..MaxHeight
  /\ recorded \in [0..(MaxHeight - 1) -> Byte]
  /\ hf.versions \in Seq(1..MaxVersion)
  /\ hf.last \in [1..MaxVersion -> Nat]
  /\ hf.cur \in DOMAIN Forks
  /\ phase \in {"rest", "switch"}
  /\ split \in 0..MaxHeight
  /\ old \in Seq(Blocks)
  /\ ahead \in BOOLEAN /\ restarts \in 0..MaxRestarts

\* The state has its types, and last_versions counts exactly the votes in versions,
\* which never holds more
\* than window_size of them, whatever was popped, re-added or rescanned.  It is
\* what the assertion of HardFork::add relies on when a vote leaves the window.
CountsMatchWindow ==
  /\ TypeOK
  /\ Len(hf.versions) <= WindowSize
  /\ \A v \in 1..MaxVersion :
       hf.last[v] = Cardinality({i \in DOMAIN hf.versions : hf.versions[i] = v})

\* Between operations, the window and the fork in force are those of a node that
\* saw only the blocks of the present chain, and the version recorded for a height is
\* that of the block at it: a switch, a rollback or a restart leaves no trace of the
\* blocks that are gone, although pops leave their records behind.  It is conditional on no switch
\* having connected a block while current_fork_index was that of popped blocks.
AtRestAsReplayed ==
  phase = "rest" /\ ~ahead =>
    /\ hf = Replayed(chain)
    /\ \A h \in 1..(Len(chain) - 1) : recorded[h] = chain[h + 1].version
=============================================================================

-------------------------------- MODULE Ledger --------------------------------
(***************************************************************************)
(* What the chain promises to whoever reads it between operations: it is   *)
(* one branch of the block tree, and it changes in one step, by a block    *)
(* that extends it or to another branch that has more work or ends in a    *)
(* checkpoint.  Only a crash may leave less, and what it leaves is a       *)
(* branch too.  Blockchain implements this with switches of many steps     *)
(* that may fail half-way.                                                 *)
(***************************************************************************)
EXTENDS Naturals, Sequences, Functions

CONSTANTS Block, Genesis, Path, Work, Checkpoints

VARIABLES
  ledger,   \* the blocks, lowest first
  crashes   \* how often the daemon has crashed

Tip == ledger[Len(ledger)]

\* A branch that leaves no checkpoint of the ledger behind
KeepsCheckpoints(b) ==
  \A c \in Checkpoints \cap Range(ledger) : c \in Range(Path[b])

Init == ledger = <<Genesis>> /\ crashes = 0

Extend(b) ==
  /\ Path[b] = Append(ledger, b)
  /\ ledger' = Path[b]
  /\ UNCHANGED crashes

Switch(b) ==
  /\ Work[b] > Work[Tip] \/ b \in Checkpoints
  /\ KeepsCheckpoints(b)
  /\ ledger' = Path[b]
  /\ UNCHANGED crashes

Crash(b) ==
  /\ KeepsCheckpoints(b)
  /\ ledger' = Path[b]
  /\ crashes' = crashes + 1

Next == \E b \in Block : Extend(b) \/ Switch(b) \/ Crash(b)

Spec == Init /\ [][Next]_<<ledger, crashes>>
=============================================================================

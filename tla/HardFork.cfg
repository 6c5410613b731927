CONSTANTS
  Forks <- MCForks
  Blocks <- MCBlocks
  Genesis <- MCGenesis
  WindowSize = 2
  OriginalVersion = 1
  MaxHeight = 6
  MaxPops = 3
  MaxRestarts = 1
SPECIFICATION Spec
INVARIANTS CountsMatchWindow AtRestAsReplayed

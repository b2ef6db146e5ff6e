SPECIFICATION FairSpec
CONSTANTS
  Programs <- MCPrograms
  MaxEpisodes = 2
  MaxCmds = 3
INVARIANTS TypeOK CommandsConserved QueueInOrder SingleWriter StopJoins
PROPERTIES NoSwapInTick MainReturns QueuedTakesEffect
CHECK_DEADLOCK FALSE

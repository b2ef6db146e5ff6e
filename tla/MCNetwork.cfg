SPECIFICATION Spec
CONSTANTS
  Names = {"A", "B"}
  Sizes <- MCSizes
  Weights <- MCWeights
  Draws <- MCDraws
  Thresholds = {2}
  Targets = {2}
  Projections <- MCProjections
  Flags = {TRUE}
  PreLists <- MCPreLists
  PostLists <- MCPostLists
  Windows = {10}
  MaxConnects = 1
  MaxWork = 2
  MaxStarts = 2
CHECK_DEADLOCK FALSE
INVARIANTS WellFormed LoadRestores SavedIsSound
PROPERTY ImplementsSynapses

SPECIFICATION Spec
CONSTANTS
  MaxItems = 2
  MaxIter = 1
  MaxSpikes = 1
  Programs <- MCScopedPrograms
CHECK_DEADLOCK FALSE
INVARIANT GuardsDefensive

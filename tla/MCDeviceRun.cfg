SPECIFICATION FairSpec
CONSTANTS
  NG = 2
  Prunes = {p}
  Scalings = {s}
  Programs = {"quiet"}
  MaxTicks = 2
  MaxFails = 1
PROPERTIES RunCompletes
CHECK_DEADLOCK FALSE

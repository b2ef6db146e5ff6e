SPECIFICATION FairSpec
CONSTANTS
  NG = 2
  Prunes = {p}
  Scalings = {s}
  Programs = {"quiet", "stop", "command"}
  MaxTicks = 2
  MaxFails = 1
INVARIANTS TypeOK HostOwnsAtRest LogComplete OneOwner CommandsOnce
PROPERTIES Progress
CHECK_DEADLOCK FALSE

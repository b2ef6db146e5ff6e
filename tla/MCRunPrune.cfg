SPECIFICATION Spec
CONSTANTS
  Sizes <- MCSizes
  Nets <- MCNets
  Injects <- MCInjects
  Durations = {0, 3}
  Dts = {2}
  Devices = {"cpu", "gpu"}
  Threshold = 2
  Rest = 0
  Reset <- MCReset
  LrPot = 1
  LrDep = 1
  WeightBound = 3
  Clamped = {2}
  Winners = 1
  Kick = 5
  Signals = {0, 2}
  Cutoff = 2
  LogCap = 3
  MaxRuns = 2
  MaxInjects = 2
  MaxFaults = 1
  Pruning = TRUE
CHECK_DEADLOCK FALSE
PROPERTY RunReturns

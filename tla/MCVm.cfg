SPECIFICATION Spec
CONSTANTS
  MaxItems = 2
  MaxIter = 2
  MaxSpikes = 2
  Programs <- MCPrograms
CHECK_DEADLOCK FALSE
INVARIANTS TypeOK GuardsSilent OneTimeBase LoopNeverWaits GlobalScopeOnly NativeCompiles KindsMatchSlots

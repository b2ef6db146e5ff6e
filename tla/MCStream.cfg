SPECIFICATION FairSpec
CONSTANTS
  Cap = 2
  Elems = {1, 2}
  MaxPush = 6
  MaxSet = 2
INVARIANTS TypeOK Counters SlotExclusion
PROPERTIES ImplementsRegister AcceptedIsDrained
CHECK_DEADLOCK FALSE

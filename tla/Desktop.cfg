SPECIFICATION LiveSpec
CONSTANTS
  p1 = p1
  p2 = p2
  Procs = {p1, p2}
  NoProc = NoProc
  Last = 2
  Required = {1}
  MaxVersion = 2
  MaxFaults = 3
INVARIANT IInv Findable HandedOver OldVersionThere
PROPERTY AllOrNothing UpdateEnds KeepsServing
CHECK_DEADLOCK FALSE

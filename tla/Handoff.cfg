SPECIFICATION LiveSpec
CONSTANTS
  a1 = a1
  c1 = c1
  Appends = {a1}
  Compacts = {c1}
  Hooks = {h}
  Other = o
  Texts = {a1, c1, o}
  NoText = NoText
  Keys = {a1}
  NoKey = NoKey
  MaxMemoryVersions = 2
  MaxMemoryBytes = 2
  MaxVersion = 2
  MaxFailures = 1
INVARIANTS IInv Accounted NothingLost WrittenOnce
PROPERTIES SectionsArrive PurgedStaysGone ImplementsHistory
CHECK_DEADLOCK FALSE

SPECIFICATION LiveSpec
CONSTANTS
  ann = ann
  bob = bob
  a1 = a1
  a2 = a2
  b1 = b1
  Issues = {1, 2}
  Epics = {}
  Refused = {}
  Parent <- Under
  Blockers <- Free
  Users = {ann, bob}
  Nobody = Nobody
  Sessions = {a1, b1}
  NoSession = NoSession
  UserOf <- Pair
  KindOf <- OneKind
  Silent = Silent
  Starts <- FirstTodo
  Targets = {"Todo"}
  Calls = {"status", "assign", "update", "comment", "member", "archive"}
  MaxCalls = 1
  MaxEdited <- OnlyFirst
INVARIANTS IInv OneUserAtWork
PROPERTY NoLostEdit
PROPERTY EverythingDone

SPECIFICATION Spec
CONSTANTS
  ann = ann
  bob = bob
  a1 = a1
  a2 = a2
  b1 = b1
  Issues = {1}
  Epics = {}
  Refused = {}
  Parent <- Alone
  Blockers <- Free
  Users = {ann, bob}
  Nobody = Nobody
  Sessions = {a1, b1}
  NoSession = NoSession
  UserOf <- Pair
  KindOf <- OneKind
  Silent = Silent
  Starts <- FirstTodo
  Targets = {}
  Calls = {"assign", "member"}
  MaxCalls = 2
  MaxEdited <- OnlyFirst
PROPERTY AssigneesAreMembers

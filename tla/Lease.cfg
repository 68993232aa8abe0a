SPECIFICATION LiveSpec
CONSTANTS
  p1 = p1
  p2 = p2
  s1 = s1
  Procs = {p1, p2}
  Sessions = {s1}
  NoSession = NoSession
  SessionOf <- Paired
  Keyed = {p2}
  Tokens = {t1, t2, t3}
  NoToken = NoToken
  TTLs = {1}
  Omitted = 0
  Default = 2
  MaxPending = 1
  Keeper = p2
INVARIANT IInv Exclusive
PROPERTY KeeperGetsIt

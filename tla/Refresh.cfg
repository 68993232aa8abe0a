SPECIFICATION LiveSpec
CONSTANTS
  p1 = p1
  p2 = p2
  l1 = l1
  Callers = {p1, p2}
  Logins = {l1}
  NoOne = NoOne
  MaxPairs = 2
  MaxClients = 2
  MaxFailures = 1
INVARIANT IInv OneInForce StaysLoggedIn
PROPERTY UserIsTold ImplementsFamilies

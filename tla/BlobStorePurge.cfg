SPECIFICATION WellSpec
CONSTANTS
  Servers = {s1, s2}
  Repairs = {}
  Names = {n1, n2}
  NoName = NoName
  Refs = {r1}
  Kind = "attachment"
  Grace = 1
  Window = 0
INVARIANT PurgeRemovesBody

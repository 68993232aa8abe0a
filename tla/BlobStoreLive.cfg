SPECIFICATION LiveSpec
CONSTANTS
  Servers = {s1}
  Repairs = {a1}
  Names = {n1, n2}
  NoName = NoName
  Refs = {r1, r2}
  Kind = "transcript"
  Grace = 1
  Window = 0
PROPERTIES LiveBodyReturns OrphanGoes

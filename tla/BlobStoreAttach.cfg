SPECIFICATION Spec
CONSTANTS
  Servers = {s1, s2}
  Repairs = {a1}
  Names = {n1, n2, n3}
  NoName = NoName
  Refs = {r1}
  Kind = "attachment"
  Grace = 1
  Window = 0
SYMMETRY Symmetry
INVARIANT NoLostBody IInv
PROPERTY ImplementsRefs

CONSTANTS
  Client = {c1, c2, c3}
  Name = {n1, n2, n3}
  Match = {m1, m2, m3}
  Null = Null
SPECIFICATION WaitingSpec
SYMMETRY Symmetry
INVARIANT NoOrphan

CONSTANTS
  Client = {c1, c2}
  Name = {n1, n2}
  Match = {m1, m2}
  Null = Null
  MaxRequests = 1
  MaxQueue = 1
SPECIFICATION Spec
SYMMETRY Symmetry
INVARIANT WhoShowsPlayers

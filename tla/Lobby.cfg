CONSTANTS
  Client = {c1, c2, c3}
  Name = {n1, n2, n3}
  Match = {m1, m2}
  Null = Null
  MaxRequests = 2
  MaxQueue = 2
SPECIFICATION Spec
ACTION_CONSTRAINT CalmUntilExit
SYMMETRY Symmetry
INVARIANTS
  TypeOK
  NothingInvalid
  GamesAgree
  SomethingComes
PROPERTY ConsentWhenCalm

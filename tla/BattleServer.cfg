\* Three clients: the smallest number with which two requests can overlap.  Two
\* clients hold one match; the second object serves the overlaps.
CONSTANTS
  Client = {c1, c2, c3}
  Name = {n1, n2, n3}
  Match = {m1, m2}
  Null = Null
SPECIFICATION FairSpec
INVARIANTS
  TypeOK
  OwnMatch
  MatchIntegrity
  LoginTable
  LoggedCountExact
  WhoSymmetric
PROPERTIES
  
  KeepsBook
  RequestResolved

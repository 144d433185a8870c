\* An empty body, one of a piece, one as long as the header and more.
CONSTANTS
  Length = {0, 1, 3}
  MaxMessages = 3
SPECIFICATION Spec
INVARIANT NeverBlocks
PROPERTY Carries

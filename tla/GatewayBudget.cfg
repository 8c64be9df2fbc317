CONSTANTS
  c1 = c1
  c2 = c2
  c3 = c3
  None = None
  Callers = {c1, c2, c3}
  NumProviders = 3
  MaxCost = 2
  Limit = 3
SYMMETRY Symmetry
SPECIFICATION Spec
INVARIANTS
  TypeOK
  OverrunBounded
  FallbackIsHonest
PROPERTIES
  MessageIsComplete

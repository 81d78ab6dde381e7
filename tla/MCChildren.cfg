\* Two parents, a session of each, two requests in flight, two children.
SPECIFICATION Spec
CONSTANTS
  SessionIds = {s1, s2}
  UserIds = {u1, u2}
  Requests = {r1, r2}
  None = None
  tim = tim
  RawNames <- MCRawNames
  Names = {tim}
  validateName <- MCValidateName
  Dates = {0, 1}
  MaxChild = 2
  MaxTime = 1
SYMMETRY Symmetry
INVARIANT TypeOK
INVARIANT SeenByParentOnly
INVARIANT BirthDateNotFuture
PROPERTY OwnParentOnly
PROPERTY DeletedForGood

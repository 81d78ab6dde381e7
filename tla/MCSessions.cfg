\* Two sessions of two users, two requests in flight.
SPECIFICATION Spec
CONSTANTS
  SessionIds = {s1, s2}
  UserIds = {u1, u2}
  Requests = {r1, r2}
  None = None
  sessionTTL = 1
  MaxTime = 2
SYMMETRY Symmetry
INVARIANT TypeOK
INVARIANT NoAccessAfterRevocation
INVARIANT ExpiryBounded
PROPERTY GateSpec
PROPERTY ExpiredStaysExpired

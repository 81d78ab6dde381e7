\* One session, two calls in flight, with the clock; no symmetry, for liveness.
SPECIFICATION FairSpec
CONSTANTS
  SessionIds = {s1}
  Emails = {ann}
  Requests = {r1, r2}
  None = None
  sessionTTL = 0
  MaxTime = 1
PROPERTY LoadingEnds
PROPERTY SubmittingEnds

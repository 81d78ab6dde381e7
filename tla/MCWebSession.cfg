\* Two users, two sessions, two calls in flight, the clock standing still.
SPECIFICATION Spec
CONSTANTS
  SessionIds = {s1, s2}
  Emails = {ann, bob}
  Requests = {r1, r2}
  None = None
  sessionTTL = 1
  MaxTime = 0
SYMMETRY Symmetry
INVARIANT TypeOK
INVARIANT LoadingAsks
INVARIANT OneSubmission
INVARIANT ClaimEarned
INVARIANT PageNamesCookie

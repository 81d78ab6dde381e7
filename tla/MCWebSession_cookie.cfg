\* One user on one device, over two days of a one-day TTL: ActiveStaysIn does not hold.
SPECIFICATION Spec
CONSTANTS
  SessionIds = {s1}
  Emails = {ann}
  Requests = {r1}
  None = None
  sessionTTL = 1
  MaxTime = 2
INVARIANT ActiveStaysIn

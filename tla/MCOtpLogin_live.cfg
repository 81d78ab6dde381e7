\* Two requests in flight for one email, either of which may hang at the relay.
SPECIFICATION FairSpec
CONSTANTS
  ann = ann
  bob = bob
  None = None
  Addresses <- OneAddress
  normalizeEmail <- OneNormalizeEmail
  Emails = {ann}
  Codes = {c1, c2}
  UserIds = {u1}
  Requests = {r1, r2}
  otpCodeTTL = 0
  otpMaxAttempts = 1
  otpResendCooldown = 1
  MaxOtp = 2
  MaxTime = 1
PROPERTY EveryRequestAnswered

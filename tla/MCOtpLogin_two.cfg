\* Two requests in flight, for the same or for different emails.
SPECIFICATION Spec
CONSTANTS
  ann = ann
  bob = bob
  None = None
  Addresses <- MCAddresses
  normalizeEmail <- MCNormalizeEmail
  Emails = {ann, bob}
  Codes = {c1, c2}
  UserIds = {u1, u2}
  Requests = {r1, r2}
  otpCodeTTL = 0
  otpMaxAttempts = 2
  otpResendCooldown = 1
  MaxOtp = 2
  MaxTime = 1
SYMMETRY Symmetry
INVARIANT TypeOK
INVARIANT SessionsEarned
PROPERTY DeadStaysDead
PROPERTY GateSpec

\* Two requests in flight for one email: SingleUse does not survive them.
SPECIFICATION Spec
CONSTANTS
  ann = ann
  bob = bob
  None = None
  Addresses <- OneAddress
  normalizeEmail <- OneNormalizeEmail
  Emails = {ann}
  Codes = {c1, c2}
  UserIds = {u1}
  Requests = {r1, r2}
  otpCodeTTL = 2
  otpMaxAttempts = 2
  otpResendCooldown = 2
  MaxOtp = 2
  MaxTime = 4
SYMMETRY Symmetry
INVARIANT SingleUse

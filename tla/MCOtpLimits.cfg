\* One email, room for three codes; its two handlers may overlap, or never do.
SPECIFICATION LimitsSpec
CONSTANTS
  ann = ann
  bob = bob
  None = None
  Addresses <- OneAddress
  normalizeEmail <- OneNormalizeEmail
  Emails = {ann}
  Codes = {c1, c2}
  UserIds = {u1}
  Requests = {r1, r2}
  otpCodeTTL = 0
  otpMaxAttempts = 1
  otpResendCooldown = 1
  MaxOtp = 3
  MaxTime = 1
SYMMETRY Symmetry
INVARIANT AttemptsBounded
INVARIANT CooldownBounded
INVARIANT LoginsBounded
PROPERTY LoneCleanupUndoesOwnInsert

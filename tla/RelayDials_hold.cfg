SPECIFICATION Spec
CONSTANTS
  Pool = {"p", "q", "r"}
  Nobody = Nobody
  Readers = {}
  Resend = 1
  Lease = 3
  BackoffMax = 2
  HoldStart = 1
  HoldMax = 2
PROPERTY HeldIsQuiet

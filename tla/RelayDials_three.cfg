SPECIFICATION FairSpec
CONSTANTS
  Pool = {"p", "q", "r"}
  Nobody = Nobody
  Readers = {"p"}
  Resend = 1
  Lease = 2
  BackoffMax = 2
  HoldStart = 1
  HoldMax = 1
INVARIANT OneDial LeaseIsUsed
PROPERTY NotStuck ReaderComesBack

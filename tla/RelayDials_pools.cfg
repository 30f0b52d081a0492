SPECIFICATION FairSpec
CONSTANTS
  Pool = {"p", "q"}
  Nobody = Nobody
  Readers = {"p"}
  Resend = 1
  Lease = 3
  BackoffMax = 4
  HoldStart = 1
  HoldMax = 2
INVARIANT OneDial LeaseIsUsed
PROPERTY NotStuck ReaderComesBack

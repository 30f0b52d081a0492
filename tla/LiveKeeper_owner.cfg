SPECIFICATION Spec
CONSTANTS
  r1 = r1
  r2 = r2
  s1 = s1
  s2 = s2
  Request = {r1, r2}
  Secret = {s1, s2}
  Expires <- MCExpires
  Life = 2
  Window = 2
  Budget = 3
  MaxOffers = 2
  MaxEpoch = 2
  MaxTime = 3
  MaxSlips = 1
  MaxFailures = 1
INVARIANT TypeOK AnsweredOnce BudgetKept DoneIsHanded
SYMMETRY Alike
PROPERTY ImplementsAuthority

SPECIFICATION FairSpec
CONSTANTS
  s1 = s1
  s2 = s2
  t1 = t1
  t2 = t2
  ghost = ghost
  h1 = h1
  h2 = h2
  Students = {s1, s2}
  Tutors = {t1}
  KnownTutors = {t1}
  Handlers = {h1, h2}
  Accumulators <- MCAccumulators
  NoRecord = NoRecord
  Nobody = Nobody
  MaxCredits = 0
  MaxPurchases = 0
  MaxDisputes = 0
  MaxIntents = 1
  MaxFaults = 0
  MaxCrashes = 1
INVARIANT StripeSaleIsPaid
PROPERTY PaidIsSold
CHECK_DEADLOCK FALSE

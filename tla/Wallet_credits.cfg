SPECIFICATION Spec
CONSTANTS
  s1 = s1
  s2 = s2
  t1 = t1
  t2 = t2
  ghost = ghost
  h1 = h1
  h2 = h2
  Students = {s1}
  Tutors = {t1, ghost}
  KnownTutors = {t1}
  Handlers = {h1, h2}
  Accumulators <- MCAccumulators
  NoRecord = NoRecord
  Nobody = Nobody
  MaxCredits = 1
  MaxPurchases = 2
  MaxDisputes = 1
  MaxIntents = 0
  MaxFaults = 1
  MaxCrashes = 1
SYMMETRY Symmetry
INVARIANTS TypeOK CreditsCoverPurchases
PROPERTIES WalletMadeOnce NoSecondPurchase AtomicLedger
CHECK_DEADLOCK FALSE

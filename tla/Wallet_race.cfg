SPECIFICATION Spec
CONSTANTS
  s1 = s1
  s2 = s2
  t1 = t1
  t2 = t2
  ghost = ghost
  h1 = h1
  h2 = h2
  Students = {s1}
  Tutors = {t1}
  KnownTutors = {t1}
  Handlers = {h1, h2}
  Accumulators <- MCAccumulators
  NoRecord = NoRecord
  Nobody = Nobody
  MaxCredits = 1
  MaxPurchases = 2
  MaxDisputes = 0
  MaxIntents = 0
  MaxFaults = 0
  MaxCrashes = 0
SYMMETRY Symmetry
PROPERTY OnePurchasePerTutor
CHECK_DEADLOCK FALSE

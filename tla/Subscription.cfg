SPECIFICATION FairSpec
CONSTANTS
  Tutors = {t1, t2}
  Handlers = {h1, h2}
  NoRecord = NoRecord
  Nobody = Nobody
  MaxCustomers = 2
  MaxSubs = 2
  MaxRequests = 3
  MaxChanges = 2
  MaxFaults = 1
INVARIANTS TypeOK ActiveWasPaid RecordFollows
PROPERTIES EventuallyAgrees
CHECK_DEADLOCK FALSE

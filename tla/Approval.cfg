SPECIFICATION DirectorySpec
CONSTANTS
  Docs = {license, passport}
  Names = {first, last}
  Bodies <- MCBodies
  Decisions = {"APPROVED", "REJECTED"}
  Emails = {e1, e2}
  Handlers = {h1, h2}
  Nobody = Nobody
  MaxUploads = 2
  MaxReferees = 2
  MaxRequests = 4
  MaxFaults = 1
  t1 = t1
  t2 = t2
  Tutors = {t1, t2}
  TheTutor = t1
  Subjects = {maths}
  Levels = {primary}
  MaxOffers = 1
SYMMETRY Interchangeable
INVARIANTS DirectoryTypeOK SubmittedStands NothingOwed DirectoryAgrees
PROPERTY ApprovedStands
CHECK_DEADLOCK FALSE

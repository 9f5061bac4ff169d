SPECIFICATION FairSpec
CONSTANTS
  s1 = s1
  t1 = t1
  k1 = k1
  h1 = h1
  h2 = h2
  Students = {s1}
  Tutors = {t1}
  Sockets = {k1}
  Owner <- OneTab
  Handlers = {h1, h2}
  TableId <- Same
  Nobody = Nobody
  MaxMessages = 2
  MaxApprovals = 1
  MaxChanges = 0
  MaxFaults = 0
INVARIANT ChatHasConversation
PROPERTY MessageArrives

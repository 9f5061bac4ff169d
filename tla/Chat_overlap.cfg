SPECIFICATION Spec
CONSTANTS
  s1 = s1
  t1 = t1
  k1 = k1
  h1 = h1
  h2 = h2
  Students = {s1}
  Tutors = {t1}
  Sockets = {k1}
  Owner <- OneTab
  Handlers = {h1, h2}
  TableId <- Same
  Nobody = Nobody
  MaxMessages = 2
  MaxApprovals = 0
  MaxChanges = 1
  MaxFaults = 1
SYMMETRY Symmetry
INVARIANTS TypeOK NoMissedMessage ContactGate ChatHasConversation ReminderKept SeenShown ReplySettles

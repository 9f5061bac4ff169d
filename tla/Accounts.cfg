SPECIFICATION Spec
CONSTANTS
  NoAddress = NoAddress
  a1 = a1
  a2 = a2
  h1 = h1
  h2 = h2
  p1 = p1
  Addresses = {a1, a2}
  Handlers = {h1, h2}
  Posters = {p1}
  MaxUsers = 2
  MaxTokens = 3
  MaxSuffixes = 1
  MaxRequests = 4
  MaxFaults = 1
  MaxNotices = 1
SYMMETRY Symmetric
INVARIANTS TypeOK AnsweredWhole LinkWorks NoticesAgree
PROPERTY DeletedLeftAlone
CHECK_DEADLOCK FALSE

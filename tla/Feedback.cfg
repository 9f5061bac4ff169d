SPECIFICATION FairSpec
CONSTANTS
  Tutors <- OneTutor
  Students <- TwoStudents
  TutorRow <- TutorRows
  StudentRow <- StudentRows
  Handlers = {h1, h2}
  MaxFeedbacks = 2
  MaxRequests = 4
  MaxFaults = 1
INVARIANTS TypeOK MailsReachParty PagesShowParty FeedbackStopsJob
PROPERTY ReplyStands
CHECK_DEADLOCK FALSE

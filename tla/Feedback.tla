-------------------------------- MODULE Feedback --------------------------------
(***************************************************************************)
(* Feedback of students about tutors: it is given, asked for, answered,    *)
(* approved or rejected, and a weekly job mails the student who owes it.   *)
(*                                                                         *)
(* Tables User, Tutor and Student number their rows on their own.  A row   *)
(* of Feedback holds ids of tables Tutor and Student, while requests and   *)
(* jobs hold ids of table User, and the code compares the ones with the    *)
(* others.  Ratings and the text of comments are left out, a name is that  *)
(* of its user; the jobs live in memory and are lost when the process      *)
(* stops.                                                                  *)
(***************************************************************************)
EXTENDS Integers, Sequences

CONSTANTS
  Tutors, Students,      \* ids of table User, by role
  TutorRow, StudentRow,  \* id of the user's row in table Tutor or Student
  Handlers,              \* slots for the requests and jobs in flight
  MaxFeedbacks,          \* bound on rows of table Feedback
  MaxRequests,           \* bound on requests and runs of jobs
  MaxFaults              \* bound on rejected calls and restarts

ASSUME FeedbackAssumption ==
  /\ Tutors \subseteq Nat /\ Students \subseteq Nat /\ Tutors \cap Students = {}
  /\ 0 \notin Tutors \cup Students
  /\ TutorRow \in [Tutors -> Nat] /\ StudentRow \in [Students -> Nat]
  /\ \A a, b \in Tutors : TutorRow[a] = TutorRow[b] => a = b
  /\ \A a, b \in Students : StudentRow[a] = StudentRow[b] => a = b
  /\ {MaxFeedbacks, MaxRequests, MaxFaults} \subseteq Nat

VARIABLES
  records,    \* the users who have a row in table Subscription
  feedbacks,  \* table Feedback, by id
  jobs,       \* the weekly jobs: by the user ids of tutor and student
  mails,      \* mails sent
  request,    \* local state of the request or job in each slot
  authors,    \* history: the users each feedback is of
  late,       \* history: pairs whose job, since it was last stopped, was
              \* started when their feedback was there or on its way
  doubled,    \* history: feedbacks with two replies under way at a time
  broken,     \* history: feedbacks of which a request was cut short
  requests, faults

bounds == <<requests, faults>>
history == <<authors, late, doubled, broken>>
vars == <<records, feedbacks, jobs, mails, request, history, bounds>>

Users == Tutors \cup Students
Pairs == Tutors \X Students
Statuses == {"PENDING", "APPROVED", "REJECTED"}
Replies == {"empty", "first", "second"}  \* "empty" is the text '', which a new row has
Row == [tutorId : Nat, studentId : Nat, reply : Replies, status : Statuses]

\* Mails about feedback id, or about a feedback that is asked for: the address, and whose
\* names the template puts where it means the tutor's and the student's.
Mail == [kind : {"review", "reply", "rejected"}, to : Users, id : Nat, tutor : Users, student : Users]
        \cup [kind : {"asked", "owed"}, to : Users, tutor : Users, student : Users]

Ops == {"create", "ask", "reply", "judge", "weekly"}
Request == [pc : {"idle", "gate", "insert", "look", "find", "write", "tell"},
            op : Ops, pair : Pairs \cup {<<0, 0>>}, id : Nat,
            reply : Replies, status : Statuses]

Idle == [pc |-> "idle", op |-> "create", pair |-> <<0, 0>>, id |-> 0,
         reply |-> "empty", status |-> "PENDING"]

Init ==
  /\ records = {}
  /\ feedbacks = <<>> /\ jobs = {} /\ mails = {}
  /\ request = [h \in Handlers |-> Idle]
  /\ authors = <<>> /\ late = {} /\ doubled = {} /\ broken = {}
  /\ requests = 0 /\ faults = 0

-----------------------------------------------------------------------------
(* Helpers                                                                 *)

At(h, op, pc) == request[h].op = op /\ request[h].pc = pc
Set(h, r) == request' = [request EXCEPT ![h] = r]
Goto(h, pc) == Set(h, [request[h] EXCEPT !.pc = pc])
Settle(h) == Set(h, Idle)

\* The user of a row, looked up by the row's id.
TutorOf(id) == {t \in Tutors : TutorRow[t] = id}
StudentOf(id) == {s \in Students : StudentRow[s] = id}

\* Feedback found by ids of table User.
FoundByUsers(pair) ==
  {i \in DOMAIN feedbacks : feedbacks[i].tutorId = pair[1] /\ feedbacks[i].studentId = pair[2]}

\* "Bought a subscription": one of the two has a record, whatever its status.
HasSubscription(pair) == pair[1] \in records \/ pair[2] \in records

\* What a page shows: the feedback with its tutor and student looked up.
Joined(i) ==
  [id |-> i, tutor |-> TutorOf(feedbacks[i].tutorId), student |-> StudentOf(feedbacks[i].studentId)]

FindAllForAdmin(status) == {Joined(i) : i \in {j \in DOMAIN feedbacks : feedbacks[j].status = status}}

\* Mutant: the student's page looks for the id of the user.
FindAllByUser(u) ==
  {Joined(i) : i \in {j \in DOMAIN feedbacks :
     /\ feedbacks[j].status = "APPROVED"
     /\ IF u \in Tutors THEN feedbacks[j].tutorId = TutorRow[u] ELSE feedbacks[j].studentId = u}}

\* The approved feedback on the page of a tutor or a student.
FindAll(u) ==
  {Joined(i) : i \in {j \in DOMAIN feedbacks :
     /\ feedbacks[j].status = "APPROVED"
     /\ IF u \in Tutors THEN feedbacks[j].tutorId = TutorRow[u]
        ELSE feedbacks[j].studentId = StudentRow[u]}}

Letter(kind, to, pair) == [kind |-> kind, to |-> to, tutor |-> pair[1], student |-> pair[2]]
About(kind, to, id, pair) ==
  [kind |-> kind, to |-> to, id |-> id, tutor |-> pair[1], student |-> pair[2]]

AskedMail(pair) == Letter("asked", pair[2], pair)
OwedMail(pair) == Letter("owed", pair[2], pair)

\* create hands the template the two names in the wrong order.
ReviewMails(pair, id) == {About("review", pair[1], id, <<pair[2], pair[1]>>)}

\* The other mails name the users looked up by the ids in the row.
PartiesOf(id) == TutorOf(feedbacks[id].tutorId) \X StudentOf(feedbacks[id].studentId)
ReplyMails(id) == {About("reply", p[2], id, p) : p \in PartiesOf(id)}
RejectedMails(id) == {About("rejected", p[2], id, p) : p \in PartiesOf(id)}

-----------------------------------------------------------------------------
(* Requests                                                                *)

Begin(h, r) ==
  /\ request[h].pc = "idle"
  /\ requests < MaxRequests
  /\ requests' = requests + 1
  /\ Set(h, r)
  /\ UNCHANGED <<records, feedbacks, jobs, mails, history, faults>>

Create(h, pair) == Begin(h, [Idle EXCEPT !.op = "create", !.pc = "gate", !.pair = pair])
RequestFeedback(h, pair) == Begin(h, [Idle EXCEPT !.op = "ask", !.pc = "gate", !.pair = pair])
ReplyFromTutor(h, id, text) ==
  Begin(h, [Idle EXCEPT !.op = "reply", !.pc = "find", !.id = id, !.reply = text])
UpdateApprovalStatus(h, id, status) ==
  Begin(h, [Idle EXCEPT !.op = "judge", !.pc = "find", !.id = id, !.status = status])
WeeklyRun(h, pair) ==
  pair \in jobs /\ Begin(h, [Idle EXCEPT !.op = "weekly", !.pc = "look", !.pair = pair])

\* A user gets a subscription record: no guard keeps a student from asking for one.
RecordMade(u) ==
  /\ records' = records \cup {u} /\ u \notin records
  /\ UNCHANGED <<feedbacks, jobs, mails, request, history, bounds>>

Stop(job) == jobs' = jobs \ {job} /\ late' = late \ {job}

\* Mutant: the job is stopped by the row's id.
GateStopsRow(h) ==
  LET r == request[h]
  IN /\ r.pc = "gate"
     /\ IF ~HasSubscription(r.pair) THEN Settle(h) /\ UNCHANGED <<jobs, late>>
        ELSE IF r.op = "create"
             THEN Goto(h, "insert") /\ Stop(<<TutorRow[r.pair[1]], StudentRow[r.pair[2]]>>)
        ELSE Goto(h, "look") /\ UNCHANGED <<jobs, late>>
     /\ UNCHANGED <<records, feedbacks, mails, authors, doubled, broken, bounds>>

\* create and requestFeedback: the gate, after which create stops the job.
Gate(h) ==
  LET r == request[h]
  IN /\ r.pc = "gate"
     /\ IF ~HasSubscription(r.pair) THEN Settle(h) /\ UNCHANGED <<jobs, late>>
        ELSE IF r.op = "create" THEN Goto(h, "insert") /\ Stop(r.pair)
        ELSE Goto(h, "look") /\ UNCHANGED <<jobs, late>>
     /\ UNCHANGED <<records, feedbacks, mails, authors, doubled, broken, bounds>>

\* Mutant: the row starts as the approval columns of table Tutor do.
NewRowNotAdded(pair) ==
  [tutorId |-> TutorRow[pair[1]], studentId |-> StudentRow[pair[2]],
   reply |-> "empty", status |-> "NOT_ADDED"]

\* Mutant: the row names the student by the id of the user.
NewRowOfUser(pair) ==
  [tutorId |-> TutorRow[pair[1]], studentId |-> pair[2], reply |-> "empty", status |-> "PENDING"]

NewRow(pair) ==
  [tutorId |-> TutorRow[pair[1]], studentId |-> StudentRow[pair[2]],
   reply |-> "empty", status |-> "PENDING"]

InsertFeedback(h) ==
  LET pair == request[h].pair
  IN /\ At(h, "create", "insert")
     /\ Len(feedbacks) < MaxFeedbacks
     /\ feedbacks' = Append(feedbacks, NewRow(pair))
     /\ authors' = Append(authors, pair)
     /\ mails' = mails \cup ReviewMails(pair, Len(feedbacks) + 1)
     /\ Settle(h)
     /\ UNCHANGED <<records, jobs, late, doubled, broken, bounds>>

Given(pair) == \E i \in DOMAIN authors : authors[i] = pair
Coming(pair) == \E h \in Handlers : At(h, "create", "insert") /\ request[h].pair = pair

\* A job that runs already goes on.
LookAndAsk(h) ==
  LET pair == request[h].pair
  IN /\ At(h, "ask", "look")
     /\ IF FoundByUsers(pair) = {}
        THEN /\ jobs' = jobs \cup {pair}
             /\ mails' = mails \cup {AskedMail(pair)}
             /\ late' = IF Given(pair) \/ Coming(pair) THEN late \cup {pair} ELSE late
        ELSE UNCHANGED <<jobs, mails, late>>
     /\ Settle(h)
     /\ UNCHANGED <<records, feedbacks, authors, doubled, broken, bounds>>

\* The replies under way beside the request r.
Writing(r) ==
  {g \in Handlers : r.op = "reply" /\ At(g, "reply", "write") /\ request[g].id = r.id}

\* Mutant: the reply that is there is not looked at.
FindFeedbackUnchecked(h) ==
  LET r == request[h]
  IN /\ r.pc = "find"
     /\ IF r.id \notin DOMAIN feedbacks
        THEN Settle(h) /\ UNCHANGED doubled
        ELSE /\ Goto(h, "write")
             /\ doubled' = doubled \cup {request[g].id : g \in Writing(r)}
     /\ UNCHANGED <<records, feedbacks, jobs, mails, authors, late, broken, bounds>>

\* A reply that was stored empty counts as none.
FindFeedback(h) ==
  LET r == request[h]
  IN /\ r.pc = "find"
     /\ IF r.id \notin DOMAIN feedbacks \/ (r.op = "reply" /\ feedbacks[r.id].reply # "empty")
        THEN Settle(h) /\ UNCHANGED doubled
        ELSE /\ Goto(h, "write")
             /\ doubled' = doubled \cup {request[g].id : g \in Writing(r)}
     /\ UNCHANGED <<records, feedbacks, jobs, mails, authors, late, broken, bounds>>

\* Then replyFromTutor looks up student and tutor.
WriteReply(h) ==
  LET r == request[h]
  IN /\ At(h, "reply", "write")
     /\ feedbacks' = [feedbacks EXCEPT ![r.id].reply = r.reply]
     /\ Goto(h, "tell")
     /\ UNCHANGED <<records, jobs, mails, history, bounds>>

TellReply(h) ==
  /\ At(h, "reply", "tell")
  /\ mails' = mails \cup ReplyMails(request[h].id)
  /\ Settle(h)
  /\ UNCHANGED <<records, feedbacks, jobs, history, bounds>>

WriteStatus(h) ==
  LET r == request[h]
  IN /\ At(h, "judge", "write")
     /\ feedbacks' = [feedbacks EXCEPT ![r.id].status = r.status]
     /\ mails' = IF r.status = "REJECTED" THEN mails \cup RejectedMails(r.id) ELSE mails
     /\ Settle(h)
     /\ UNCHANGED <<records, jobs, history, bounds>>

\* sendEmailToStudentWhenStudentNotGiveFeedback, when the job runs.
LookAndRemind(h) ==
  LET pair == request[h].pair
  IN /\ At(h, "weekly", "look")
     /\ mails' = IF FoundByUsers(pair) = {} THEN mails \cup {OwedMail(pair)} ELSE mails
     /\ Settle(h)
     /\ UNCHANGED <<records, feedbacks, jobs, history, bounds>>

Fault == faults < MaxFaults /\ faults' = faults + 1

CallFails(h) ==
  /\ request[h].pc # "idle"
  /\ Fault
  /\ broken' = broken \cup {request[h].id}
  /\ Settle(h)
  /\ UNCHANGED <<records, feedbacks, jobs, mails, authors, late, doubled, requests>>

Restart ==
  /\ Fault
  /\ broken' = broken \cup {request[h].id : h \in Handlers}
  /\ request' = [h \in Handlers |-> Idle]
  /\ jobs' = {} /\ late' = {}
  /\ UNCHANGED <<records, feedbacks, mails, authors, doubled, requests>>

-----------------------------------------------------------------------------
Continue(h) ==
  \/ Gate(h) \/ InsertFeedback(h) \/ LookAndAsk(h) \/ FindFeedback(h)
  \/ WriteReply(h) \/ TellReply(h) \/ WriteStatus(h) \/ LookAndRemind(h)

Ids == DOMAIN feedbacks \cup {MaxFeedbacks + 1}

Next ==
  \/ \E h \in Handlers, pair \in Pairs :
       Create(h, pair) \/ RequestFeedback(h, pair) \/ WeeklyRun(h, pair)
  \/ \E h \in Handlers, id \in Ids, text \in Replies : ReplyFromTutor(h, id, text)
  \/ \E h \in Handlers, id \in Ids, status \in Statuses : UpdateApprovalStatus(h, id, status)
  \/ \E h \in Handlers : Continue(h) \/ CallFails(h)
  \/ \E u \in Users : RecordMade(u)
  \/ Restart

Spec == Init /\ [][Next]_vars

\* Calls settle, one way or the other.
FairSpec == Spec /\ \A h \in Handlers : WF_vars(Continue(h))

-----------------------------------------------------------------------------
(* Properties                                                              *)

TypeOK ==
  /\ records \subseteq Users
  /\ feedbacks \in Seq(Row) /\ authors \in Seq(Pairs) /\ Len(authors) = Len(feedbacks)
  /\ jobs \subseteq Pairs /\ late \subseteq Pairs /\ mails \subseteq Mail
  /\ request \in [Handlers -> Request]
  /\ requests \in 0..MaxRequests /\ faults \in 0..MaxFaults

\* Though ids of three tables are about, every mail on a feedback reaches the tutor it is
\* of or the student who gave it, and one on its reply or its rejection names these two
\* each in its place.  (The mail on the review itself does not: see ReviewMails.)
MailsReachParty ==
  \A m \in mails : m.kind \in {"review", "reply", "rejected"} =>
    /\ m.to = IF m.kind = "review" THEN authors[m.id][1] ELSE authors[m.id][2]
    /\ m.kind # "review" => <<m.tutor, m.student>> = authors[m.id]

\* An approved feedback is on the pages of the two users it is of, on no other
\* page, and every page and the admin's list name these two.
PagesShowParty ==
  \A i \in DOMAIN feedbacks :
    LET shown == [id |-> i, tutor |-> {authors[i][1]}, student |-> {authors[i][2]}]
    IN /\ shown \in FindAllForAdmin(feedbacks[i].status)
       /\ \A u \in Users :
            (\E r \in FindAll(u) : r.id = i) <=>
              feedbacks[i].status = "APPROVED" /\ u \in {authors[i][1], authors[i][2]}

\* Feedback stops the weekly job its pair has, under the name it was started by: a job that
\* runs beside the feedback was started when the feedback was there or had passed the gate,
\* and not stopped by a later one.
FeedbackStopsJob == \A pair \in jobs : Given(pair) => pair \in late

\* Part of ReplyStands: a reply that is not empty is replaced only when two were under way at a time.
ReplyKept ==
  [][\A i \in DOMAIN feedbacks :
       feedbacks[i].reply # "empty" /\ feedbacks'[i].reply # feedbacks[i].reply => i \in doubled]_vars

\* Part of ReplyStands: the student hears of every reply that is stored, unless a request was cut short.
Told(i) == \E m \in mails : m.kind = "reply" /\ m.id = i /\ m.to = authors[i][2]
ReplyIsTold ==
  \A i \in 1..MaxFeedbacks :
    (i \in DOMAIN feedbacks /\ feedbacks[i].reply # "empty") ~> (i \in broken \/ Told(i))

\* A stored reply stands, and reaches the student.
ReplyStands == ReplyKept /\ ReplyIsTold
================================================================================

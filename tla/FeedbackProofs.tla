---------------------------- MODULE FeedbackProofs ----------------------------
(***************************************************************************)
(* Proofs about feedback, for any users, row ids and numbers of requests,  *)
(* whatever overlaps, fails or is lost in a restart.                       *)
(***************************************************************************)
EXTENDS Feedback, SequenceTheorems, TLAPS

-----------------------------------------------------------------------------
(* The inductive invariant                                                 *)

\* A request has its pair until it has the feedback, and a row it writes is there.
Holds(r) == r.pc \in {"gate", "insert", "look"} => r.pair \in Pairs
Refers(r) == r.pc \in {"write", "tell"} => r.id \in DOMAIN feedbacks
Held == \A h \in Handlers : Holds(request[h]) /\ Refers(request[h])

\* A row names the rows of the two users it is of; what was mailed about it went to one
\* of them, and names them.
RowsOK ==
  \A i \in DOMAIN feedbacks :
    /\ feedbacks[i].tutorId = TutorRow[authors[i][1]]
    /\ feedbacks[i].studentId = StudentRow[authors[i][2]]

MailsOK ==
  \A m \in mails : m.kind \in {"review", "reply", "rejected"} =>
    /\ m.id \in DOMAIN feedbacks
    /\ m.to = IF m.kind = "review" THEN authors[m.id][1] ELSE authors[m.id][2]
    /\ m.kind # "review" => <<m.tutor, m.student>> = authors[m.id]

\* FeedbackStopsJob is not inductive: a feedback that has passed the gate stops no job
\* any more.
JobsOK == \A pair \in jobs : Given(pair) \/ Coming(pair) => pair \in late

\* Who is about to write a reply found none, or others were about to.
Replying(h) == At(h, "reply", "write")
RepliesOK ==
  /\ \A h \in Handlers :
       Replying(h) /\ feedbacks[request[h].id].reply # "empty" => request[h].id \in doubled
  /\ \A g, h \in Handlers :
       g # h /\ Replying(g) /\ Replying(h) /\ request[g].id = request[h].id =>
         request[h].id \in doubled

Inv == TypeOK /\ Held /\ RowsOK /\ MailsOK /\ JobsOK /\ RepliesOK

LEMMA IdleTyped == Idle \in Request /\ Idle.pc = "idle" /\ Idle.op = "create"
BY DEF Idle, Request, Ops, Replies, Statuses

\* A step of one request that leaves the rows alone, or adds some.
LEMMA RequestFrame ==
  ASSUME TypeOK, Held, NEW h \in Handlers, NEW r \in Request, Set(h, r), Holds(r),
         r.pc \in {"write", "tell"} => r.id \in DOMAIN feedbacks',
         DOMAIN feedbacks \subseteq DOMAIN feedbacks'
  PROVE  /\ request' \in [Handlers -> Request] /\ Held' /\ request'[h] = r
         /\ \A g \in Handlers \ {h} : request'[g] = request[g]
<1>1. /\ request' \in [Handlers -> Request] /\ request'[h] = r
      /\ \A g \in Handlers \ {h} : request'[g] = request[g]
  BY DEF Set, TypeOK
<1>2. ASSUME NEW g \in Handlers
      PROVE  Holds(request'[g]) /\ (request'[g].pc \in {"write", "tell"} => request'[g].id \in DOMAIN feedbacks')
  BY <1>1 DEF Held, Refers
<1>3. Held'
  BY <1>2 DEF Held, Holds, Refers
<1> QED
  BY <1>1, <1>3

\* Jobs that go on, and a request that brings no feedback.
LEMMA JobsFrame ==
  ASSUME JobsOK, NEW h \in Handlers, jobs' \subseteq jobs, UNCHANGED <<authors, late>>,
         \A g \in Handlers \ {h} : request'[g] = request[g],
         ~(request'[h].op = "create" /\ request'[h].pc = "insert")
  PROVE  JobsOK'
BY DEF JobsOK, Given, Coming, At

\* A request that writes no reply and is not about to.
LEMMA RepliesFrame ==
  ASSUME TypeOK, Held, RepliesOK, NEW h \in Handlers, UNCHANGED doubled,
         \A i \in DOMAIN feedbacks : feedbacks'[i].reply = feedbacks[i].reply,
         \A g \in Handlers \ {h} : request'[g] = request[g],
         ~(request'[h].op = "reply" /\ request'[h].pc = "write")
  PROVE  RepliesOK'
BY DEF RepliesOK, Replying, At, Held, Refers

\* A step of one request that writes no row.
LEMMA MoveKeeps ==
  ASSUME Inv, NEW h \in Handlers, NEW r \in Request, Set(h, r), Holds(r),
         r.pc \in {"write", "tell"} => r.id \in DOMAIN feedbacks,
         ~(r.op = "create" /\ r.pc = "insert"), ~(r.op = "reply" /\ r.pc = "write"),
         jobs' \subseteq jobs, mails' \subseteq Mail, MailsOK',
         UNCHANGED <<records, feedbacks, authors, late, doubled>>,
         requests' \in 0..MaxRequests, faults' \in 0..MaxFaults
  PROVE  Inv'
<1>1. /\ request' \in [Handlers -> Request] /\ Held' /\ request'[h] = r
      /\ \A g \in Handlers \ {h} : request'[g] = request[g]
  BY RequestFrame DEF Inv
<1>2. TypeOK'
  BY <1>1 DEF Inv, TypeOK
<1>3. RowsOK'
  BY DEF Inv, RowsOK
<1>4. JobsOK' /\ RepliesOK'
  BY <1>1, JobsFrame, RepliesFrame DEF Inv
<1> QED
  BY <1>1, <1>2, <1>3, <1>4 DEF Inv

LEMMA BeginKeeps ==
  ASSUME FeedbackAssumption, Inv, NEW h \in Handlers, NEW r \in Request, Begin(h, r), Holds(r),
         r.pc \notin {"write", "tell", "insert"}
  PROVE  Inv'
<1>1. requests' \in 0..MaxRequests /\ faults' \in 0..MaxFaults
  BY DEF Begin, Inv, TypeOK, FeedbackAssumption
<1>2. mails' \subseteq Mail /\ MailsOK'
  BY DEF Begin, history, Inv, TypeOK, MailsOK
<1> QED
  BY <1>1, <1>2, MoveKeeps DEF Begin, history

LEMMA StartsKeep ==
  ASSUME FeedbackAssumption, Inv, NEW h \in Handlers,
         \/ \E pair \in Pairs : Create(h, pair) \/ RequestFeedback(h, pair) \/ WeeklyRun(h, pair)
         \/ \E id \in Ids : \/ \E text \in Replies : ReplyFromTutor(h, id, text)
                            \/ \E status \in Statuses : UpdateApprovalStatus(h, id, status)
  PROVE  Inv'
<1>1. Ids \subseteq Nat
  <2>1. feedbacks \in Seq(Row) /\ MaxFeedbacks \in Nat
    BY DEF Inv, TypeOK, FeedbackAssumption
  <2>2. DOMAIN feedbacks = 1..Len(feedbacks) /\ Len(feedbacks) \in Nat
    BY <2>1
  <2> HIDE DEF Ids
  <2> QED
    <3> DEFINE m == MaxFeedbacks + 1
    <3>1. Ids = (1..Len(feedbacks)) \cup {m} /\ m \in Nat
      BY <2>1, <2>2 DEF Ids
    <3> HIDE DEF m
    <3> QED
      BY <2>2, <3>1
<1>2. ASSUME NEW pair \in Pairs, Create(h, pair) \/ RequestFeedback(h, pair) \/ WeeklyRun(h, pair)
      PROVE  Inv'
  <2>1. PICK op \in {"create", "ask", "weekly"}, pc \in {"gate", "look"} :
          Begin(h, [Idle EXCEPT !.op = op, !.pc = pc, !.pair = pair])
    BY <1>2 DEF Create, RequestFeedback, WeeklyRun
  <2> DEFINE r == [Idle EXCEPT !.op = op, !.pc = pc, !.pair = pair]
  <2>2. r \in Request /\ r.pair = pair /\ r.pc = pc
    BY IdleTyped DEF Request, Ops
  <2> HIDE DEF r
  <2>3. Begin(h, r)
    BY <2>1 DEF r
  <2> QED
    BY <2>2, <2>3, BeginKeeps DEF Holds
<1>3. ASSUME NEW id \in Ids, NEW text \in Replies, ReplyFromTutor(h, id, text)
      PROVE  Inv'
  <2> DEFINE r == [Idle EXCEPT !.op = "reply", !.pc = "find", !.id = id, !.reply = text]
  <2>1. r \in Request /\ r.pc = "find"
    BY <1>1, IdleTyped DEF Request, Ops
  <2> QED
    BY <1>3, <2>1, BeginKeeps DEF ReplyFromTutor, Holds
<1>4. ASSUME NEW id \in Ids, NEW status \in Statuses, UpdateApprovalStatus(h, id, status)
      PROVE  Inv'
  <2> DEFINE r == [Idle EXCEPT !.op = "judge", !.pc = "find", !.id = id, !.status = status]
  <2>1. r \in Request /\ r.pc = "find"
    BY <1>1, IdleTyped DEF Request, Ops
  <2> QED
    BY <1>4, <2>1, BeginKeeps DEF UpdateApprovalStatus, Holds
<1> QED
  BY <1>2, <1>3, <1>4

LEMMA SettleKeeps ==
  ASSUME Inv, NEW h \in Handlers, Settle(h), jobs' \subseteq jobs, mails' \subseteq Mail, MailsOK',
         UNCHANGED <<records, feedbacks, authors, late, doubled>>,
         requests' \in 0..MaxRequests, faults' \in 0..MaxFaults
  PROVE  Inv'
BY IdleTyped, MoveKeeps DEF Settle, Holds

\* A step on tables that another step leaves alone.
LEMMA MailsFrame ==
  ASSUME Inv, UNCHANGED <<mails, feedbacks, authors>>
  PROVE  mails' \subseteq Mail /\ MailsOK'
BY DEF Inv, TypeOK, MailsOK

LEMMA GateKeeps ==
  ASSUME FeedbackAssumption, Inv, NEW h \in Handlers, Gate(h)
  PROVE  Inv'
<1> DEFINE p == request[h]
<1>1. /\ p \in Request /\ p.pc = "gate" /\ p.pair \in Pairs
      /\ UNCHANGED <<records, feedbacks, authors, doubled, requests, faults>>
      /\ requests' \in 0..MaxRequests /\ faults' \in 0..MaxFaults
      /\ mails' \subseteq Mail /\ MailsOK'
  BY MailsFrame DEF Gate, Inv, TypeOK, Held, Holds, bounds
<1>2. CASE Settle(h) /\ UNCHANGED <<jobs, late>>
  BY <1>1, <1>2, SettleKeeps
<1>3. CASE Goto(h, "look") /\ UNCHANGED <<jobs, late>>
  <2> DEFINE r == [p EXCEPT !.pc = "look"]
  <2>1. r \in Request /\ r.pc = "look" /\ r.pair \in Pairs
    BY <1>1 DEF Request
  <2> HIDE DEF r
  <2>2. Set(h, r)
    BY <1>3 DEF Goto, r
  <2> QED
    BY <1>1, <1>3, <2>1, <2>2, MoveKeeps DEF Holds
<1>4. CASE /\ p.op = "create" /\ Goto(h, "insert")
           /\ jobs' = jobs \ {p.pair} /\ late' = late \ {p.pair}
  <2> DEFINE r == [p EXCEPT !.pc = "insert"]
  <2>1. r \in Request /\ r.pc = "insert" /\ r.pair = p.pair /\ r.op = "create"
    BY <1>1, <1>4 DEF Request
  <2> HIDE DEF r
  <2>2. Set(h, r)
    BY <1>4 DEF Goto, r
  <2>3. /\ request' \in [Handlers -> Request] /\ Held' /\ request'[h] = r
        /\ \A g \in Handlers \ {h} : request'[g] = request[g]
    BY <1>1, <2>1, <2>2, RequestFrame DEF Inv, Holds
  <2>4. TypeOK' /\ RowsOK'
    BY <1>1, <1>4, <2>3 DEF Inv, TypeOK, RowsOK
  <2>5. JobsOK'
    BY <1>1, <1>4, <2>1, <2>3 DEF Inv, JobsOK, Given, Coming, At
  <2>6. RepliesOK'
    BY <1>1, <2>1, <2>3, RepliesFrame DEF Inv
  <2> QED
    BY <1>1, <2>3, <2>4, <2>5, <2>6 DEF Inv
<1> QED
  BY <1>2, <1>3, <1>4 DEF Gate, Stop

LEMMA InsertKeeps ==
  ASSUME FeedbackAssumption, Inv, NEW h \in Handlers, InsertFeedback(h)
  PROVE  Inv'
<1> DEFINE pair == request[h].pair
           n == Len(feedbacks) + 1
           row == NewRow(pair)
<1>1. /\ request[h] \in Request /\ pair \in Pairs /\ request[h].op = "create"
      /\ request[h].pc = "insert"
      /\ feedbacks \in Seq(Row) /\ authors \in Seq(Pairs) /\ Len(authors) = Len(feedbacks)
  BY DEF InsertFeedback, At, Inv, TypeOK, Held, Holds
<1>2. /\ feedbacks' = Append(feedbacks, row) /\ authors' = Append(authors, pair)
      /\ mails' = mails \cup ReviewMails(pair, n) /\ Settle(h)
      /\ UNCHANGED <<records, jobs, late, doubled, broken, requests, faults>>
  BY DEF InsertFeedback, bounds
<1>3. /\ row \in Row /\ row.tutorId = TutorRow[pair[1]] /\ row.studentId = StudentRow[pair[2]]
      /\ row.reply = "empty"
  BY <1>1 DEF NewRow, Row, Replies, Statuses, Pairs, FeedbackAssumption
<1> HIDE DEF pair, row
<1>4. /\ feedbacks' \in Seq(Row) /\ authors' \in Seq(Pairs) /\ Len(authors') = Len(feedbacks')
      /\ DOMAIN feedbacks = 1..Len(feedbacks) /\ DOMAIN feedbacks' = 1..n
      /\ DOMAIN authors = 1..Len(feedbacks) /\ DOMAIN authors' = 1..n
      /\ feedbacks'[n] = row /\ authors'[n] = pair /\ n \in Nat
      /\ \A i \in DOMAIN feedbacks : feedbacks'[i] = feedbacks[i] /\ authors'[i] = authors[i]
  <2>1. /\ feedbacks' \in Seq(Row) /\ Len(feedbacks') = n /\ feedbacks'[n] = row
        /\ \A i \in 1..Len(feedbacks) : feedbacks'[i] = feedbacks[i]
    BY <1>1, <1>2, <1>3
  <2>2. /\ authors' \in Seq(Pairs) /\ Len(authors') = n /\ authors'[n] = pair
        /\ \A i \in 1..Len(authors) : authors'[i] = authors[i]
    BY <1>1, <1>2
  <2>3. n \in Nat /\ DOMAIN feedbacks = 1..Len(feedbacks) /\ DOMAIN authors = 1..Len(authors)
    BY <1>1
  <2> HIDE DEF n
  <2> QED
    BY <1>1, <2>1, <2>2, <2>3
<1>5. \A i \in 1..n : i = n \/ i \in DOMAIN feedbacks
  BY <1>1, <1>4
<1>6. DOMAIN feedbacks \subseteq DOMAIN feedbacks' /\ n \in DOMAIN feedbacks'
  BY <1>1, <1>4
<1> HIDE DEF n
<1>7. /\ request' \in [Handlers -> Request] /\ Held' /\ request'[h] = Idle
      /\ \A g \in Handlers \ {h} : request'[g] = request[g]
  BY <1>2, <1>6, IdleTyped, RequestFrame DEF Inv, Settle, Holds
<1>8. mails' \subseteq Mail /\ MailsOK'
  <2>1. \A m \in ReviewMails(pair, n) :
          m \in Mail /\ m.kind = "review" /\ m.id = n /\ m.to = pair[1]
    BY <1>1, <1>4 DEF ReviewMails, About, Mail, Pairs, Users
  <2> QED
    BY <1>2, <1>4, <1>6, <2>1 DEF Inv, TypeOK, MailsOK
<1>9. TypeOK'
  BY <1>2, <1>4, <1>7, <1>8 DEF Inv, TypeOK
<1>10. RowsOK'
  BY <1>3, <1>4, <1>5 DEF Inv, RowsOK
<1>11. JobsOK'
  <2>1. Coming(pair)
    BY <1>1 DEF Coming, At, pair
  <2>2. \A q : Given(q)' => Given(q) \/ q = pair
    BY <1>4, <1>5 DEF Given
  <2>3. \A q : Coming(q)' => Coming(q)
    BY <1>7, IdleTyped DEF Coming, At
  <2> QED
    BY <1>2, <2>1, <2>2, <2>3 DEF Inv, JobsOK
<1>12. RepliesOK'
  BY <1>2, <1>4, <1>7, IdleTyped, RepliesFrame DEF Inv
<1> QED
  BY <1>7, <1>8, <1>9, <1>10, <1>11, <1>12 DEF Inv

LEMMA AskKeeps ==
  ASSUME FeedbackAssumption, Inv, NEW h \in Handlers, LookAndAsk(h)
  PROVE  Inv'
<1> DEFINE pair == request[h].pair
<1>1. /\ pair \in Pairs /\ Settle(h)
      /\ UNCHANGED <<records, feedbacks, authors, doubled, requests, faults>>
  BY DEF LookAndAsk, At, Inv, Held, Holds, bounds
<1>2. CASE UNCHANGED <<jobs, mails, late>>
  BY <1>1, <1>2, MailsFrame, SettleKeeps DEF Inv, TypeOK
<1>3. CASE /\ jobs' = jobs \cup {pair} /\ mails' = mails \cup {AskedMail(pair)}
           /\ late' = IF Given(pair) \/ Coming(pair) THEN late \cup {pair} ELSE late
  <2>1. /\ request' \in [Handlers -> Request] /\ Held' /\ request'[h] = Idle
        /\ \A g \in Handlers \ {h} : request'[g] = request[g]
    BY <1>1, IdleTyped, RequestFrame DEF Inv, Settle, Holds
  <2>2. AskedMail(pair) \in Mail /\ AskedMail(pair).kind = "asked"
    BY <1>1 DEF AskedMail, Letter, Mail, Pairs, Users
  <2>3. mails' \subseteq Mail /\ MailsOK'
    BY <1>1, <1>3, <2>2 DEF Inv, TypeOK, MailsOK
  <2>4. TypeOK' /\ RowsOK'
    BY <1>1, <1>3, <2>1, <2>3 DEF Inv, TypeOK, RowsOK
  <2> HIDE DEF pair
  <2>5. JobsOK'
    <3>1. \A q : (Coming(q)' => Coming(q)) /\ (Given(q)' => Given(q))
      BY <1>1, <2>1, IdleTyped DEF Coming, Given, At
    <3> QED
      BY <1>3, <3>1 DEF Inv, JobsOK
  <2>6. RepliesOK'
    BY <1>1, <2>1, IdleTyped, RepliesFrame DEF Inv
  <2> QED
    BY <2>1, <2>3, <2>4, <2>5, <2>6 DEF Inv
<1> QED
  BY <1>2, <1>3 DEF LookAndAsk

LEMMA FindKeeps ==
  ASSUME Inv, NEW h \in Handlers, FindFeedback(h)
  PROVE  Inv'
<1> DEFINE p == request[h]
           r == [p EXCEPT !.pc = "write"]
<1>1. /\ p \in Request /\ p.pc = "find"
      /\ UNCHANGED <<records, feedbacks, jobs, authors, late, requests, faults>>
      /\ requests' \in 0..MaxRequests /\ faults' \in 0..MaxFaults
      /\ mails' \subseteq Mail /\ MailsOK'
  BY MailsFrame DEF FindFeedback, Inv, TypeOK, bounds
<1>2. CASE Settle(h) /\ UNCHANGED doubled
  BY <1>1, <1>2, SettleKeeps
<1>3. CASE /\ Set(h, r) /\ p.id \in DOMAIN feedbacks
           /\ p.op = "reply" => feedbacks[p.id].reply = "empty"
           /\ doubled' = doubled \cup {request[g].id : g \in Writing(p)}
  <2>1. r \in Request /\ r.pc = "write" /\ r.id = p.id /\ r.op = p.op
    BY <1>1 DEF Request
  <2> HIDE DEF r
  <2>2. /\ request' \in [Handlers -> Request] /\ Held' /\ request'[h] = r
        /\ \A g \in Handlers \ {h} : request'[g] = request[g]
    BY <1>1, <1>3, <2>1, RequestFrame DEF Inv, Holds
  <2>3. TypeOK' /\ RowsOK'
    BY <1>1, <2>2 DEF Inv, TypeOK, RowsOK
  <2>4. JobsOK'
    BY <1>1, <2>1, <2>2, JobsFrame DEF Inv
  <2>5. RepliesOK'
    <3>1. \A g \in Handlers \ {h} :
            Replying(g) /\ request[g].id = p.id /\ p.op = "reply" => p.id \in doubled'
      BY <1>3 DEF Writing, Replying
    <3>2. \A g \in Handlers \ {h} : Replying(g)' => Replying(g)
      BY <2>2 DEF Replying, At
    <3>3. Replying(h)' => p.op = "reply"
      BY <2>1, <2>2 DEF Replying, At
    <3>4. doubled \subseteq doubled'
      BY <1>3
    <3>5. ASSUME NEW g \in Handlers, Replying(g)', feedbacks[request'[g].id].reply # "empty"
          PROVE  request'[g].id \in doubled'
      BY <1>3, <2>1, <2>2, <3>2, <3>3, <3>4, <3>5 DEF Inv, RepliesOK
    <3>6. ASSUME NEW g \in Handlers, NEW k \in Handlers, g # k, Replying(g)', Replying(k)',
                 request'[g].id = request'[k].id
          PROVE  request'[k].id \in doubled'
      BY <2>1, <2>2, <3>1, <3>2, <3>3, <3>4, <3>6 DEF Inv, RepliesOK
    <3> QED
      BY <1>1, <3>5, <3>6 DEF RepliesOK
  <2> QED
    BY <1>1, <2>2, <2>3, <2>4, <2>5 DEF Inv
<1> QED
  BY <1>2, <1>3 DEF FindFeedback, Goto

\* What is written to one row of the feedback.
LEMMA RowWritten ==
  ASSUME TypeOK, NEW i \in DOMAIN feedbacks, NEW row \in Row,
         feedbacks' = [feedbacks EXCEPT ![i] = row]
  PROVE  /\ feedbacks' \in Seq(Row) /\ Len(feedbacks') = Len(feedbacks)
         /\ DOMAIN feedbacks' = DOMAIN feedbacks /\ feedbacks'[i] = row
         /\ \A j \in DOMAIN feedbacks \ {i} : feedbacks'[j] = feedbacks[j]
<1>1. feedbacks \in Seq(Row) /\ i \in 1..Len(feedbacks)
  BY DEF TypeOK
<1> QED
  BY <1>1, ExceptSeq

LEMMA WriteReplyKeeps ==
  ASSUME Inv, NEW h \in Handlers, WriteReply(h)
  PROVE  Inv'
<1> DEFINE p == request[h]
           r == [p EXCEPT !.pc = "tell"]
           row == [feedbacks[p.id] EXCEPT !.reply = p.reply]
<1>1. /\ p \in Request /\ Replying(h) /\ p.id \in DOMAIN feedbacks
      /\ Set(h, r) /\ feedbacks[p.id] \in Row
      /\ UNCHANGED <<records, jobs, mails, authors, late, doubled, requests, faults>>
  BY DEF WriteReply, Goto, Replying, At, Inv, TypeOK, Held, Refers, history, bounds
<1>2. /\ row \in Row /\ row.tutorId = feedbacks[p.id].tutorId
      /\ row.studentId = feedbacks[p.id].studentId
  BY <1>1 DEF Row, Request
<1>3. r \in Request /\ r.pc = "tell" /\ r.id = p.id
  BY <1>1 DEF Request
<1>4. feedbacks' = [feedbacks EXCEPT ![p.id] = row]
  BY DEF WriteReply
<1> HIDE DEF r, row
<1>5. /\ feedbacks' \in Seq(Row) /\ Len(feedbacks') = Len(feedbacks)
      /\ DOMAIN feedbacks' = DOMAIN feedbacks /\ feedbacks'[p.id] = row
      /\ \A j \in DOMAIN feedbacks \ {p.id} : feedbacks'[j] = feedbacks[j]
  BY <1>1, <1>2, <1>4, RowWritten DEF Inv
<1>6. /\ request' \in [Handlers -> Request] /\ Held' /\ request'[h] = r
      /\ \A g \in Handlers \ {h} : request'[g] = request[g]
  BY <1>1, <1>3, <1>5, RequestFrame DEF Inv, Holds
<1>7. TypeOK'
  BY <1>1, <1>5, <1>6 DEF Inv, TypeOK
<1>8. RowsOK' /\ MailsOK'
  BY <1>1, <1>2, <1>5 DEF Inv, RowsOK, MailsOK
<1>9. JobsOK'
  BY <1>1, <1>3, <1>6, JobsFrame DEF Inv
<1>10. RepliesOK'
  <2>1. ~Replying(h)' /\ \A g \in Handlers \ {h} : Replying(g)' => Replying(g)
    BY <1>3, <1>6 DEF Replying, At
  <2>2. \A g \in Handlers \ {h} : Replying(g) => request[g].id \in DOMAIN feedbacks
    BY DEF Replying, At, Inv, Held, Refers
  <2> QED
    BY <1>1, <1>5, <1>6, <2>1, <2>2 DEF Inv, RepliesOK
<1> QED
  BY <1>6, <1>7, <1>8, <1>9, <1>10 DEF Inv

\* The users whose rows a feedback names are the ones it is of.
LEMMA RowsFound ==
  ASSUME FeedbackAssumption, Inv, NEW i \in DOMAIN feedbacks
  PROVE  /\ authors[i] \in Pairs
         /\ TutorOf(feedbacks[i].tutorId) = {authors[i][1]}
         /\ StudentOf(feedbacks[i].studentId) = {authors[i][2]}
<1>1. authors[i] \in Pairs
  BY DEF Inv, TypeOK
<1>2. authors[i][1] \in Tutors /\ authors[i][2] \in Students
  BY <1>1 DEF Pairs
<1>3. /\ feedbacks[i].tutorId = TutorRow[authors[i][1]]
      /\ feedbacks[i].studentId = StudentRow[authors[i][2]]
  BY DEF Inv, RowsOK
<1>4. /\ \A t \in Tutors : TutorRow[t] = TutorRow[authors[i][1]] => t = authors[i][1]
      /\ \A s \in Students : StudentRow[s] = StudentRow[authors[i][2]] => s = authors[i][2]
  BY <1>2 DEF FeedbackAssumption
<1>5. TutorOf(feedbacks[i].tutorId) = {authors[i][1]}
  BY <1>2, <1>3, <1>4 DEF TutorOf
<1>6. StudentOf(feedbacks[i].studentId) = {authors[i][2]}
  BY <1>2, <1>3, <1>4 DEF StudentOf
<1> QED
  BY <1>1, <1>5, <1>6

\* A mail to the student about a feedback that is there.
LEMMA MailsAdded ==
  ASSUME FeedbackAssumption, Inv, NEW i \in DOMAIN feedbacks, NEW new,
         new \in {ReplyMails(i), RejectedMails(i)}, mails' = mails \cup new, UNCHANGED authors,
         DOMAIN feedbacks' = DOMAIN feedbacks
  PROVE  mails' \subseteq Mail /\ MailsOK'
<1>1. i \in Nat /\ authors[i] \in Pairs /\ PartiesOf(i) = {authors[i]}
  <2>1. feedbacks \in Seq(Row)
    BY DEF Inv, TypeOK
  <2> QED
    <3>1. PartiesOf(i) = {authors[i][1]} \X {authors[i][2]}
      BY RowsFound DEF PartiesOf
    <3>2. authors[i] \in Pairs /\ authors[i] = <<authors[i][1], authors[i][2]>>
      <4>1. \A p \in Tutors \X Students : p = <<p[1], p[2]>>
        OBVIOUS
      <4> QED
        BY <4>1, RowsFound DEF Pairs
    <3>3. {authors[i][1]} \X {authors[i][2]} = {<<authors[i][1], authors[i][2]>>}
      OBVIOUS
    <3>4. i \in Nat
      BY <2>1
    <3> QED
      BY <3>1, <3>2, <3>3, <3>4
<1>2. new \in {{About("reply", authors[i][2], i, authors[i])},
              {About("rejected", authors[i][2], i, authors[i])}}
  BY <1>1 DEF ReplyMails, RejectedMails
<1>3. \A m \in new : /\ m \in Mail /\ m.kind \in {"reply", "rejected"}
                     /\ m.id = i /\ m.to = authors[i][2] /\ <<m.tutor, m.student>> = authors[i]
  BY <1>1, <1>2 DEF About, Mail, Pairs, Users
<1> QED
  BY <1>3 DEF Inv, TypeOK, MailsOK

LEMMA TellKeeps ==
  ASSUME FeedbackAssumption, Inv, NEW h \in Handlers, TellReply(h)
  PROVE  Inv'
<1>1. request[h].id \in DOMAIN feedbacks
  BY DEF TellReply, At, Inv, Held, Refers
<1>2. mails' \subseteq Mail /\ MailsOK'
  BY <1>1, MailsAdded DEF TellReply, history
<1> QED
  BY <1>2, SettleKeeps DEF TellReply, history, bounds, Inv, TypeOK

LEMMA WriteStatusKeeps ==
  ASSUME FeedbackAssumption, Inv, NEW h \in Handlers, WriteStatus(h)
  PROVE  Inv'
<1> DEFINE p == request[h]
           row == [feedbacks[p.id] EXCEPT !.status = p.status]
<1>1. /\ p \in Request /\ p.id \in DOMAIN feedbacks /\ feedbacks[p.id] \in Row /\ Settle(h)
      /\ UNCHANGED <<records, jobs, authors, late, doubled, requests, faults>>
  BY DEF WriteStatus, At, Inv, TypeOK, Held, Refers, history, bounds
<1>2. /\ row \in Row /\ row.tutorId = feedbacks[p.id].tutorId
      /\ row.studentId = feedbacks[p.id].studentId /\ row.reply = feedbacks[p.id].reply
  BY <1>1 DEF Row, Request
<1>3. feedbacks' = [feedbacks EXCEPT ![p.id] = row]
  BY DEF WriteStatus
<1> HIDE DEF row
<1>4. /\ feedbacks' \in Seq(Row) /\ Len(feedbacks') = Len(feedbacks)
      /\ DOMAIN feedbacks' = DOMAIN feedbacks /\ feedbacks'[p.id] = row
      /\ \A j \in DOMAIN feedbacks \ {p.id} : feedbacks'[j] = feedbacks[j]
  BY <1>1, <1>2, <1>3, RowWritten DEF Inv
<1>5. mails' \subseteq Mail /\ MailsOK'
  <2>1. CASE UNCHANGED mails
    BY <1>1, <1>4, <2>1 DEF Inv, TypeOK, MailsOK
  <2>2. CASE mails' = mails \cup RejectedMails(p.id)
    BY <1>1, <1>4, <2>2, MailsAdded
  <2> QED
    BY <2>1, <2>2 DEF WriteStatus
<1>6. /\ request' \in [Handlers -> Request] /\ Held' /\ request'[h] = Idle
      /\ \A g \in Handlers \ {h} : request'[g] = request[g]
  BY <1>1, <1>4, IdleTyped, RequestFrame DEF Inv, Settle, Holds
<1>7. TypeOK'
  BY <1>1, <1>4, <1>5, <1>6 DEF Inv, TypeOK
<1>8. RowsOK'
  BY <1>1, <1>2, <1>4 DEF Inv, RowsOK
<1>9. JobsOK'
  BY <1>1, <1>6, IdleTyped, JobsFrame DEF Inv
<1>10. RepliesOK'
  BY <1>1, <1>2, <1>4, <1>6, IdleTyped, RepliesFrame DEF Inv
<1> QED
  BY <1>5, <1>6, <1>7, <1>8, <1>9, <1>10 DEF Inv

LEMMA RemindKeeps ==
  ASSUME Inv, NEW h \in Handlers, LookAndRemind(h)
  PROVE  Inv'
<1>1. request[h].pair \in Pairs
  BY DEF LookAndRemind, At, Inv, Held, Holds
<1>2. OwedMail(request[h].pair) \in Mail /\ OwedMail(request[h].pair).kind = "owed"
  BY <1>1 DEF OwedMail, Letter, Mail, Pairs, Users
<1>3. mails' \subseteq Mail /\ MailsOK'
  BY <1>2 DEF LookAndRemind, history, Inv, TypeOK, MailsOK
<1> QED
  BY <1>3, SettleKeeps DEF LookAndRemind, history, bounds, Inv, TypeOK

LEMMA FaultsKeep ==
  ASSUME FeedbackAssumption, Inv, Restart \/ \E h \in Handlers : CallFails(h)
  PROVE  Inv'
<1>1. faults' \in 0..MaxFaults
  BY DEF Restart, CallFails, Fault, Inv, TypeOK, FeedbackAssumption
<1>2. ASSUME NEW h \in Handlers, CallFails(h)
      PROVE  Inv'
  BY <1>1, <1>2, MailsFrame, SettleKeeps DEF CallFails, Inv, TypeOK
<1>3. CASE Restart
  <2>1. /\ request' = [h \in Handlers |-> Idle] /\ jobs' = {} /\ late' = {}
        /\ UNCHANGED <<records, feedbacks, mails, authors, doubled, requests>>
    BY <1>3 DEF Restart
  <2>2. /\ request' \in [Handlers -> Request]
        /\ \A g \in Handlers : request'[g].pc = "idle"
    BY <2>1, IdleTyped
  <2>3. TypeOK'
    BY <1>1, <2>1, <2>2 DEF Inv, TypeOK
  <2>4. Held' /\ JobsOK' /\ RepliesOK'
    BY <2>1, <2>2 DEF Held, Holds, Refers, JobsOK, RepliesOK, Replying, At
  <2>5. RowsOK' /\ MailsOK'
    BY <2>1 DEF Inv, RowsOK, MailsOK
  <2> QED
    BY <2>3, <2>4, <2>5 DEF Inv
<1> QED
  BY <1>2, <1>3

\* A step that touches none of the invariant's variables but the records.
LEMMA RecordsFrame ==
  ASSUME Inv, records' \subseteq Users,
         UNCHANGED <<feedbacks, jobs, mails, request, history, bounds>>
  PROVE  Inv'
BY DEF Inv, TypeOK, Held, Holds, Refers, RowsOK, MailsOK, JobsOK, Given, Coming, RepliesOK, Replying,
       At, history, bounds

LEMMA NextKeeps ==
  ASSUME FeedbackAssumption, Inv, [Next]_vars
  PROVE  Inv'
<1>1. ASSUME NEW h \in Handlers, NEW pair \in Pairs,
             Create(h, pair) \/ RequestFeedback(h, pair) \/ WeeklyRun(h, pair)
      PROVE  Inv'
  BY <1>1, StartsKeep
<1>2. ASSUME NEW h \in Handlers, NEW id \in Ids, NEW text \in Replies,
             ReplyFromTutor(h, id, text)
      PROVE  Inv'
  BY <1>2, StartsKeep
<1>3. ASSUME NEW h \in Handlers, NEW id \in Ids, NEW status \in Statuses,
             UpdateApprovalStatus(h, id, status)
      PROVE  Inv'
  BY <1>3, StartsKeep
<1>4. ASSUME NEW h \in Handlers, Continue(h)
      PROVE  Inv'
  BY <1>4, GateKeeps, InsertKeeps, AskKeeps, FindKeeps, WriteReplyKeeps, TellKeeps,
     WriteStatusKeeps, RemindKeeps DEF Continue
<1>5. CASE Restart \/ \E h \in Handlers : CallFails(h)
  BY <1>5, FaultsKeep
<1>6. ASSUME NEW u \in Users, RecordMade(u)
      PROVE  Inv'
  BY <1>6, RecordsFrame DEF RecordMade, Inv, TypeOK
<1>7. CASE UNCHANGED vars
  BY <1>7, RecordsFrame DEF vars, Inv, TypeOK
<1> QED
  BY <1>1, <1>2, <1>3, <1>4, <1>5, <1>6, <1>7 DEF Next

LEMMA InitKeeps ==
  ASSUME FeedbackAssumption, Init
  PROVE  Inv
<1>1. /\ request \in [Handlers -> Request] /\ \A g \in Handlers : request[g].pc = "idle"
  BY IdleTyped DEF Init
<1>2. TypeOK
  BY <1>1 DEF Init, TypeOK, FeedbackAssumption
<1>3. Held /\ RepliesOK
  BY <1>1 DEF Held, Holds, Refers, RepliesOK, Replying, At
<1>4. RowsOK /\ MailsOK /\ JobsOK
  BY DEF Init, RowsOK, MailsOK, JobsOK
<1> QED
  BY <1>2, <1>3, <1>4 DEF Inv

LEMMA InvAlways == Spec => []Inv
<1>1. FeedbackAssumption
  BY FeedbackAssumption
<1>2. Init => Inv
  BY <1>1, InitKeeps
<1>3. Inv /\ [Next]_vars => Inv'
  BY <1>1, NextKeeps
<1> QED
  BY <1>2, <1>3, PTL DEF Spec

-----------------------------------------------------------------------------
(* Theorems                                                                *)

\* The variables stay in their types.
THEOREM TypeCorrect == Spec => []TypeOK
BY InvAlways, PTL DEF Inv

\* Though rows of three tables number themselves and are compared with one another, a mail
\* about a feedback goes to the tutor it is of or to the student who gave it, and one about
\* its reply or its rejection names them both.  (The mail on the review itself swaps them.)
THEOREM MailsReach == Spec => []MailsReachParty
<1>1. Inv => MailsReachParty
  BY DEF Inv, MailsOK, MailsReachParty
<1> QED
  BY <1>1, InvAlways, PTL

\* A feedback is shown with the two users it is of, and on their pages alone.
THEOREM PagesShow == Spec => []PagesShowParty
<1>1. ASSUME Inv
      PROVE  PagesShowParty
  <2> SUFFICES ASSUME NEW i \in DOMAIN feedbacks
               PROVE  LET shown == [id |-> i, tutor |-> {authors[i][1]}, student |-> {authors[i][2]}]
                      IN /\ shown \in FindAllForAdmin(feedbacks[i].status)
                         /\ \A u \in Users :
                              (\E r \in FindAll(u) : r.id = i) <=>
                                feedbacks[i].status = "APPROVED" /\ u \in {authors[i][1], authors[i][2]}
    BY DEF PagesShowParty
  <2> DEFINE shown == [id |-> i, tutor |-> {authors[i][1]}, student |-> {authors[i][2]}]
  <2>1. FeedbackAssumption
    BY FeedbackAssumption
  <2>2. Joined(i) = shown /\ \A j : Joined(j).id = j
    BY <1>1, <2>1, RowsFound DEF Joined
  <2>3. shown \in FindAllForAdmin(feedbacks[i].status)
    BY <2>2 DEF FindAllForAdmin
  <2>4. authors[i][1] \in Tutors /\ authors[i][2] \in Students
    BY <1>1, <2>1, RowsFound DEF Pairs
  <2>5. ASSUME NEW u \in Users
        PROVE  (\E r \in FindAll(u) : r.id = i) <=>
                 feedbacks[i].status = "APPROVED" /\ u \in {authors[i][1], authors[i][2]}
    <3>1. (\E r \in FindAll(u) : r.id = i) <=>
            /\ feedbacks[i].status = "APPROVED"
            /\ IF u \in Tutors THEN feedbacks[i].tutorId = TutorRow[u]
               ELSE feedbacks[i].studentId = StudentRow[u]
      BY <2>2 DEF FindAll
    <3>2. CASE u \in Tutors
      <4>1. feedbacks[i].tutorId = TutorRow[u] <=> u = authors[i][1]
        BY <1>1, <2>1, <2>4, <3>2 DEF Inv, RowsOK, FeedbackAssumption
      <4>2. u # authors[i][2]
        BY <2>1, <2>4, <3>2 DEF FeedbackAssumption
      <4> QED
        BY <3>1, <3>2, <4>1, <4>2
    <3>3. CASE u \notin Tutors
      <4>1. u \in Students
        BY <3>3 DEF Users
      <4>2. feedbacks[i].studentId = StudentRow[u] <=> u = authors[i][2]
        BY <1>1, <2>1, <2>4, <4>1 DEF Inv, RowsOK, FeedbackAssumption
      <4> QED
        BY <2>4, <3>1, <3>3, <4>2
    <3> QED
      BY <3>2, <3>3
  <2> QED
    BY <2>3, <2>5
<1> QED
  BY <1>1, InvAlways, PTL

\* No weekly job that was started before feedback of its pair passed the gate outlives that
\* feedback: one that runs beside it was started by a later request for feedback, which the
\* code lets pass because it looks for the feedback by ids of table User.
THEOREM FeedbackEndsJob == Spec => []FeedbackStopsJob
<1>1. Inv => FeedbackStopsJob
  BY DEF Inv, JobsOK, FeedbackStopsJob
<1> QED
  BY <1>1, InvAlways, PTL

LEMMA NextReply ==
  ASSUME Inv, [Next]_vars, NEW i \in DOMAIN feedbacks, feedbacks[i].reply # "empty",
         feedbacks'[i].reply # feedbacks[i].reply
  PROVE  i \in doubled
<1>1. ASSUME NEW h \in Handlers, WriteReply(h)
      PROVE  i \in doubled
  <2>1. request[h].id \in DOMAIN feedbacks /\ Replying(h)
    BY <1>1 DEF WriteReply, At, Replying, Inv, Held, Refers
  <2>2. i = request[h].id
    BY <1>1, <2>1 DEF WriteReply, Inv, TypeOK
  <2> QED
    BY <2>1, <2>2 DEF Inv, RepliesOK
<1>2. ASSUME NEW h \in Handlers, InsertFeedback(h)
      PROVE  FALSE
  BY <1>2 DEF InsertFeedback, Inv, TypeOK
<1>3. ASSUME NEW h \in Handlers, WriteStatus(h)
      PROVE  FALSE
  <2>1. /\ feedbacks[i] \in Row /\ request[h].id \in DOMAIN feedbacks
    BY <1>3 DEF WriteStatus, At, Inv, TypeOK, Held, Refers
  <2>2. feedbacks'[i] = feedbacks[i]
        \/ feedbacks'[i] = [feedbacks[i] EXCEPT !.status = request[h].status]
    BY <1>3, <2>1 DEF WriteStatus, Inv, TypeOK
  <2> QED
    BY <2>1, <2>2 DEF Row
<1>4. CASE UNCHANGED feedbacks
  BY <1>4
<1> QED
  BY <1>1, <1>2, <1>3, <1>4
     DEF Next, Continue, Create, RequestFeedback, WeeklyRun, ReplyFromTutor, UpdateApprovalStatus,
         Begin, Gate, LookAndAsk, FindFeedback, TellReply, LookAndRemind, CallFails, RecordMade,
         Restart, vars

\* A reply that is stored is replaced only if two were under way at a time.
THEOREM RepliesKept == Spec => ReplyKept
<1>1. Inv /\ [Next]_vars =>
        [\A i \in DOMAIN feedbacks :
           feedbacks[i].reply # "empty" /\ feedbacks'[i].reply # feedbacks[i].reply => i \in doubled]_vars
  BY NextReply
<1> QED
  BY <1>1, InvAlways, PTL DEF Spec, ReplyKept

===============================================================================

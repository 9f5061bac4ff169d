---------------------------- MODULE DirectoryProofs ----------------------------
(***************************************************************************)
(* Proofs about what a tutor submits and what students find, for any       *)
(* documents, addresses, offers and numbers of requests, whatever overlaps, *)
(* fails, or is lost in a restart.                                         *)
(***************************************************************************)
EXTENDS Directory, SequenceTheorems, TLAPS

-----------------------------------------------------------------------------
(* Types                                                                   *)

\* The requests that hold the id of a referee, and an address.
HoldsId(r) == r.pc \in {"update", "invite", "store"} \/ (r.op = "review" /\ r.pc \in {"look", "notice"})
HoldsEmail(r) == r.pc \in {"update", "invite"} \/ (r.op = "invite" /\ r.pc \in {"look", "insert"})

\* An id that a request or a link holds is of a row that was there.
IdsOK ==
  /\ Len(referees) <= MaxReferees
  /\ \A link \in invited : link[1] \in DOMAIN referees
  /\ \A h \in Handlers : /\ HoldsId(request[h]) => request[h].id \in DOMAIN referees
                         /\ HoldsEmail(request[h]) => request[h].email \in Emails

Typed == TypeOK /\ IdsOK

LEMMA IdleTyped ==
  ASSUME ApprovalAssumption
  PROVE  Idle \in Request /\ ~HoldsId(Idle) /\ ~HoldsEmail(Idle)
BY DEF ApprovalAssumption, Idle, Request, NoUrls, Urls, NoNumbers, Numbers, Approval, HoldsId,
       HoldsEmail

\* A step that sets one request, the tutor's rows as typed as before.
LEMMA SetTyped ==
  ASSUME ApprovalAssumption, Typed, NEW h \in Handlers, NEW r \in Request, Set(h, r),
         HoldsId(r) => r.id \in DOMAIN referees, HoldsEmail(r) => r.email \in Emails,
         UNCHANGED refereeRows,
         documents' \in Documents, flags' \in [FlagNames -> Approval],
         names' \in [now : Numbers, asked : Numbers], qualified' \in BOOLEAN,
         latest' \in Urls, asked' \in Numbers, crossed' \subseteq Docs \cup Names,
         lowered' \subseteq FlagNames, bypassed' \in BOOLEAN, broken' \in BOOLEAN,
         uploads' \in 0..MaxUploads, requests' \in 0..MaxRequests, faults' \in 0..MaxFaults
  PROVE  Typed'
<1>1. /\ request' \in [Handlers -> Request] /\ request'[h] = r
      /\ \A g \in Handlers \ {h} : request'[g] = request[g]
  BY DEF Set, Typed, TypeOK
<1>2. TypeOK'
  BY <1>1 DEF Typed, TypeOK, refereeRows
<1>3. IdsOK'
  BY <1>1 DEF Typed, IdsOK, refereeRows, HoldsId, HoldsEmail
<1> QED
  BY <1>2, <1>3 DEF Typed

\* A step that only sets one request.
LEMMA MoveTyped ==
  ASSUME ApprovalAssumption, Typed, NEW h \in Handlers, NEW r \in Request, Set(h, r),
         HoldsId(r) => r.id \in DOMAIN referees, HoldsEmail(r) => r.email \in Emails,
         UNCHANGED <<tutorRows, refereeRows, history, uploads, faults>>,
         requests' \in 0..MaxRequests
  PROVE  Typed'
BY SetTyped DEF Typed, TypeOK, tutorRows, history

LEMMA BeginTyped ==
  ASSUME ApprovalAssumption, Typed, NEW h \in Handlers, NEW r \in Request, Begin(h, r),
         HoldsId(r) => r.id \in DOMAIN referees, HoldsEmail(r) => r.email \in Emails
  PROVE  Typed'
BY MoveTyped DEF Begin, Counted, ApprovalAssumption, Typed, TypeOK

LEMMA StartsTyped ==
  ASSUME ApprovalAssumption, Typed, NEW h \in Handlers, Starts(h)
  PROVE  Typed'
<1>1. Idle \in Request /\ Idle.id = 0
  BY IdleTyped DEF Idle
<1>2. DOMAIN referees \subseteq 0..MaxReferees /\ \A link \in invited : link[1] \in DOMAIN referees
  BY DEF Typed, TypeOK, IdsOK, ApprovalAssumption
<1>3. ASSUME NEW docs \in SUBSET Docs, NEW named \in SUBSET Names, NEW cleared \in SUBSET Docs,
             RequestUpdationApproval(h, docs, cleared, named)
      PROVE  Typed'
  <2> DEFINE r == [Idle EXCEPT !.op = "request", !.docs = docs, !.cleared = cleared, !.named = named,
                               !.pc = IF named # {} THEN "names" ELSE "documents"]
  <2>1. r \in Request /\ ~HoldsId(r) /\ ~HoldsEmail(r)
    BY <1>1 DEF Request, HoldsId, HoldsEmail
  <2> QED
    BY <1>3, <2>1, BeginTyped DEF RequestUpdationApproval
<1>4. ASSUME NEW status \in Decisions, UpdateStatusPlain(h, status)
      PROVE  Typed'
  <2> DEFINE r == [Idle EXCEPT !.op = "plainJudge", !.pc = "read", !.status = status]
  <2>1. r \in Request /\ ~HoldsId(r) /\ ~HoldsEmail(r)
    BY <1>1 DEF Request, HoldsId, HoldsEmail, ApprovalAssumption
  <2> QED
    BY <1>4, <2>1, BeginTyped DEF UpdateStatusPlain
<1>5. ASSUME NEW status \in Decisions, NEW named \in SUBSET Names,
             UpdateDocumentStatus(h, status, named)
      PROVE  Typed'
  <2> DEFINE name == [n \in Names |-> IF status = "APPROVED" /\ n \in named THEN names.asked[n] ELSE 0]
             r == [Idle EXCEPT !.op = "judge", !.pc = "read", !.status = status, !.name = name]
  <2>1. name \in Numbers
    BY DEF Typed, TypeOK, ApprovalAssumption, Numbers
  <2>2. Begin(h, r)
    BY <1>5 DEF UpdateDocumentStatus
  <2> HIDE DEF name
  <2>3. r \in Request /\ ~HoldsId(r) /\ ~HoldsEmail(r)
    BY <1>1, <2>1 DEF Request, HoldsId, HoldsEmail, ApprovalAssumption
  <2> QED
    BY <2>2, <2>3, BeginTyped
<1>6. CASE CreateQualification(h)
  <2> DEFINE r == [Idle EXCEPT !.op = "qualify", !.pc = "insert"]
  <2>1. r \in Request /\ ~HoldsId(r) /\ ~HoldsEmail(r)
    BY <1>1 DEF Request, HoldsId, HoldsEmail
  <2> QED
    BY <1>6, <2>1, BeginTyped DEF CreateQualification
<1>7. CASE \E email \in Emails : CreateReferee(h, email)
  <2>1. PICK email \in Emails : CreateReferee(h, email)
    BY <1>7
  <2> DEFINE r == [Idle EXCEPT !.op = "invite", !.pc = "look", !.email = email]
  <2>2. r \in Request /\ ~HoldsId(r) /\ r.email \in Emails
    BY <1>1 DEF Request, HoldsId
  <2> QED
    BY <2>1, <2>2, BeginTyped DEF CreateReferee
<1>8. CASE \E email \in Emails : \E id \in DOMAIN referees : ChangeReferee(h, id, email)
  <2>1. PICK email \in Emails, id \in DOMAIN referees : ChangeReferee(h, id, email)
    BY <1>8
  <2>2. PICK known \in BOOLEAN : known = (referees[id].email = email)
    <3> WITNESS (referees[id].email = email) \in BOOLEAN
    <3> QED
      OBVIOUS
  <2> DEFINE r == [Idle EXCEPT !.op = "change", !.pc = "update", !.id = id, !.email = email,
                               !.known = known]
  <2>3. r \in Request /\ r.id \in DOMAIN referees /\ r.email \in Emails
    BY <1>1, <1>2 DEF Request
  <2>4. Begin(h, r)
    BY <2>1, <2>2, Zenon DEF ChangeReferee
  <2> QED
    BY <2>3, <2>4, BeginTyped
<1>9. CASE \E link \in invited : AddRefereeReview(h, link[1])
  <2>1. PICK link \in invited : AddRefereeReview(h, link[1])
    BY <1>9
  <2> DEFINE r == [Idle EXCEPT !.op = "review", !.pc = "look", !.id = link[1]]
  <2>2. r \in Request /\ r.id \in DOMAIN referees /\ ~HoldsEmail(r)
    BY <1>1, <1>2 DEF Request, HoldsEmail
  <2> QED
    BY <2>1, <2>2, BeginTyped DEF AddRefereeReview
<1> QED
  BY <1>3, <1>4, <1>5, <1>6, <1>7, <1>8, <1>9 DEF Starts

\* A step of the tutor's rows that sets no request.
LEMMA RowsTyped ==
  ASSUME Typed, UNCHANGED <<refereeRows, request>>,
         documents' \in Documents, flags' \in [FlagNames -> Approval],
         names' \in [now : Numbers, asked : Numbers], qualified' \in BOOLEAN,
         latest' \in Urls, asked' \in Numbers, crossed' \subseteq Docs \cup Names,
         lowered' \subseteq FlagNames, bypassed' \in BOOLEAN, broken' \in BOOLEAN,
         uploads' \in 0..MaxUploads, requests' \in 0..MaxRequests, faults' \in 0..MaxFaults
  PROVE  Typed'
BY DEF Typed, TypeOK, IdsOK, refereeRows, HoldsId, HoldsEmail

\* What an upload of number n makes of the documents.
Sent(was, docs, cleared, n) ==
  [d \in Docs |-> IF d \in docs THEN n ELSE IF d \in cleared THEN 0 ELSE was[d]]
UploadedAs(docs, cleared, status, n) ==
  /\ uploads' = n
  /\ documents' = [documents EXCEPT !.there = TRUE, !.status = status,
                                    !.pending = Sent(documents.pending, docs, cleared, n)]
  /\ latest' = Sent(latest, docs, cleared, n)
  /\ crossed' = IF Approving # {} THEN crossed \cup docs ELSE crossed \ docs

LEMMA UploadFields ==
  ASSUME ApprovalAssumption, Typed, NEW docs \in SUBSET Docs, NEW cleared, NEW status,
         Upload(docs, cleared, status)
  PROVE  \E n \in 0..MaxUploads : UploadedAs(docs, cleared, status, n)
<1>1. uploads' \in 0..MaxUploads
  BY DEF Upload, Typed, TypeOK, ApprovalAssumption
<1>2. PICK n \in 0..MaxUploads : n = uploads'
  BY <1>1
<1>3. UploadedAs(docs, cleared, status, n)
  BY <1>2 DEF Upload, UploadedAs, Sent
<1> QED
  BY <1>3

LEMMA SentTyped ==
  ASSUME ApprovalAssumption, NEW was \in Urls, NEW docs, NEW cleared, NEW n \in 0..MaxUploads
  PROVE  Sent(was, docs, cleared, n) \in Urls
BY DEF Sent, Urls, ApprovalAssumption

LEMMA UploadTyped ==
  ASSUME ApprovalAssumption, Typed, NEW docs \in SUBSET Docs, NEW cleared \in SUBSET Docs,
         NEW status \in Approval, Upload(docs, cleared, status)
  PROVE  /\ uploads' \in 0..MaxUploads /\ documents' \in Documents
         /\ latest' \in Urls /\ crossed' \subseteq Docs \cup Names
<1>1. PICK n \in 0..MaxUploads : UploadedAs(docs, cleared, status, n)
  BY UploadFields
<1>2. documents \in Documents /\ documents.pending \in Urls /\ latest \in Urls
  BY DEF Typed, TypeOK, Documents
<1>3. /\ Sent(documents.pending, docs, cleared, n) \in Urls
      /\ Sent(latest, docs, cleared, n) \in Urls
  BY <1>2, SentTyped
<1>4. documents' \in Documents
  BY <1>1, <1>2, <1>3 DEF UploadedAs, Documents
<1> QED
  BY <1>1, <1>3, <1>4 DEF UploadedAs, Typed, TypeOK

\* Whoever writes the approval columns, and whatever the body says.
LEMMA FlagsWritten ==
  ASSUME ApprovalAssumption, NEW body \in Bodies,
         UpdateTutorDetail(body) \/ \E confirmed \in BOOLEAN : UpdateTutor(body, confirmed)
  PROVE  \E columns \in Columns : WriteFlags(columns)
<1>1. body \in Columns
  BY DEF ApprovalAssumption
<1>2. CASE UpdateTutorDetail(body)
  BY <1>1, <1>2 DEF UpdateTutorDetail
<1>3. ASSUME NEW confirmed \in BOOLEAN, UpdateTutor(body, confirmed)
      PROVE  \E columns \in Columns : WriteFlags(columns)
  <2>1. PICK value \in Approval : WriteFlags([body EXCEPT !["account"] = value])
    BY <1>3 DEF UpdateTutor, Approval
  <2>2. [body EXCEPT !["account"] = value] \in Columns
    BY <1>1 DEF Columns
  <2> QED
    BY <2>1, <2>2
<1> QED
  BY <1>2, <1>3

LEMMA FlagsTyped ==
  ASSUME ApprovalAssumption, Typed, NEW columns \in Columns, WriteFlags(columns)
  PROVE  Typed'
<1>1. requests' \in 0..MaxRequests
  BY DEF WriteFlags, Counted, Typed, TypeOK, ApprovalAssumption
<1>2. flags' \in [FlagNames -> Approval] /\ lowered' \subseteq FlagNames
  BY DEF WriteFlags, Columns, Typed, TypeOK
<1> QED
  BY <1>1, <1>2, RowsTyped DEF WriteFlags, Typed, TypeOK

LEMMA DocumentsTyped ==
  ASSUME ApprovalAssumption, Typed, NEW docs \in SUBSET Docs,
         CreateDocuments(docs) \/ \E cleared \in SUBSET (Docs \ docs) : UpdateDocuments(docs, cleared)
  PROVE  Typed'
<1>1. PICK cleared \in SUBSET Docs, status \in {"PENDING", "NOT_ADDED"} : Upload(docs, cleared, status)
  BY DEF UpdateDocuments, CreateDocuments
<1>2. /\ uploads' \in 0..MaxUploads /\ documents' \in Documents
      /\ latest' \in Urls /\ crossed' \subseteq Docs \cup Names
  BY <1>1, UploadTyped DEF Approval
<1>3. requests' \in 0..MaxRequests
  BY DEF UpdateDocuments, CreateDocuments, Counted, Typed, TypeOK, ApprovalAssumption
<1>4. UNCHANGED <<flags, names, qualified, refereeRows, request, asked, lowered, bypassed, broken,
                  faults>>
  BY DEF UpdateDocuments, CreateDocuments
<1> QED
  BY <1>2, <1>3, <1>4, RowsTyped DEF Typed, TypeOK

LEMMA RemovalsTyped ==
  ASSUME ApprovalAssumption, Typed, RemoveDocuments \/ RemoveQualification
  PROVE  Typed'
<1>1. requests' \in 0..MaxRequests
  BY DEF RemoveDocuments, RemoveQualification, Counted, Typed, TypeOK, ApprovalAssumption
<1>2. CASE RemoveDocuments
  <2>1. NoDocuments \in Documents /\ NoUrls \in Urls
    BY DEF NoDocuments, Documents, NoUrls, Urls, Approval, ApprovalAssumption
  <2> QED
    BY <1>1, <1>2, <2>1, RowsTyped DEF RemoveDocuments, Typed, TypeOK
<1>3. CASE RemoveQualification
  BY <1>1, <1>3, RowsTyped DEF RemoveQualification, Typed, TypeOK, history
<1> QED
  BY <1>2, <1>3

\* What is read of the documents, and what a decision makes of them.
LEMMA DecidedTyped ==
  ASSUME ApprovalAssumption, Typed, NEW r \in Request
  PROVE  Decided(r) \in Documents
<1> DEFINE P == [d \in Docs |-> IF r.status = "APPROVED" /\ r.seen[d] # 0 THEN 0 ELSE documents.pending[d]]
           A == [d \in Docs |-> IF r.status = "APPROVED" /\ r.seen[d] # 0 THEN r.seen[d]
                                ELSE documents.approved[d]]
<1>1. documents \in Documents /\ r.seen \in Urls /\ r.status \in Approval
  BY DEF Typed, TypeOK, Request
<1>2. 0 \in 0..MaxUploads
  BY DEF ApprovalAssumption
<1>3. P \in Urls /\ A \in Urls
  BY <1>1, <1>2 DEF Documents, Urls
<1>4. Decided(r) = [documents EXCEPT !.status = r.status, !.pending = P, !.approved = A]
  BY <1>1 DEF Decided, Documents
<1> HIDE DEF P, A
<1> QED
  BY <1>1, <1>3, <1>4 DEF Documents

LEMMA DocumentStepsTyped ==
  ASSUME ApprovalAssumption, Typed, NEW h \in Handlers,
         \/ WriteRequestedName(h) \/ WriteRequestedDocuments(h) \/ ReadDocuments(h)
         \/ WriteDecision(h) \/ CheckApproved(h) \/ RaiseGovernment(h) \/ Rename(h)
  PROVE  Typed'
<1> DEFINE p == request[h]
<1>1. p \in Request /\ Idle \in Request /\ ~HoldsId(Idle) /\ ~HoldsEmail(Idle)
  BY IdleTyped DEF Typed, TypeOK
<1>2. \/ AfterFlag(p) \in Request /\ ~HoldsId(AfterFlag(p)) /\ ~HoldsEmail(AfterFlag(p))
      \/ p.op # "judge"
  BY <1>1 DEF AfterFlag, Request, HoldsId, HoldsEmail
<1>3. CASE WriteRequestedName(h)
  <2> DEFINE r == [p EXCEPT !.pc = "documents", !.named = {}]
             sent(was) == [n \in Names |-> IF n \in p.named THEN uploads + 1 ELSE was[n]]
  <2>1. r \in Request /\ ~HoldsId(r) /\ ~HoldsEmail(r)
    BY <1>1, <1>3 DEF WriteRequestedName, At, Request, HoldsId, HoldsEmail
  <2>2. uploads + 1 \in 0..MaxUploads /\ p.named \subseteq Names
    BY <1>1, <1>3 DEF WriteRequestedName, Typed, TypeOK, ApprovalAssumption, Request
  <2>3. /\ names \in [now : Numbers, asked : Numbers] /\ asked \in Numbers
        /\ names' = [names EXCEPT !.asked = sent(names.asked)] /\ asked' = sent(asked)
    BY <1>3 DEF WriteRequestedName, Typed, TypeOK
  <2>4. sent(names.asked) \in Numbers /\ sent(asked) \in Numbers
    BY <2>2, <2>3 DEF Numbers
  <2>5. names' \in [now : Numbers, asked : Numbers] /\ asked' \in Numbers
    <3> HIDE DEF sent
    <3> QED
      BY <2>3, <2>4
  <2>6. crossed' \subseteq Docs \cup Names
    BY <1>3, <2>2 DEF WriteRequestedName, Typed, TypeOK
  <2> QED
    BY <1>3, <2>1, <2>2, <2>5, <2>6, SetTyped DEF WriteRequestedName, Typed, TypeOK
<1>4. CASE WriteRequestedDocuments(h)
  <2>1. /\ uploads' \in 0..MaxUploads /\ documents' \in Documents
        /\ latest' \in Urls /\ crossed' \subseteq Docs \cup Names
    BY <1>1, <1>4, UploadTyped DEF WriteRequestedDocuments, Request, Approval
  <2> QED
    BY <1>1, <1>4, <2>1, SetTyped DEF WriteRequestedDocuments, Settle, Typed, TypeOK
<1>5. CASE ReadDocuments(h)
  <2> DEFINE r == [p EXCEPT !.pc = "write", !.seen = documents.pending]
  <2>1. r \in Request /\ ~HoldsId(r) /\ ~HoldsEmail(r)
    BY <1>1, <1>5 DEF ReadDocuments, Request, HoldsId, HoldsEmail, Typed, TypeOK, Documents
  <2> QED
    BY <1>1, <1>5, <2>1, MoveTyped DEF ReadDocuments, Settle, Typed, TypeOK, bounds
<1>6. CASE WriteDecision(h)
  <2> DEFINE r == [p EXCEPT !.pc = "check"]
  <2>1. r \in Request /\ ~HoldsId(r) /\ ~HoldsEmail(r)
    BY <1>1 DEF Request, HoldsId, HoldsEmail
  <2>2. documents' \in Documents
    BY <1>1, <1>6, DecidedTyped DEF WriteDecision, Typed, TypeOK
  <2>3. bypassed' \in BOOLEAN
    BY <1>6 DEF WriteDecision, Typed, TypeOK
  <2> QED
    BY <1>1, <1>6, <2>1, <2>2, <2>3, SetTyped DEF WriteDecision, Goto, Settle, Typed, TypeOK, bounds
<1>7. CASE CheckApproved(h)
  <2> DEFINE r == [p EXCEPT !.pc = "flag"]
  <2>1. r \in Request /\ ~HoldsId(r) /\ ~HoldsEmail(r)
    BY <1>1, <1>7 DEF CheckApproved, At, Request, HoldsId, HoldsEmail
  <2> QED
    BY <1>1, <1>2, <1>7, <2>1, MoveTyped DEF CheckApproved, At, Goto, Settle, Typed, TypeOK, bounds
<1>8. CASE RaiseGovernment(h)
  <2>1. flags' \in [FlagNames -> Approval] /\ lowered' \subseteq FlagNames
    BY <1>8 DEF RaiseGovernment, RaiseFlag, Typed, TypeOK, Approval
  <2> QED
    BY <1>1, <1>2, <1>8, <2>1, SetTyped DEF RaiseGovernment, At, Typed, TypeOK, bounds
<1>9. CASE Rename(h)
  <2> DEFINE now == [n \in Names |-> IF p.name[n] # 0 THEN p.name[n] ELSE names.now[n]]
             asks == [n \in Names |-> IF p.name[n] # 0 THEN 0 ELSE names.asked[n]]
  <2>1. p.name \in Numbers /\ names.now \in Numbers /\ names.asked \in Numbers
    BY <1>1 DEF Request, Typed, TypeOK
  <2>2. now \in Numbers /\ asks \in Numbers
    BY <2>1 DEF Numbers, ApprovalAssumption
  <2>3. names' = [now |-> now, asked |-> asks]
    BY <1>9 DEF Rename
  <2>4. names' \in [now : Numbers, asked : Numbers]
    <3> HIDE DEF now, asks
    <3> QED
      BY <2>2, <2>3
  <2> QED
    BY <1>1, <1>9, <2>4, SetTyped DEF Rename, Settle, Typed, TypeOK, history, bounds
<1> QED
  BY <1>3, <1>4, <1>5, <1>6, <1>7, <1>8, <1>9

\* A step that sets one request and the referees: ids that are held stay valid.
LEMMA RefereesTyped ==
  ASSUME Typed, NEW h \in Handlers, NEW r \in Request, Set(h, r),
         referees' \in Seq(Referee), Len(referees') <= MaxReferees,
         DOMAIN referees \subseteq DOMAIN referees', UNCHANGED invited,
         HoldsId(r) => r.id \in DOMAIN referees', HoldsEmail(r) => r.email \in Emails,
         UNCHANGED <<tutorRows, history, bounds>>
  PROVE  Typed'
<1>1. /\ request' \in [Handlers -> Request] /\ request'[h] = r
      /\ \A g \in Handlers \ {h} : request'[g] = request[g]
  BY DEF Set, Typed, TypeOK
<1>2. TypeOK'
  BY <1>1 DEF Typed, TypeOK, tutorRows, history, bounds
<1>3. IdsOK'
  BY <1>1 DEF Typed, IdsOK, HoldsId, HoldsEmail
<1> QED
  BY <1>2, <1>3 DEF Typed

\* The row of a referee that a request holds.
LEMMA RefereeWritten ==
  ASSUME Typed, NEW i \in DOMAIN referees, NEW row \in Referee,
         referees' = [referees EXCEPT ![i] = row]
  PROVE  /\ referees' \in Seq(Referee) /\ Len(referees') = Len(referees)
         /\ DOMAIN referees' = DOMAIN referees
         /\ referees'[i] = row
         /\ \A j \in DOMAIN referees \ {i} : referees'[j] = referees[j]
<1>1. referees \in Seq(Referee) /\ i \in 1..Len(referees)
  BY DEF Typed, TypeOK
<1> QED
  BY <1>1, ExceptSeq

LEMMA RefereeStepsTyped ==
  ASSUME ApprovalAssumption, Typed, NEW h \in Handlers,
         \/ InsertQualification(h) \/ LookForReferee(h) \/ InsertReferee(h) \/ MailLink(h)
         \/ UpdateReferee(h) \/ LookForReview(h) \/ StoreReview(h) \/ Notice(h)
  PROVE  Typed'
<1> DEFINE p == request[h]
<1>1. p \in Request /\ Idle \in Request /\ ~HoldsId(Idle) /\ ~HoldsEmail(Idle)
  BY IdleTyped DEF Typed, TypeOK
<1>2. /\ referees \in Seq(Referee) /\ Len(referees) <= MaxReferees
      /\ HoldsId(p) => p.id \in DOMAIN referees
      /\ HoldsEmail(p) => p.email \in Emails
      /\ MaxReferees \in Nat
  BY DEF Typed, TypeOK, IdsOK, ApprovalAssumption
<1>3. CASE InsertQualification(h)
  <2> DEFINE r == [p EXCEPT !.pc = "notice"]
  <2>1. r \in Request /\ ~HoldsId(r) /\ ~HoldsEmail(r)
    BY <1>1, <1>3 DEF InsertQualification, At, Request, HoldsId, HoldsEmail
  <2> QED
    BY <1>3, <2>1, SetTyped DEF InsertQualification, Goto, Typed, TypeOK, history, bounds
<1>4. CASE LookForReferee(h)
  <2> DEFINE r == [p EXCEPT !.pc = "insert"]
  <2>1. r \in Request /\ ~HoldsId(r) /\ r.email \in Emails
    BY <1>1, <1>2, <1>4 DEF LookForReferee, At, Request, HoldsId, HoldsEmail
  <2> QED
    BY <1>1, <1>4, <2>1, MoveTyped DEF LookForReferee, Goto, Settle, Typed, TypeOK, bounds
<1>5. CASE InsertReferee(h)
  <2> DEFINE n == Len(referees) + 1
             row == [email |-> p.email, there |-> TRUE, review |-> FALSE]
             r == [p EXCEPT !.pc = "invite", !.id = n]
  <2>1. p.email \in Emails /\ n \in 1..MaxReferees /\ n \in 0..MaxReferees
    BY <1>1, <1>2, <1>5 DEF InsertReferee, At, HoldsEmail
  <2>2. row \in Referee
    BY <2>1 DEF Referee
  <2>3. CASE Listed(p.email) # {}
    BY <1>1, <1>2, <1>5, <2>3, RefereesTyped DEF InsertReferee, Settle, tutorRows
  <2>4. CASE Listed(p.email) = {}
    <3>1. referees' = Append(referees, row) /\ Set(h, r)
      BY <1>5, <2>4 DEF InsertReferee
    <3>2. r \in Request /\ r.id = n /\ r.email = p.email
      <4> HIDE DEF n, p
      <4> QED
        BY <1>1, <2>1 DEF Request
    <3>3. /\ referees' \in Seq(Referee) /\ Len(referees') <= MaxReferees
          /\ DOMAIN referees \subseteq DOMAIN referees' /\ n \in DOMAIN referees'
      <4> HIDE DEF row
      <4> QED
        BY <1>2, <2>1, <2>2, <3>1
    <3> HIDE DEF r, n
    <3> QED
      BY <1>5, <2>1, <3>1, <3>2, <3>3, RefereesTyped DEF InsertReferee
  <2> QED
    BY <2>3, <2>4
<1>6. CASE MailLink(h)
  <2>1. p.id \in DOMAIN referees /\ p.email \in Emails
    BY <1>2, <1>6 DEF MailLink, HoldsId, HoldsEmail
  <2>2. request' \in [Handlers -> Request] /\ request'[h] = Idle
        /\ \A g \in Handlers \ {h} : request'[g] = request[g]
    BY <1>1, <1>6 DEF MailLink, Settle, Set, Typed, TypeOK
  <2>3. /\ invited' \subseteq (1..MaxReferees) \X Emails
        /\ \A link \in invited' : link[1] \in DOMAIN referees
    BY <1>2, <1>6, <2>1 DEF MailLink, Invitation, Typed, TypeOK, IdsOK
  <2>4. TypeOK'
    BY <1>6, <2>2, <2>3 DEF MailLink, Typed, TypeOK, tutorRows, history, bounds
  <2>5. IdsOK'
    BY <1>1, <1>6, <2>2, <2>3 DEF MailLink, Typed, IdsOK, HoldsId, HoldsEmail
  <2> QED
    BY <2>4, <2>5 DEF Typed
<1>7. CASE UpdateReferee(h)
  <2> DEFINE row == [referees[p.id] EXCEPT !.email = p.email]
             r == [p EXCEPT !.pc = "invite"]
  <2>1. p.id \in DOMAIN referees /\ p.email \in Emails
    BY <1>2, <1>7 DEF UpdateReferee, At, HoldsId, HoldsEmail
  <2>2. row \in Referee
    <3>1. referees[p.id] \in Referee
      BY <1>2, <2>1
    <3> QED
      BY <2>1, <3>1 DEF Referee
  <2>3. r \in Request /\ r.id = p.id /\ r.email = p.email
    BY <1>1 DEF Request
  <2>4. UNCHANGED referees \/ referees' = [referees EXCEPT ![p.id] = row]
    BY <1>7 DEF UpdateReferee
  <2>5. referees' \in Seq(Referee) /\ Len(referees') = Len(referees)
        /\ DOMAIN referees' = DOMAIN referees
    BY <1>2, <2>1, <2>2, <2>4, RefereeWritten
  <2>6. Set(h, Idle) \/ Set(h, r)
    BY <1>7 DEF UpdateReferee, Settle, Goto
  <2> HIDE DEF r, row
  <2> QED
    BY <1>1, <1>2, <1>7, <2>1, <2>3, <2>5, <2>6, RefereesTyped DEF UpdateReferee
<1>8. CASE LookForReview(h)
  <2>1. p.id \in DOMAIN referees
    BY <1>2, <1>8 DEF LookForReview, At, HoldsId
  <2>2. referees[p.id].review \in BOOLEAN
    <3>1. referees[p.id] \in Referee
      BY <1>2, <2>1
    <3> QED
      BY <3>1 DEF Referee
  <2> DEFINE r == [p EXCEPT !.pc = "store", !.known = referees[p.id].review]
  <2>3. r \in Request /\ r.id = p.id /\ ~HoldsEmail(r)
    BY <1>1, <1>8, <2>2 DEF LookForReview, At, Request, HoldsEmail
  <2> QED
    BY <1>8, <2>1, <2>3, MoveTyped DEF LookForReview, Typed, TypeOK, bounds
<1>9. CASE StoreReview(h)
  <2> DEFINE row == [referees[p.id] EXCEPT !.review = TRUE]
             r == [p EXCEPT !.pc = "notice"]
  <2>1. p.id \in DOMAIN referees
    BY <1>2, <1>9 DEF StoreReview, At, HoldsId
  <2>2. row \in Referee
    <3>1. referees[p.id] \in Referee
      BY <1>2, <2>1
    <3> QED
      BY <3>1 DEF Referee
  <2>3. r \in Request /\ r.id = p.id /\ ~HoldsEmail(r)
    BY <1>1, <1>9 DEF StoreReview, At, Request, HoldsEmail
  <2>4. UNCHANGED referees \/ referees' = [referees EXCEPT ![p.id] = row]
    BY <1>9 DEF StoreReview
  <2>5. referees' \in Seq(Referee) /\ Len(referees') = Len(referees)
        /\ DOMAIN referees' = DOMAIN referees
    BY <1>2, <2>1, <2>2, <2>4, RefereeWritten
  <2>6. Set(h, Idle) \/ Set(h, r)
    BY <1>9 DEF StoreReview, Settle, Goto
  <2> HIDE DEF r, row
  <2> QED
    BY <1>1, <1>2, <1>9, <2>1, <2>3, <2>5, <2>6, RefereesTyped DEF StoreReview
<1>10. CASE Notice(h)
  <2>1. flags' \in [FlagNames -> Approval] /\ lowered' \subseteq FlagNames
    BY <1>10 DEF Notice, RaiseFlag, Typed, TypeOK, Approval
  <2> QED
    BY <1>1, <1>10, <2>1, SetTyped DEF Notice, Settle, Typed, TypeOK, bounds
<1> QED
  BY <1>3, <1>4, <1>5, <1>6, <1>7, <1>8, <1>9, <1>10

LEMMA RemovalTyped ==
  ASSUME ApprovalAssumption, Typed, NEW i \in DOMAIN referees, RemoveReferee(i)
  PROVE  Typed'
<1> DEFINE row == [[referees[i] EXCEPT !.there = FALSE] EXCEPT !.review = FALSE]
<1>1. referees[i] \in Referee
  BY DEF Typed, TypeOK
<1>2. row \in Referee
  BY <1>1 DEF Referee
<1>3. referees' = [referees EXCEPT ![i] = row]
  BY <1>1 DEF RemoveReferee, Typed, TypeOK
<1>4. /\ referees' \in Seq(Referee) /\ Len(referees') = Len(referees)
      /\ DOMAIN referees' = DOMAIN referees
  BY <1>2, <1>3, RefereeWritten
<1>5. requests' \in 0..MaxRequests
  BY DEF RemoveReferee, Counted, Typed, TypeOK, ApprovalAssumption
<1>6. TypeOK'
  BY <1>4, <1>5 DEF RemoveReferee, Typed, TypeOK, tutorRows, history
<1>7. IdsOK'
  BY <1>4 DEF RemoveReferee, Typed, IdsOK, HoldsId, HoldsEmail
<1> QED
  BY <1>6, <1>7 DEF Typed

LEMMA AtOnceTyped ==
  ASSUME ApprovalAssumption, Typed, AtOnce
  PROVE  Typed'
<1>1. CASE \E docs \in SUBSET Docs :
             CreateDocuments(docs) \/ \E cleared \in SUBSET (Docs \ docs) : UpdateDocuments(docs, cleared)
  BY <1>1, DocumentsTyped
<1>2. CASE RemoveDocuments \/ RemoveQualification
  BY <1>2, RemovalsTyped
<1>3. CASE \E body \in Bodies :
             UpdateTutorDetail(body) \/ \E confirmed \in BOOLEAN : UpdateTutor(body, confirmed)
  BY <1>3, FlagsWritten, FlagsTyped
<1>4. CASE \E id \in DOMAIN referees : RemoveReferee(id)
  BY <1>4, RemovalTyped
<1> QED
  BY <1>1, <1>2, <1>3, <1>4 DEF AtOnce

LEMMA FaultsTyped ==
  ASSUME ApprovalAssumption, Typed,
         Restart \/ \E h \in Handlers : CallFails(h)
  PROVE  Typed'
<1>1. Idle \in Request /\ ~HoldsId(Idle) /\ ~HoldsEmail(Idle)
  BY IdleTyped
<1>2. faults' \in 0..MaxFaults /\ broken' \in BOOLEAN
  <2>1. broken' = TRUE /\ faults < MaxFaults /\ faults' = faults + 1
    BY Zenon DEF Restart, CallFails
  <2>2. broken' \in BOOLEAN
    BY <2>1, Zenon
  <2> QED
    BY <2>1, <2>2 DEF Typed, TypeOK, ApprovalAssumption
<1>3. /\ request' \in [Handlers -> Request]
      /\ \A g \in Handlers : request'[g] \in {request[g], Idle}
  BY <1>1 DEF Restart, CallFails, Settle, Set, Typed, TypeOK
<1>4. TypeOK'
  BY <1>2, <1>3 DEF Restart, CallFails, Typed, TypeOK, tutorRows, refereeRows
<1>5. IdsOK'
  BY <1>1, <1>3 DEF Restart, CallFails, Typed, IdsOK, refereeRows, HoldsId, HoldsEmail
<1> QED
  BY <1>4, <1>5 DEF Typed

LEMMA NextTyped ==
  ASSUME ApprovalAssumption, Typed, [Next]_vars
  PROVE  Typed'
<1>1. CASE AtOnce
  BY <1>1, AtOnceTyped
<1>2. ASSUME NEW h \in Handlers, Starts(h) \/ Continue(h)
      PROVE  Typed'
  BY <1>2, StartsTyped, DocumentStepsTyped, RefereeStepsTyped DEF Continue
<1>3. CASE Restart \/ \E h \in Handlers : CallFails(h)
  BY <1>3, FaultsTyped
<1>4. CASE UNCHANGED vars
  BY <1>4 DEF vars, tutorRows, refereeRows, history, bounds, Typed, TypeOK, IdsOK, HoldsId, HoldsEmail
<1> QED
  BY <1>1, <1>2, <1>3, <1>4 DEF Next

LEMMA InitTyped ==
  ASSUME ApprovalAssumption, Init
  PROVE  Typed
<1>1. Idle \in Request /\ ~HoldsId(Idle) /\ ~HoldsEmail(Idle)
  BY IdleTyped
<1>2. /\ request \in [Handlers -> Request] /\ \A g \in Handlers : request[g] = Idle
      /\ referees = <<>> /\ invited = {}
  BY <1>1 DEF Init
<1>3. /\ NoUrls \in Urls /\ NoNumbers \in Numbers
      /\ 0 \in 0..MaxUploads /\ 0 \in 0..MaxRequests /\ 0 \in 0..MaxFaults
  BY DEF ApprovalAssumption, NoUrls, Urls, NoNumbers, Numbers
<1>4. documents \in Documents
  BY <1>3 DEF Init, NoDocuments, Documents, Approval
<1>5. flags \in [FlagNames -> Approval]
  BY DEF Init, Approval
<1>6. referees \in Seq(Referee) /\ Len(referees) = 0
  BY <1>2
<1>7. TypeOK
  BY <1>2, <1>3, <1>4, <1>5, <1>6 DEF Init, TypeOK
<1>8. IdsOK
  BY <1>1, <1>2, <1>6 DEF IdsOK, ApprovalAssumption
<1> QED
  BY <1>7, <1>8 DEF Typed

-----------------------------------------------------------------------------
(* What was submitted stands                                               *)

(***************************************************************************)
(* UploadStands and NameStands are not inductive: a decision writes what   *)
(* it read.  Of a document that is not crossed, every approval under way   *)
(* has read the last upload, unless that is approved already, and every    *)
(* decision on a part of the name has the last one that was asked for.     *)
(***************************************************************************)
DocsStand ==
  /\ UploadStands
  /\ \A d \in Docs \ crossed : latest[d] # 0 =>
       /\ documents.pending[d] \in {0, latest[d]}
       /\ \A h \in Approving :
            /\ request[h].seen[d] \in {0, latest[d]}
            /\ request[h].seen[d] = latest[d] \/ documents.approved[d] = latest[d]

NamesStand ==
  \A n \in Names \ crossed :
    /\ asked[n] \in {names.now[n], names.asked[n]}
    /\ names.asked[n] \in {0, asked[n]}
    /\ \A h \in Naming(n) : request[h].name[n] = asked[n]

\* What a step does that starts no approval and no decision on a name.
SeenKept == \A g \in Approving' : g \in Approving /\ request'[g].seen = request[g].seen
NameKept ==
  \A n \in Names : \A g \in Naming(n)' : g \in Naming(n) /\ request'[g].name = request[g].name

LEMMA DocsFrame ==
  ASSUME DocsStand, SeenKept, UNCHANGED <<documents, latest>>,
         \A d \in Docs : d \in crossed' <=> d \in crossed
  PROVE  DocsStand'
BY DEF DocsStand, UploadStands, SeenKept

LEMMA NamesFrame ==
  ASSUME NamesStand, NameKept, UNCHANGED <<names, asked>>,
         \A n \in Names : n \in crossed => n \in crossed'
  PROVE  NamesStand'
BY DEF NamesStand, NameKept

LEMMA MovesKeep ==
  ASSUME Typed, NEW h \in Handlers, NEW r \in Request, Set(h, r),
         ~(r.pc = "write" /\ r.status = "APPROVED")
  PROVE  SeenKept
BY DEF SeenKept, Approving, Set, Typed, TypeOK

LEMMA MovesKeepNames ==
  ASSUME Typed, NEW h \in Handlers, NEW r \in Request, Set(h, r),
         r.op = "judge" => request[h].op = "judge" /\ r.name = request[h].name
  PROVE  NameKept
BY DEF NameKept, Naming, Set, Typed, TypeOK

\* A step that sets no request keeps both.
LEMMA StillKept ==
  ASSUME UNCHANGED request
  PROVE  SeenKept /\ NameKept
BY DEF SeenKept, NameKept, Approving, Naming

\* The last upload is pending again; an approval under way is told of by 'crossed'.
LEMMA UploadKeeps ==
  ASSUME ApprovalAssumption, Typed, DocsStand, SeenKept, NEW docs \in SUBSET Docs,
         NEW cleared \in SUBSET Docs, NEW status \in {"PENDING", "NOT_ADDED"},
         Upload(docs, cleared, status)
  PROVE  DocsStand'
<1>1. PICK n \in 0..MaxUploads : UploadedAs(docs, cleared, status, n)
  BY UploadFields
<1>2. documents \in Documents
  BY DEF Typed, TypeOK
<1>3. /\ \A d \in Docs : documents'.pending[d] = IF d \in docs THEN n
                           ELSE IF d \in cleared THEN 0 ELSE documents.pending[d]
      /\ documents'.approved = documents.approved
      /\ documents'.status = status
  BY <1>1, <1>2 DEF UploadedAs, Sent, Documents
<1>4. \A d \in Docs : latest'[d] = IF d \in docs THEN n ELSE IF d \in cleared THEN 0 ELSE latest[d]
  BY <1>1 DEF UploadedAs, Sent
<1> SUFFICES ASSUME NEW d \in Docs, d \notin crossed', latest'[d] # 0
             PROVE  /\ \/ documents'.approved[d] = latest'[d]
                       \/ documents'.pending[d] = latest'[d] /\ documents'.status # "APPROVED"
                    /\ documents'.pending[d] \in {0, latest'[d]}
                    /\ \A h \in Approving' :
                         /\ request'[h].seen[d] \in {0, latest'[d]}
                         /\ request'[h].seen[d] = latest'[d] \/ documents'.approved[d] = latest'[d]
  BY DEF DocsStand, UploadStands
<1>5. CASE d \in docs
  <2>1. Approving = {} /\ Approving' = {}
    BY <1>1, <1>5 DEF UploadedAs, SeenKept
  <2> QED
    BY <1>3, <1>4, <1>5, <2>1
<1>6. CASE d \notin docs
  <2>1. d \notin crossed /\ latest'[d] = latest[d] /\ documents'.pending[d] = documents.pending[d]
    BY <1>1, <1>3, <1>4, <1>6 DEF UploadedAs
  <2> QED
    BY <1>3, <2>1 DEF DocsStand, UploadStands, SeenKept
<1> QED
  BY <1>5, <1>6

LEMMA UploadKeepsNames ==
  ASSUME ApprovalAssumption, NEW docs \in SUBSET Docs, NEW cleared, NEW status,
         Upload(docs, cleared, status), NEW n \in Names, n \in crossed
  PROVE  n \in crossed'
BY DEF Upload, ApprovalAssumption

LEMMA ReadKeeps ==
  ASSUME ApprovalAssumption, Typed, DocsStand, NamesStand, NEW h \in Handlers, ReadDocuments(h)
  PROVE  DocsStand' /\ NamesStand'
<1> DEFINE r == [request[h] EXCEPT !.pc = "write", !.seen = documents.pending]
<1>1. request[h] \in Request /\ Idle \in Request /\ request[h].pc = "read"
  BY IdleTyped DEF ReadDocuments, Typed, TypeOK
<1>2. r \in Request
  BY <1>1 DEF Request, Typed, TypeOK, Documents
<1>3. CASE Settle(h)
  BY <1>1, <1>3, MovesKeep, MovesKeepNames, DocsFrame, NamesFrame
     DEF ReadDocuments, Settle, Idle, tutorRows, history
<1>4. CASE Set(h, r)
  <2>1. NameKept
    BY <1>1, <1>2, <1>4, MovesKeepNames DEF Request
  <2>2. \A g \in Approving' : \/ g = h /\ request'[g].seen = documents.pending
                              \/ g \in Approving /\ request'[g].seen = request[g].seen
    BY <1>1, <1>4 DEF Approving, Set, Typed, TypeOK, Request
  <2>3. DocsStand'
    BY <2>2 DEF ReadDocuments, DocsStand, UploadStands, tutorRows, history
  <2> QED
    BY <2>1, <2>3, NamesFrame DEF ReadDocuments, tutorRows, history
<1> QED
  BY <1>3, <1>4 DEF ReadDocuments

LEMMA DecisionKeeps ==
  ASSUME ApprovalAssumption, Typed, DocsStand, NamesStand, NEW h \in Handlers, WriteDecision(h)
  PROVE  DocsStand' /\ NamesStand'
<1> DEFINE p == request[h]
           r == [p EXCEPT !.pc = "check"]
<1>1. p \in Request /\ Idle \in Request /\ p.pc = "write"
  BY IdleTyped DEF WriteDecision, Typed, TypeOK
<1>2. r \in Request /\ r.pc = "check" /\ r.op = p.op /\ r.name = p.name
  BY <1>1 DEF Request
<1>3. Set(h, Idle) \/ Set(h, r)
  BY DEF WriteDecision, Settle, Goto
<1>4. SeenKept /\ NameKept
  BY <1>1, <1>2, <1>3, MovesKeep, MovesKeepNames DEF Idle
<1>5. CASE UNCHANGED documents
  BY <1>4, <1>5, DocsFrame, NamesFrame DEF WriteDecision
<1>6. CASE documents' = Decided(p)
  <2>1. /\ documents \in Documents /\ p.seen \in Urls
        /\ documents.pending \in Urls /\ documents.approved \in Urls
    BY <1>1 DEF Typed, TypeOK, Request, Documents
  <2>2. /\ documents'.status = p.status
        /\ \A d \in Docs :
             LET moves == p.status = "APPROVED" /\ p.seen[d] # 0
             IN /\ documents'.pending[d] = IF moves THEN 0 ELSE documents.pending[d]
                /\ documents'.approved[d] = IF moves THEN p.seen[d] ELSE documents.approved[d]
    BY <1>6, <2>1 DEF Decided, Documents, Urls
  <2>3. p.status = "APPROVED" => h \in Approving
    BY <1>1 DEF Approving
  <2>4. ASSUME NEW d \in Docs, d \notin crossed, latest[d] # 0
        PROVE  /\ \/ documents'.approved[d] = latest[d]
                  \/ documents'.pending[d] = latest[d] /\ documents'.status # "APPROVED"
               /\ documents'.pending[d] \in {0, latest[d]}
               /\ documents.approved[d] = latest[d] => documents'.approved[d] = latest[d]
    BY <2>2, <2>3, <2>4 DEF DocsStand, UploadStands
  <2>5. DocsStand'
    BY <1>4, <2>4 DEF WriteDecision, DocsStand, UploadStands, SeenKept
  <2> QED
    BY <1>4, <2>5, NamesFrame DEF WriteDecision
<1> QED
  BY <1>5, <1>6 DEF WriteDecision

LEMMA SettleKeeps ==
  ASSUME ApprovalAssumption, Typed, NEW h \in Handlers, Settle(h)
  PROVE  SeenKept /\ NameKept
<1>1. Idle \in Request /\ Idle.pc = "idle" /\ Idle.op = "request"
  BY IdleTyped DEF Idle
<1> QED
  BY <1>1, MovesKeep, MovesKeepNames DEF Settle

LEMMA StepKeeps ==
  ASSUME Typed, NEW h \in Handlers, NEW r \in Request, Set(h, r), r.pc # "write",
         r.op = request[h].op, r.name = request[h].name
  PROVE  SeenKept /\ NameKept
BY MovesKeep, MovesKeepNames

LEMMA GotoKeeps ==
  ASSUME Typed, NEW h \in Handlers,
         NEW pc \in {"flag", "notice", "insert", "invite"}, Goto(h, pc)
  PROVE  SeenKept /\ NameKept
<1> DEFINE r == [request[h] EXCEPT !.pc = pc]
<1>1. request[h] \in Request
  BY DEF Typed, TypeOK
<1>2. r \in Request /\ r.pc # "write" /\ r.op = request[h].op /\ r.name = request[h].name
  BY <1>1 DEF Request
<1> HIDE DEF r
<1> QED
  BY <1>2, StepKeeps DEF Goto, r

LEMMA AfterFlagKeeps ==
  ASSUME ApprovalAssumption, Typed, NEW h \in Handlers, request[h].op = "judge",
         Set(h, AfterFlag(request[h]))
  PROVE  SeenKept /\ NameKept
<1>1. request[h] \in Request
  BY DEF Typed, TypeOK
<1>2. CASE Set(h, Idle)
  BY <1>2, SettleKeeps DEF Settle
<1>3. CASE Set(h, [request[h] EXCEPT !.pc = "rename"])
  BY <1>1, <1>3, StepKeeps DEF Request
<1> QED
  BY <1>2, <1>3 DEF AfterFlag

\* The steps of a request that touch neither documents nor names.
LEMMA OtherStepsKeep ==
  ASSUME ApprovalAssumption, Typed, NEW h \in Handlers,
         \/ CheckApproved(h) \/ RaiseGovernment(h) \/ InsertQualification(h)
         \/ LookForReferee(h) \/ InsertReferee(h) \/ MailLink(h) \/ UpdateReferee(h)
         \/ LookForReview(h) \/ StoreReview(h) \/ Notice(h) \/ CallFails(h)
  PROVE  SeenKept /\ NameKept
<1> DEFINE p == request[h]
<1>1. p \in Request
  BY DEF Typed, TypeOK
<1>2. CASE CheckApproved(h)
  BY <1>2, SettleKeeps, GotoKeeps, AfterFlagKeeps DEF CheckApproved, At
<1>3. CASE RaiseGovernment(h)
  BY <1>3, AfterFlagKeeps DEF RaiseGovernment, At
<1>4. CASE InsertQualification(h)
  BY <1>4, GotoKeeps DEF InsertQualification
<1>5. CASE LookForReferee(h)
  BY <1>5, SettleKeeps, GotoKeeps DEF LookForReferee
<1>6. CASE InsertReferee(h)
  <2> DEFINE n == Len(referees) + 1
             r == [p EXCEPT !.pc = "invite", !.id = n]
  <2>1. Settle(h) \/ (Set(h, r) /\ n \in 0..MaxReferees)
    BY <1>6 DEF InsertReferee, Typed, TypeOK, ApprovalAssumption
  <2>2. ASSUME n \in 0..MaxReferees
        PROVE  r \in Request /\ r.pc # "write" /\ r.op = p.op /\ r.name = p.name
    <3> HIDE DEF n, p
    <3> QED
      BY <1>1, <2>2 DEF Request
  <2> HIDE DEF r, n
  <2> QED
    BY <2>1, <2>2, SettleKeeps, StepKeeps
<1>7. CASE UpdateReferee(h)
  BY <1>7, SettleKeeps, GotoKeeps DEF UpdateReferee
<1>8. CASE LookForReview(h)
  <2> DEFINE r == [p EXCEPT !.pc = "store", !.known = referees[p.id].review]
  <2>1. p.id \in DOMAIN referees
    BY <1>8 DEF LookForReview, At, HoldsId, Typed, IdsOK
  <2>2. referees[p.id] \in Referee
    BY <2>1 DEF Typed, TypeOK
  <2>3. r \in Request /\ r.pc # "write" /\ r.op = p.op /\ r.name = p.name
    BY <1>1, <2>2 DEF Referee, Request
  <2> HIDE DEF r
  <2> QED
    BY <1>8, <2>3, StepKeeps DEF LookForReview, r
<1>9. CASE StoreReview(h)
  BY <1>9, SettleKeeps, GotoKeeps DEF StoreReview
<1>10. CASE MailLink(h) \/ Notice(h) \/ CallFails(h)
  BY <1>10, SettleKeeps DEF MailLink, Notice, CallFails
<1> QED
  BY <1>2, <1>3, <1>4, <1>5, <1>6, <1>7, <1>8, <1>9, <1>10

LEMMA RequestStepsStand ==
  ASSUME ApprovalAssumption, Typed, DocsStand, NamesStand, NEW h \in Handlers,
         WriteRequestedName(h) \/ WriteRequestedDocuments(h) \/ Rename(h)
  PROVE  DocsStand' /\ NamesStand'
<1> DEFINE p == request[h]
<1>1. p \in Request
  BY DEF Typed, TypeOK
<1>2. CASE WriteRequestedName(h)
  <2> DEFINE r == [p EXCEPT !.pc = "documents", !.named = {}]
  <2>1. r \in Request /\ r.pc # "write" /\ r.op = p.op /\ r.name = p.name
    BY <1>1 DEF Request
  <2>2. SeenKept /\ NameKept
    <3> HIDE DEF r
    <3> QED
      BY <1>2, <2>1, StepKeeps DEF WriteRequestedName, r
  <2>3. /\ p.named \subseteq Names /\ UNCHANGED <<documents, latest>>
        /\ crossed' = (crossed \ p.named) \cup {n \in p.named : Naming(n) # {}}
    BY <1>1, <1>2 DEF WriteRequestedName, Request
  <2>4. \A d \in Docs : d \in crossed' <=> d \in crossed
    BY <2>3 DEF ApprovalAssumption
  <2>5. /\ names'.now = names.now
        /\ \A n \in Names : /\ n \in p.named => names'.asked[n] = asked'[n]
                            /\ n \notin p.named => names'.asked[n] = names.asked[n] /\ asked'[n] = asked[n]
    BY <1>2 DEF WriteRequestedName, Typed, TypeOK, Numbers
  <2>6. ASSUME NEW n \in Names \ crossed'
        PROVE  /\ asked'[n] \in {names'.now[n], names'.asked[n]}
               /\ names'.asked[n] \in {0, asked'[n]}
               /\ \A g \in Naming(n)' : request'[g].name[n] = asked'[n]
    <3>1. CASE n \in p.named
      BY <2>2, <2>3, <2>5, <3>1 DEF NameKept
    <3>2. CASE n \notin p.named
      BY <2>2, <2>3, <2>5, <3>2 DEF NamesStand, NameKept
    <3> QED
      BY <3>1, <3>2
  <2> QED
    BY <2>2, <2>3, <2>4, <2>6, DocsFrame DEF NamesStand
<1>3. CASE WriteRequestedDocuments(h)
  <2>1. SeenKept /\ NameKept
    BY <1>3, SettleKeeps DEF WriteRequestedDocuments
  <2>2. p.docs \in SUBSET Docs /\ p.cleared \in SUBSET Docs
    BY <1>1 DEF Request
  <2> QED
    BY <1>3, <2>1, <2>2, UploadKeeps, UploadKeepsNames, NamesFrame DEF WriteRequestedDocuments
<1>4. CASE Rename(h)
  <2>1. SeenKept /\ NameKept
    BY <1>4, SettleKeeps DEF Rename
  <2>2. /\ UNCHANGED <<documents, latest, crossed, asked>>
        /\ \A n \in Names :
             /\ names'.now[n] = IF p.name[n] # 0 THEN p.name[n] ELSE names.now[n]
             /\ names'.asked[n] = IF p.name[n] # 0 THEN 0 ELSE names.asked[n]
    BY <1>4 DEF Rename, history
  <2>3. \A n \in Names : p.name[n] # 0 => h \in Naming(n)
    BY <1>4 DEF Rename, At, Naming
  <2>4. ASSUME NEW n \in Names \ crossed
        PROVE  /\ asked[n] \in {names'.now[n], names'.asked[n]}
               /\ names'.asked[n] \in {0, asked[n]}
               /\ \A g \in Naming(n)' : request'[g].name[n] = asked[n]
    <3>1. \A g \in Naming(n)' : request'[g].name[n] = asked[n]
      BY <2>1 DEF NamesStand, NameKept
    <3>2. p.name[n] # 0 => p.name[n] = asked[n]
      BY <2>3 DEF NamesStand
    <3> QED
      BY <2>2, <3>1, <3>2 DEF NamesStand
  <2> QED
    BY <2>1, <2>2, <2>4, DocsFrame DEF NamesStand
<1> QED
  BY <1>2, <1>3, <1>4

\* A request that begins decides on the name that is asked for now, or on none.
LEMMA BeginStands ==
  ASSUME ApprovalAssumption, Typed, DocsStand, NamesStand, NEW h \in Handlers, NEW r, Begin(h, r),
         r.pc # "write", r.op = "judge" => \A n \in Names : r.name[n] \in {0, names.asked[n]}
  PROVE  DocsStand' /\ NamesStand'
<1>1. /\ request' = [request EXCEPT ![h] = r] /\ request \in [Handlers -> Request]
      /\ UNCHANGED <<documents, names, latest, asked, crossed>>
  BY DEF Begin, Set, Typed, TypeOK, tutorRows, history
<1>2. request'[h] = r /\ \A g \in Handlers \ {h} : request'[g] = request[g]
  BY <1>1
<1>3. SeenKept
  BY <1>2 DEF SeenKept, Approving
<1>4. ASSUME NEW n \in Names \ crossed, NEW g \in Naming(n)'
      PROVE  request'[g].name[n] = asked[n]
  <2>1. CASE g = h
    <3>1. r.op = "judge" /\ r.name[n] # 0
      BY <1>2, <1>4, <2>1 DEF Naming
    <3> QED
      BY <1>2, <2>1, <3>1 DEF NamesStand
  <2>2. CASE g # h
    BY <1>2, <1>4, <2>2 DEF NamesStand, Naming
  <2> QED
    BY <2>1, <2>2
<1>5. NamesStand'
  BY <1>1, <1>4 DEF NamesStand
<1> QED
  BY <1>1, <1>3, <1>5, DocsFrame

LEMMA StartsStand ==
  ASSUME ApprovalAssumption, Typed, DocsStand, NamesStand, NEW h \in Handlers, Starts(h)
  PROVE  DocsStand' /\ NamesStand'
<1>1. ASSUME NEW docs, NEW cleared, NEW named, RequestUpdationApproval(h, docs, cleared, named)
      PROVE  DocsStand' /\ NamesStand'
  <2> DEFINE r == [Idle EXCEPT !.op = "request", !.docs = docs, !.cleared = cleared, !.named = named,
                               !.pc = IF named # {} THEN "names" ELSE "documents"]
  <2>1. r.pc # "write" /\ r.op = "request"
    BY DEF Idle
  <2> QED
    BY <1>1, <2>1, BeginStands DEF RequestUpdationApproval
<1>2. CASE \E status \in Decisions : UpdateStatusPlain(h, status)
  BY <1>2, BeginStands DEF UpdateStatusPlain, Idle
<1>3. ASSUME NEW status, NEW named, UpdateDocumentStatus(h, status, named)
      PROVE  DocsStand' /\ NamesStand'
  <2> DEFINE r == [Idle EXCEPT !.op = "judge", !.pc = "read", !.status = status,
                     !.name = [n \in Names |-> IF status = "APPROVED" /\ n \in named
                                              THEN names.asked[n] ELSE 0]]
  <2>1. r.pc = "read" /\ \A n \in Names : r.name[n] \in {0, names.asked[n]}
    BY DEF Idle
  <2>2. Begin(h, r)
    BY <1>3 DEF UpdateDocumentStatus
  <2> HIDE DEF r
  <2> QED
    BY <2>1, <2>2, BeginStands
<1>4. CASE CreateQualification(h)
  BY <1>4, BeginStands DEF CreateQualification, Idle
<1>5. CASE \E email \in Emails : CreateReferee(h, email)
  BY <1>5, BeginStands DEF CreateReferee, Idle
<1>6. ASSUME NEW email, NEW id, ChangeReferee(h, id, email)
      PROVE  DocsStand' /\ NamesStand'
  <2> DEFINE r == [Idle EXCEPT !.op = "change", !.pc = "update", !.id = id, !.email = email,
                               !.known = referees[id].email = email]
  <2>1. r.pc = "update" /\ r.op = "change"
    BY Zenon DEF Idle
  <2>2. Begin(h, r)
    BY <1>6, Zenon DEF ChangeReferee
  <2> HIDE DEF r
  <2> QED
    BY <2>1, <2>2, BeginStands
<1>7. CASE \E link \in invited : AddRefereeReview(h, link[1])
  BY <1>7, BeginStands DEF AddRefereeReview, Idle
<1> QED
  BY <1>1, <1>2, <1>3, <1>4, <1>5, <1>6, <1>7 DEF Starts

LEMMA AtOnceStand ==
  ASSUME ApprovalAssumption, Typed, DocsStand, NamesStand, AtOnce
  PROVE  DocsStand' /\ NamesStand'
<1>1. ASSUME NEW docs \in SUBSET Docs,
             \/ CreateDocuments(docs)
             \/ \E cleared \in SUBSET (Docs \ docs) : UpdateDocuments(docs, cleared)
      PROVE  DocsStand' /\ NamesStand'
  <2>1. PICK cleared \in SUBSET Docs, status \in {"PENDING", "NOT_ADDED"} : Upload(docs, cleared, status)
    BY <1>1 DEF UpdateDocuments, CreateDocuments
  <2>2. UNCHANGED <<request, names, asked>>
    BY <1>1 DEF UpdateDocuments, CreateDocuments
  <2>3. SeenKept /\ NameKept
    BY <2>2, StillKept
  <2> QED
    BY <2>1, <2>2, <2>3, UploadKeeps, UploadKeepsNames, NamesFrame
<1>2. CASE RemoveDocuments
  <2>1. (\A d \in Docs : latest'[d] = 0) /\ UNCHANGED <<request, names, asked, crossed>>
    BY <1>2 DEF RemoveDocuments, NoUrls
  <2>2. DocsStand'
    BY <2>1 DEF DocsStand, UploadStands
  <2> QED
    BY <2>1, <2>2, StillKept, NamesFrame
<1>3. ASSUME NEW columns, WriteFlags(columns)
      PROVE  DocsStand' /\ NamesStand'
  BY <1>3, StillKept, DocsFrame, NamesFrame DEF WriteFlags
<1>4. CASE RemoveQualification \/ \E id \in DOMAIN referees : RemoveReferee(id)
  BY <1>4, StillKept, DocsFrame, NamesFrame DEF RemoveQualification, RemoveReferee, tutorRows, history
<1> QED
  BY <1>1, <1>2, <1>3, <1>4, FlagsWritten DEF AtOnce

LEMMA ContinueStands ==
  ASSUME ApprovalAssumption, Typed, DocsStand, NamesStand, NEW h \in Handlers,
         Continue(h) \/ CallFails(h)
  PROVE  DocsStand' /\ NamesStand'
<1>1. CASE WriteRequestedName(h) \/ WriteRequestedDocuments(h) \/ Rename(h)
  BY <1>1, RequestStepsStand
<1>2. CASE ReadDocuments(h)
  BY <1>2, ReadKeeps
<1>3. CASE WriteDecision(h)
  BY <1>3, DecisionKeeps
<1>4. CASE \/ CheckApproved(h) \/ RaiseGovernment(h) \/ InsertQualification(h)
           \/ LookForReferee(h) \/ InsertReferee(h) \/ MailLink(h) \/ UpdateReferee(h)
           \/ LookForReview(h) \/ StoreReview(h) \/ Notice(h) \/ CallFails(h)
  <2>1. SeenKept /\ NameKept
    BY <1>4, OtherStepsKeep
  <2>2. UNCHANGED <<documents, names, latest, asked, crossed>>
    BY <1>4 DEF CheckApproved, RaiseGovernment, InsertQualification, LookForReferee, InsertReferee,
                MailLink, UpdateReferee, LookForReview, StoreReview, Notice, CallFails,
                tutorRows, history
  <2> QED
    BY <2>1, <2>2, DocsFrame, NamesFrame
<1> QED
  BY <1>1, <1>2, <1>3, <1>4 DEF Continue

LEMMA NextStands ==
  ASSUME ApprovalAssumption, Typed, DocsStand, NamesStand, [Next]_vars
  PROVE  DocsStand' /\ NamesStand'
<1>1. CASE AtOnce
  BY <1>1, AtOnceStand
<1>2. ASSUME NEW h \in Handlers, Starts(h) \/ Continue(h) \/ CallFails(h)
      PROVE  DocsStand' /\ NamesStand'
  BY <1>2, StartsStand, ContinueStands
<1>3. CASE Restart
  <2>1. UNCHANGED <<documents, names, latest, asked, crossed>>
    BY <1>3 DEF Restart, tutorRows
  <2>2. \A g \in Handlers : request'[g].pc = "idle" /\ request'[g].op = "request"
    BY <1>3 DEF Restart, Idle
  <2>3. SeenKept /\ NameKept
    BY <2>2 DEF SeenKept, NameKept, Approving, Naming
  <2> QED
    BY <2>1, <2>3, DocsFrame, NamesFrame
<1>4. CASE UNCHANGED vars
  BY <1>4, StillKept, DocsFrame, NamesFrame DEF vars, tutorRows, history
<1> QED
  BY <1>1, <1>2, <1>3, <1>4 DEF Next

LEMMA InitStands ==
  ASSUME Init
  PROVE  DocsStand /\ NamesStand
<1>1. /\ \A d \in Docs : latest[d] = 0
      /\ \A n \in Names : names.now[n] = 0 /\ names.asked[n] = 0 /\ asked[n] = 0
      /\ \A g \in Handlers : request[g].pc = "idle" /\ request[g].op = "request"
  BY DEF Init, NoUrls, NoNumbers, Idle
<1> QED
  BY <1>1 DEF DocsStand, UploadStands, NamesStand, Naming

-----------------------------------------------------------------------------
(* What was approved stands                                                *)

LEMMA UploadsApprove ==
  ASSUME Typed, NEW docs, NEW cleared, NEW status, Upload(docs, cleared, status)
  PROVE  documents'.approved = documents.approved
BY DEF Upload, Typed, TypeOK, Documents

LEMMA DecisionsApprove ==
  ASSUME Typed, NEW h \in Handlers, documents' = Decided(request[h]),
         NEW d \in Docs, documents.approved[d] # 0
  PROVE  documents'.approved[d] # 0
BY DEF Decided, Typed, TypeOK, Documents, Urls

\* Whatever is no upload, removal or decision leaves the documents alone.
LEMMA DocumentsLeft ==
  ASSUME NEW h \in Handlers,
         \/ Continue(h) /\ ~WriteDecision(h) /\ ~WriteRequestedDocuments(h)
         \/ CallFails(h) \/ Starts(h)
  PROVE  UNCHANGED documents
<1>1. CASE Continue(h) /\ ~WriteDecision(h) /\ ~WriteRequestedDocuments(h)
  BY <1>1 DEF Continue, WriteRequestedName, ReadDocuments, CheckApproved, RaiseGovernment, Rename,
              InsertQualification, LookForReferee, InsertReferee, MailLink, UpdateReferee,
              LookForReview, StoreReview, Notice, tutorRows
<1>2. CASE CallFails(h)
  BY <1>2 DEF CallFails, tutorRows
<1>3. ASSUME NEW r, Begin(h, r)
      PROVE  UNCHANGED documents
  BY <1>3 DEF Begin, tutorRows
<1>4. CASE Starts(h)
  BY <1>3, <1>4, Zenon
     DEF Starts, CreateQualification, RequestUpdationApproval, UpdateStatusPlain,
         UpdateDocumentStatus, CreateReferee, ChangeReferee, AddRefereeReview
<1> QED
  BY <1>1, <1>2, <1>4

LEMMA NextApproved ==
  ASSUME ApprovalAssumption, Typed, [Next]_vars, documents'.there,
         NEW d \in Docs, documents.approved[d] # 0
  PROVE  documents'.approved[d] # 0
<1>1. ASSUME NEW docs, NEW cleared, NEW status, Upload(docs, cleared, status)
      PROVE  documents'.approved[d] # 0
  BY <1>1, UploadsApprove
<1>2. ASSUME NEW columns, WriteFlags(columns)
      PROVE  UNCHANGED documents
  BY <1>2 DEF WriteFlags
<1>3. CASE AtOnce
  <2>1. CASE \E body \in Bodies :
               UpdateTutorDetail(body) \/ \E confirmed \in BOOLEAN : UpdateTutor(body, confirmed)
    BY <1>2, <2>1, FlagsWritten
  <2>2. CASE \E docs \in SUBSET Docs :
               \/ CreateDocuments(docs)
               \/ \E cleared \in SUBSET (Docs \ docs) : UpdateDocuments(docs, cleared)
    BY <1>1, <2>2 DEF UpdateDocuments, CreateDocuments
  <2>3. CASE RemoveDocuments
    BY <2>3 DEF RemoveDocuments, NoDocuments
  <2>4. CASE RemoveQualification \/ \E id \in DOMAIN referees : RemoveReferee(id)
    BY <2>4 DEF RemoveQualification, RemoveReferee, tutorRows
  <2> QED
    BY <1>3, <2>1, <2>2, <2>3, <2>4 DEF AtOnce
<1>4. CASE \E h \in Handlers : WriteRequestedDocuments(h)
  BY <1>1, <1>4 DEF WriteRequestedDocuments
<1>5. CASE \E h \in Handlers : WriteDecision(h)
  BY <1>5, DecisionsApprove DEF WriteDecision
<1>6. CASE Restart \/ UNCHANGED vars
  BY <1>6 DEF Restart, vars, tutorRows
<1> QED
  BY <1>3, <1>4, <1>5, <1>6, DocumentsLeft DEF Next

-----------------------------------------------------------------------------
(* Nothing is owed                                                         *)

(***************************************************************************)
(* While no request was cut short: for what was submitted the flag is      *)
(* raised or a request is about to raise it, and every referee's link is   *)
(* mailed or about to be.  A change that found the address as it wants it  *)
(* sends no mail: the link at that address was mailed or is about to be,   *)
(* whatever the row's address has become since.                            *)
(***************************************************************************)
Mailed(i, e) ==
  \/ <<i, e>> \in invited
  \/ \E h \in Handlers : request[h].pc = "invite" /\ request[h].id = i /\ request[h].email = e

Deciding(r) == r.pc \in {"read", "write"} => r.op \in {"judge", "plainJudge"}

GovernmentTold ==
  /\ AllApproved /\ ~bypassed =>
       Raised("government") \/ \E h \in Handlers : At(h, "judge", "check") \/ At(h, "judge", "flag")
  /\ \A h \in Handlers : Deciding(request[h])

QualificationTold ==
  qualified => Raised("qualification") \/ \E h \in Handlers : At(h, "qualify", "notice")

ReviewsTold ==
  \A i \in DOMAIN referees : referees[i].review =>
    /\ referees[i].there
    /\ Raised("referee") \/ \E h \in Handlers : At(h, "review", "notice") /\ request[h].id = i

LinksMailed == \A i \in DOMAIN referees : referees[i].there => Mailed(i, referees[i].email)

Changing(h) == At(h, "change", "update") /\ request[h].known

ChangesMailed == \A h \in Handlers : Changing(h) => Mailed(request[h].id, request[h].email)

Owed == GovernmentTold /\ QualificationTold /\ ReviewsTold /\ LinksMailed /\ ChangesMailed

NothingLost == ~broken => Owed

\* A step of the requests in S, and what each part of Owed needs of it.
Of(S) == S \subseteq Handlers /\ \A g \in Handlers \ S : request'[g] = request[g]
MailsKept == \A i, e : Mailed(i, e) => Mailed(i, e)'
StillRaised(f) == Raised(f) => Raised(f)'

LEMMA OfOne ==
  ASSUME Typed, NEW h \in Handlers, NEW r, Set(h, r)
  PROVE  Of({h}) /\ request'[h] = r
BY DEF Of, Set, Typed, TypeOK

LEMMA OfNone ==
  ASSUME UNCHANGED request
  PROVE  Of({})
BY DEF Of

LEMMA GovernmentFrame ==
  ASSUME GovernmentTold, NEW S, Of(S), \A h \in S : ~At(h, "judge", "check") /\ ~At(h, "judge", "flag"),
         \A h \in S : Deciding(request'[h]),
         AllApproved' /\ ~bypassed' => AllApproved /\ ~bypassed, StillRaised("government")
  PROVE  GovernmentTold'
<1>1. \A g \in Handlers : Deciding(request'[g])
  BY DEF GovernmentTold, Of
<1> QED
  BY <1>1 DEF GovernmentTold, Of, At, StillRaised

LEMMA QualificationFrame ==
  ASSUME QualificationTold, NEW S, Of(S), \A h \in S : ~At(h, "qualify", "notice"),
         qualified' => qualified, StillRaised("qualification")
  PROVE  QualificationTold'
BY DEF QualificationTold, Of, At, StillRaised

LEMMA ReviewsFrame ==
  ASSUME ReviewsTold, NEW S, Of(S), \A h \in S : ~At(h, "review", "notice"),
         \A i \in DOMAIN referees' : referees'[i].review =>
           i \in DOMAIN referees /\ referees[i].review /\ referees'[i].there = referees[i].there,
         StillRaised("referee")
  PROVE  ReviewsTold'
BY DEF ReviewsTold, Of, At, StillRaised

LEMMA MailsFrame ==
  ASSUME NEW S, Of(S), \A h \in S : request[h].pc # "invite", invited \subseteq invited'
  PROVE  MailsKept
BY DEF MailsKept, Mailed, Of

LEMMA LinksFrame ==
  ASSUME LinksMailed, MailsKept,
         \A i \in DOMAIN referees' : referees'[i].there =>
           i \in DOMAIN referees /\ referees[i].there /\ referees'[i].email = referees[i].email
  PROVE  LinksMailed'
BY DEF LinksMailed, MailsKept

LEMMA ChangesFrame ==
  ASSUME ChangesMailed, MailsKept, NEW S, Of(S), \A h \in S : ~Changing(h)'
  PROVE  ChangesMailed'
<1> SUFFICES ASSUME NEW g \in Handlers, Changing(g)'
             PROVE  Mailed(request[g].id, request[g].email)'
  BY DEF ChangesMailed
<1>1. g \notin S /\ request'[g] = request[g]
  BY DEF Of
<1>2. Changing(g)
  BY <1>1 DEF Changing, At
<1> QED
  BY <1>1, <1>2 DEF ChangesMailed, MailsKept

\* A step with no task of its own under way, and none that owes more.
LEMMA OwedFrame ==
  ASSUME Owed, NEW S, Of(S),
         \A h \in S : request[h].pc \notin {"check", "flag", "notice", "invite"},
         \A h \in S : Deciding(request'[h]) /\ ~Changing(h)',
         AllApproved' /\ ~bypassed' => AllApproved /\ ~bypassed, qualified' => qualified,
         \A f \in FlagNames : StillRaised(f), UNCHANGED refereeRows
  PROVE  Owed'
<1>1. UNCHANGED <<referees, invited>>
  BY DEF refereeRows
<1>2. \A h \in S : /\ ~At(h, "judge", "check") /\ ~At(h, "judge", "flag")
                   /\ ~At(h, "qualify", "notice") /\ ~At(h, "review", "notice")
                   /\ request[h].pc # "invite"
  BY DEF At
<1>3. StillRaised("government") /\ StillRaised("qualification") /\ StillRaised("referee")
  BY DEF FlagNames
<1>4. MailsKept
  BY <1>1, <1>2, MailsFrame
<1>5. GovernmentTold' /\ QualificationTold' /\ ReviewsTold'
  BY <1>1, <1>2, <1>3, GovernmentFrame, QualificationFrame, ReviewsFrame DEF Owed
<1>6. LinksMailed' /\ ChangesMailed'
  BY <1>1, <1>4, LinksFrame, ChangesFrame DEF Owed
<1> QED
  BY <1>5, <1>6 DEF Owed

LEMMA BeginOwed ==
  ASSUME Typed, Owed, NEW h \in Handlers, NEW r, Begin(h, r), Deciding(r), r.op # "change"
  PROVE  Owed'
<1>1. Of({h}) /\ request'[h] = r /\ request[h].pc = "idle"
  BY OfOne DEF Begin
<1>2. ~Changing(h)'
  BY <1>1 DEF Changing, At
<1> QED
  BY <1>1, <1>2, OwedFrame DEF Begin, tutorRows, history, AllApproved, StillRaised, Raised

LEMMA ChangeOwed ==
  ASSUME Typed, Owed, NEW h \in Handlers, NEW email \in Emails, NEW id \in DOMAIN referees,
         ChangeReferee(h, id, email)
  PROVE  Owed'
<1> DEFINE r == [Idle EXCEPT !.op = "change", !.pc = "update", !.id = id, !.email = email,
                             !.known = referees[id].email = email]
<1>1. r.id = id /\ r.email = email /\ Deciding(r)
  BY DEF Idle, Deciding
<1>2. r.known = (referees[id].email = email)
  BY Zenon DEF Idle
<1>3. referees[id].there /\ Begin(h, r)
  BY Zenon DEF ChangeReferee
<1> HIDE DEF r
<1>4. Of({h}) /\ request'[h] = r
  BY <1>3, OfOne DEF Begin
<1>5. /\ referees[id].there /\ request[h].pc = "idle"
      /\ Of({h}) /\ request'[h].id = id /\ request'[h].email = email /\ Deciding(request'[h])
      /\ request'[h].known <=> referees[id].email = email
      /\ UNCHANGED <<documents, flags, lowered, names, qualified, referees, invited, bypassed>>
  BY <1>1, <1>2, <1>3, <1>4 DEF Begin, tutorRows, refereeRows, history
<1>6. MailsKept
  BY <1>5, MailsFrame
<1>7. GovernmentTold' /\ QualificationTold' /\ ReviewsTold'
  BY <1>5, GovernmentFrame, QualificationFrame, ReviewsFrame
     DEF Owed, At, AllApproved, StillRaised, Raised
<1>8. LinksMailed'
  BY <1>5, <1>6, LinksFrame DEF Owed
<1>9. Changing(h)' => Mailed(id, email)'
  BY <1>5, <1>6 DEF Changing, Owed, LinksMailed, MailsKept
<1>10. \A g \in Handlers \ {h} : Changing(g)' => Mailed(request[g].id, request[g].email)'
  BY <1>5, <1>6 DEF Changing, At, Of, Owed, ChangesMailed, MailsKept
<1> QED
  BY <1>5, <1>7, <1>8, <1>9, <1>10 DEF Owed, ChangesMailed

LEMMA MoveOwed ==
  ASSUME Typed, Owed, NEW h \in Handlers, NEW r, Set(h, r),
         request[h].pc \notin {"check", "flag", "notice", "invite"}, r.pc # "update", Deciding(r),
         AllApproved' /\ ~bypassed' => AllApproved /\ ~bypassed,
         UNCHANGED <<flags, lowered, qualified, refereeRows>>
  PROVE  Owed'
<1>1. Of({h}) /\ request'[h] = r
  BY OfOne
<1>2. ~Changing(h)'
  BY <1>1 DEF Changing, At
<1> QED
  BY <1>1, <1>2, OwedFrame DEF StillRaised, Raised

LEMMA GotoFields ==
  ASSUME Typed, NEW h \in Handlers, NEW pc, Goto(h, pc)
  PROVE  /\ Of({h}) /\ request'[h].pc = pc /\ request'[h].op = request[h].op
         /\ request'[h].id = request[h].id /\ request'[h].email = request[h].email
<1>1. request[h] \in Request
  BY DEF Typed, TypeOK
<1>2. Of({h}) /\ request'[h] = [request[h] EXCEPT !.pc = pc]
  BY OfOne DEF Goto
<1> QED
  BY <1>1, <1>2 DEF Request

LEMMA SettleFields ==
  ASSUME Typed, NEW h \in Handlers, Settle(h)
  PROVE  Of({h}) /\ request'[h].pc = "idle" /\ Deciding(request'[h]) /\ ~Changing(h)'
<1>1. Of({h}) /\ request'[h] = Idle
  BY OfOne DEF Settle
<1> QED
  BY <1>1 DEF Idle, Deciding, Changing, At

LEMMA QuietOwed ==
  ASSUME Typed, Owed, NEW h \in Handlers,
         \/ WriteRequestedName(h) \/ WriteRequestedDocuments(h) \/ ReadDocuments(h) \/ Rename(h)
         \/ LookForReferee(h) \/ LookForReview(h)
  PROVE  Owed'
<1> DEFINE p == request[h]
<1>1. /\ p \in Request /\ p.pc \notin {"check", "flag", "notice", "invite"}
      /\ Deciding(p) /\ UNCHANGED <<flags, lowered, qualified, refereeRows, bypassed>>
  BY DEF WriteRequestedName, WriteRequestedDocuments, ReadDocuments, Rename, LookForReferee,
         LookForReview, At, Typed, TypeOK, Owed, GovernmentTold, tutorRows, history
<1>2. AllApproved' => AllApproved
  <2>1. CASE WriteRequestedDocuments(h)
    BY <2>1, UploadsApprove DEF WriteRequestedDocuments, AllApproved
  <2>2. CASE UNCHANGED documents
    BY <2>2 DEF AllApproved
  <2> QED
    BY <2>1, <2>2 DEF WriteRequestedName, ReadDocuments, Rename, LookForReferee, LookForReview, tutorRows
<1>3. PICK r : Set(h, r) /\ r.pc # "update" /\ Deciding(r)
  <2>1. CASE Settle(h)
    BY <2>1 DEF Settle, Idle, Deciding
  <2>2. CASE Goto(h, "insert")
    <3>1. [p EXCEPT !.pc = "insert"].pc = "insert"
      BY <1>1 DEF Request
    <3> QED
      BY <2>2, <3>1 DEF Goto, Deciding
  <2>5. CASE WriteRequestedName(h)
    <3> DEFINE r == [p EXCEPT !.pc = "documents", !.named = {}]
    <3>1. r.pc = "documents"
      BY <1>1 DEF Request
    <3> QED
      BY <2>5, <3>1 DEF WriteRequestedName, Deciding
  <2>3. CASE ReadDocuments(h) /\ Set(h, [p EXCEPT !.pc = "write", !.seen = documents.pending])
    <3> DEFINE r == [p EXCEPT !.pc = "write", !.seen = documents.pending]
    <3>1. r.pc = "write" /\ r.op = p.op /\ p.pc = "read"
      BY <1>1, <2>3 DEF Request, ReadDocuments
    <3> QED
      BY <1>1, <2>3, <3>1 DEF Deciding
  <2>4. CASE LookForReview(h)
    <3> DEFINE r == [p EXCEPT !.pc = "store", !.known = referees[p.id].review]
    <3>1. r.pc = "store"
      BY <1>1 DEF Request
    <3> QED
      BY <2>4, <3>1 DEF LookForReview, Deciding
  <2> QED
    BY <2>1, <2>2, <2>3, <2>4, <2>5
       DEF WriteRequestedDocuments, ReadDocuments, Rename, LookForReferee
<1> QED
  BY <1>1, <1>2, <1>3, MoveOwed

LEMMA DecisionOwed ==
  ASSUME Typed, Owed, NEW h \in Handlers, WriteDecision(h)
  PROVE  Owed'
<1> DEFINE p == request[h]
<1>1. /\ p \in Request /\ p.pc = "write" /\ p.op \in {"judge", "plainJudge"}
      /\ UNCHANGED <<flags, lowered, qualified, refereeRows>>
  BY DEF WriteDecision, Typed, TypeOK, Owed, GovernmentTold, Deciding
<1>2. CASE Settle(h) /\ (AllApproved' /\ ~bypassed' => AllApproved /\ ~bypassed)
  BY <1>1, <1>2, MoveOwed DEF Settle, Idle, Deciding
<1>3. CASE p.op = "judge" /\ Goto(h, "check")
  <2>1. Of({h}) /\ request'[h].pc = "check" /\ request'[h].op = "judge"
    BY <1>3, GotoFields
  <2>2. ~Changing(h)' /\ Deciding(request'[h])
    BY <2>1 DEF Changing, At, Deciding
  <2>3. MailsKept /\ UNCHANGED <<referees, invited>>
    BY <1>1, <2>1, MailsFrame DEF refereeRows
  <2>4. GovernmentTold'
    <3>1. \A g \in Handlers : Deciding(request'[g])
      BY <2>1, <2>2 DEF Of, Owed, GovernmentTold
    <3> QED
      BY <2>1, <3>1 DEF GovernmentTold, At
  <2>5. QualificationTold' /\ ReviewsTold'
    BY <1>1, <2>1, <2>3, QualificationFrame, ReviewsFrame DEF Owed, At, StillRaised, Raised
  <2>6. LinksMailed' /\ ChangesMailed'
    BY <2>1, <2>2, <2>3, LinksFrame, ChangesFrame DEF Owed
  <2> QED
    BY <2>4, <2>5, <2>6 DEF Owed
<1>4. CASE p.op = "plainJudge" /\ Settle(h) /\ documents' = Decided(p)
           /\ bypassed' = (bypassed \/ p.status = "APPROVED")
  <2>1. p.status # "APPROVED" => (AllApproved' => AllApproved)
    BY <1>4 DEF Decided, AllApproved, Typed, TypeOK, Documents, Urls
  <2> QED
    BY <1>2, <1>4, <2>1
<1> QED
  <2>1. CASE Settle(h) /\ UNCHANGED <<documents, bypassed>>
    BY <1>2, <2>1 DEF AllApproved
  <2> QED
    BY <1>1, <1>3, <1>4, <2>1 DEF WriteDecision

LEMMA AfterFlagFields ==
  ASSUME Typed, NEW h \in Handlers, Set(h, AfterFlag(request[h]))
  PROVE  Of({h}) /\ Deciding(request'[h]) /\ ~Changing(h)'
<1>1. request[h] \in Request
  BY DEF Typed, TypeOK
<1>2. Of({h}) /\ request'[h] = AfterFlag(request[h])
  BY OfOne
<1>3. request'[h].pc \in {"rename", "idle"}
  BY <1>1, <1>2 DEF AfterFlag, Idle, Request
<1> QED
  BY <1>2, <1>3 DEF Deciding, Changing, At

\* A step of one request that mails nothing and writes no referee.
LEMMA TaskOwed ==
  ASSUME Owed, NEW h \in Handlers, Of({h}), ~Changing(h)', request[h].pc # "invite",
         UNCHANGED refereeRows, GovernmentTold', QualificationTold', ReviewsTold'
  PROVE  Owed'
<1>1. UNCHANGED <<referees, invited>>
  BY DEF refereeRows
<1>2. MailsKept
  BY <1>1, MailsFrame
<1> QED
  BY <1>1, <1>2, LinksFrame, ChangesFrame DEF Owed

LEMMA FlagStepsOwed ==
  ASSUME Typed, Owed, NEW h \in Handlers, CheckApproved(h) \/ RaiseGovernment(h)
  PROVE  Owed'
<1>1. /\ request[h].op = "judge" /\ request[h].pc \in {"check", "flag"}
      /\ UNCHANGED <<documents, qualified, referees, invited, bypassed, refereeRows>>
  BY DEF CheckApproved, RaiseGovernment, At, tutorRows, refereeRows, history
<1>2. StillRaised("qualification") /\ StillRaised("referee")
  BY DEF CheckApproved, RaiseGovernment, RaiseFlag, tutorRows, history, StillRaised, Raised, Typed,
         TypeOK, FlagNames
<1>3. ASSUME Of({h})
      PROVE  QualificationTold' /\ ReviewsTold'
  BY <1>1, <1>2, <1>3, QualificationFrame, ReviewsFrame DEF Owed, At
<1>4. CASE CheckApproved(h) /\ Goto(h, "flag")
  <2>1. Of({h}) /\ request'[h].pc = "flag" /\ request'[h].op = "judge"
    BY <1>1, <1>4, GotoFields
  <2>2. Deciding(request'[h]) /\ ~Changing(h)'
    BY <2>1 DEF Deciding, Changing, At
  <2>3. GovernmentTold'
    <3>1. \A g \in Handlers : Deciding(request'[g])
      BY <2>1, <2>2 DEF Of, Owed, GovernmentTold
    <3> QED
      BY <2>1, <3>1 DEF GovernmentTold, At
  <2> QED
    BY <1>1, <1>3, <2>1, <2>2, <2>3, TaskOwed
<1>5. CASE CheckApproved(h) /\ ~AllApproved /\ (Settle(h) \/ Set(h, AfterFlag(request[h])))
  <2>1. Of({h}) /\ Deciding(request'[h]) /\ ~Changing(h)'
    BY <1>5, SettleFields, AfterFlagFields
  <2>2. GovernmentTold'
    BY <1>1, <1>5, <2>1 DEF Of, Owed, GovernmentTold, AllApproved
  <2> QED
    BY <1>1, <1>3, <2>1, <2>2, TaskOwed
<1>6. CASE RaiseGovernment(h)
  <2>1. Of({h}) /\ Deciding(request'[h]) /\ ~Changing(h)'
    BY <1>6, AfterFlagFields DEF RaiseGovernment
  <2>2. flags'["government"] = "PENDING"
    BY <1>6 DEF RaiseGovernment, RaiseFlag, Typed, TypeOK, FlagNames
  <2>3. GovernmentTold'
    BY <2>1, <2>2 DEF Of, Owed, GovernmentTold, Raised
  <2> QED
    BY <1>1, <1>3, <2>1, <2>3, TaskOwed
<1> QED
  BY <1>4, <1>5, <1>6 DEF CheckApproved

LEMMA QualificationOwed ==
  ASSUME Typed, Owed, NEW h \in Handlers, InsertQualification(h)
  PROVE  Owed'
<1>1. /\ request[h].op = "qualify" /\ request[h].pc = "insert"
      /\ UNCHANGED <<documents, flags, lowered, referees, invited, bypassed, refereeRows>>
  BY DEF InsertQualification, At, refereeRows, history
<1>2. Of({h}) /\ request'[h].pc = "notice" /\ request'[h].op = "qualify"
  BY <1>1, GotoFields DEF InsertQualification
<1>3. Deciding(request'[h]) /\ ~Changing(h)'
  BY <1>2 DEF Deciding, Changing, At
<1>4. GovernmentTold' /\ ReviewsTold'
  BY <1>1, <1>2, <1>3, GovernmentFrame, ReviewsFrame DEF Owed, At, AllApproved, StillRaised, Raised
<1>5. QualificationTold'
  BY <1>2 DEF QualificationTold, At
<1> QED
  BY <1>1, <1>2, <1>3, <1>4, <1>5, TaskOwed

LEMMA NoticeOwed ==
  ASSUME Typed, Owed, NEW h \in Handlers, Notice(h)
  PROVE  Owed'
<1> DEFINE p == request[h]
<1>1. /\ p.pc = "notice" /\ UNCHANGED <<documents, qualified, referees, invited, bypassed, refereeRows>>
      /\ Of({h}) /\ Deciding(request'[h]) /\ ~Changing(h)'
  BY SettleFields DEF Notice, refereeRows, history
<1>2. /\ \A f \in FlagNames : StillRaised(f)
      /\ p.op = "qualify" => Raised("qualification")'
      /\ p.op # "qualify" /\ referees[p.id].there => Raised("referee")'
  BY DEF Notice, RaiseFlag, Typed, TypeOK, FlagNames, StillRaised, Raised
<1>3. StillRaised("government") /\ StillRaised("qualification") /\ StillRaised("referee")
  BY <1>2 DEF FlagNames
<1>4. GovernmentTold'
  BY <1>1, <1>3, GovernmentFrame DEF Owed, At, AllApproved
<1>5. QualificationTold'
  <2>1. CASE p.op = "qualify"
    BY <1>2, <2>1 DEF QualificationTold
  <2>2. CASE p.op # "qualify"
    BY <1>1, <1>3, <2>2, QualificationFrame DEF Owed, At
  <2> QED
    BY <2>1, <2>2
<1>6. ReviewsTold'
  <2>1. CASE Raised("referee")'
    BY <1>1, <2>1 DEF Owed, ReviewsTold
  <2>2. CASE ~Raised("referee")'
    <3>1. \A i \in DOMAIN referees : referees[i].review =>
            \E g \in Handlers \ {h} : At(g, "review", "notice") /\ request[g].id = i
      BY <1>2, <1>3, <2>2 DEF Owed, ReviewsTold, StillRaised, At
    <3> QED
      BY <1>1, <3>1 DEF Of, Owed, ReviewsTold, At
  <2> QED
    BY <2>1, <2>2
<1> QED
  BY <1>1, <1>4, <1>5, <1>6, TaskOwed

\* A step that writes the referees, and what it has to see to.
LEMMA WriteOwed ==
  ASSUME Owed, NEW S, Of(S),
         \A h \in S : request[h].pc \notin {"check", "flag", "notice", "invite"},
         \A h \in S : Deciding(request'[h]) /\ ~Changing(h)',
         UNCHANGED <<documents, flags, lowered, qualified, invited, bypassed>>,
         ReviewsTold', LinksMailed'
  PROVE  Owed'
<1>1. MailsKept
  BY MailsFrame
<1>2. GovernmentTold' /\ QualificationTold'
  BY GovernmentFrame, QualificationFrame DEF Owed, At, AllApproved, StillRaised, Raised
<1> QED
  BY <1>1, <1>2, ChangesFrame DEF Owed

LEMMA InsertOwed ==
  ASSUME Typed, Owed, NEW h \in Handlers, InsertReferee(h)
  PROVE  Owed'
<1> DEFINE p == request[h]
           n == Len(referees) + 1
           row == [email |-> p.email, there |-> TRUE, review |-> FALSE]
           r == [p EXCEPT !.pc = "invite", !.id = n]
<1>1. p \in Request /\ p.pc = "insert" /\ referees \in Seq(Referee) /\ p.email \in Emails
  BY DEF InsertReferee, At, Typed, TypeOK, IdsOK, HoldsEmail
<1>2. UNCHANGED <<documents, flags, lowered, names, qualified, invited, bypassed>>
  BY DEF InsertReferee, tutorRows, history
<1>3. CASE Settle(h) /\ UNCHANGED referees
  BY <1>1, <1>2, <1>3, MoveOwed DEF Settle, Idle, Deciding, AllApproved, refereeRows
<1>4. CASE referees' = Append(referees, row) /\ Set(h, r)
  <2>1. r.pc = "invite" /\ r.id = n /\ r.email = p.email
    <3> HIDE DEF n, p
    <3> QED
      BY <1>1 DEF Request
  <2>2. row.email = p.email /\ row.review = FALSE /\ row \in Referee
    BY <1>1 DEF Referee
  <2> HIDE DEF row, r
  <2>3. Of({h}) /\ request'[h] = r
    BY <1>4, OfOne
  <2>4. /\ DOMAIN referees' = 1..n /\ referees'[n] = row
        /\ \A i \in 1..Len(referees) : referees'[i] = referees[i]
    BY <1>1, <1>4, <2>2
  <2>5. \A i \in 1..n : i = n \/ i \in DOMAIN referees
    BY <1>1
  <2>6. MailsKept
    BY <1>1, <1>2, <2>3, MailsFrame
  <2>7. ReviewsTold'
    BY <1>1, <1>2, <2>2, <2>3, <2>4, <2>5, ReviewsFrame DEF Owed, At, StillRaised, Raised
  <2>8. LinksMailed'
    <3>1. PICK i, e : i = n /\ e = p.email
      OBVIOUS
    <3>2. Mailed(i, e)'
      BY <2>1, <2>3, <3>1 DEF Mailed
    <3>3. \A j \in DOMAIN referees' : j # i =>
            j \in DOMAIN referees /\ referees'[j] = referees[j]
      BY <1>1, <2>4, <2>5, <3>1
    <3>4. referees'[i].email = e
      BY <2>2, <2>4, <3>1
    <3> QED
      BY <2>6, <3>2, <3>3, <3>4 DEF LinksMailed, MailsKept, Owed
  <2>9. Deciding(request'[h]) /\ ~Changing(h)'
    BY <2>1, <2>3 DEF Deciding, Changing, At
  <2> QED
    BY <1>1, <1>2, <2>3, <2>7, <2>8, <2>9, WriteOwed
<1> QED
  BY <1>3, <1>4 DEF InsertReferee

LEMMA MailOwed ==
  ASSUME Typed, Owed, NEW h \in Handlers, MailLink(h)
  PROVE  Owed'
<1>1. /\ Of({h}) /\ Deciding(request'[h]) /\ ~Changing(h)' /\ request[h].pc = "invite"
      /\ UNCHANGED <<documents, flags, lowered, names, qualified, referees, bypassed>>
      /\ invited' = invited \cup {<<request[h].id, request[h].email>>}
  BY SettleFields DEF MailLink, Invitation, tutorRows, history
<1>2. MailsKept
  BY <1>1 DEF MailsKept, Mailed, Of
<1>3. GovernmentTold' /\ QualificationTold' /\ ReviewsTold'
  BY <1>1, GovernmentFrame, QualificationFrame, ReviewsFrame
     DEF Owed, At, AllApproved, StillRaised, Raised
<1>4. LinksMailed' /\ ChangesMailed'
  BY <1>1, <1>2, LinksFrame, ChangesFrame DEF Owed
<1> QED
  BY <1>3, <1>4 DEF Owed

LEMMA UpdateOwed ==
  ASSUME Typed, Owed, NEW h \in Handlers, UpdateReferee(h)
  PROVE  Owed'
<1> DEFINE p == request[h]
           row == [referees[p.id] EXCEPT !.email = p.email]
<1>1. /\ p \in Request /\ At(h, "change", "update") /\ p.id \in DOMAIN referees
      /\ p.email \in Emails /\ referees[p.id] \in Referee
  BY DEF UpdateReferee, At, Typed, TypeOK, IdsOK, HoldsEmail, HoldsId
<1>2. UNCHANGED <<documents, flags, lowered, names, qualified, invited, bypassed>>
  BY DEF UpdateReferee, tutorRows, history
<1>3. CASE Settle(h) /\ UNCHANGED referees
  BY <1>1, <1>2, <1>3, MoveOwed DEF Settle, Idle, Deciding, AllApproved, refereeRows, At
<1>4. CASE /\ referees' = [referees EXCEPT ![p.id] = row]
           /\ IF p.known THEN Settle(h) ELSE Goto(h, "invite")
  <2>1. /\ row \in Referee /\ row.email = p.email /\ row.review = referees[p.id].review
        /\ row.there = referees[p.id].there
    BY <1>1 DEF Referee
  <2> HIDE DEF row
  <2>2. /\ DOMAIN referees' = DOMAIN referees /\ referees'[p.id] = row
        /\ \A j \in DOMAIN referees \ {p.id} : referees'[j] = referees[j]
    BY <1>1, <1>4, <2>1, RefereeWritten
  <2>3. /\ Of({h}) /\ Deciding(request'[h]) /\ ~Changing(h)'
        /\ ~p.known => /\ request'[h].pc = "invite" /\ request'[h].id = p.id
                       /\ request'[h].email = p.email
    BY <1>4, SettleFields, GotoFields DEF Deciding, Changing, At
  <2>4. MailsKept
    BY <1>1, <1>2, <2>3, MailsFrame DEF At
  <2>5. PICK i, e : i = p.id /\ e = p.email
    OBVIOUS
  <2>6. Mailed(i, e)'
    <3>1. CASE p.known
      BY <1>1, <2>5, <2>4, <3>1 DEF Owed, ChangesMailed, Changing, MailsKept
    <3>2. CASE ~p.known
      BY <2>5, <2>3, <3>2 DEF Mailed
    <3> QED
      BY <3>1, <3>2
  <2>7. ReviewsTold'
    BY <1>1, <1>2, <2>1, <2>2, <2>3, ReviewsFrame DEF Owed, At, StillRaised, Raised
  <2>8. LinksMailed'
    <3>1. /\ \A j \in DOMAIN referees' : j # i =>
                j \in DOMAIN referees /\ referees'[j] = referees[j]
          /\ referees'[i].email = e
      BY <2>1, <2>2, <2>5
    <3> QED
      BY <2>4, <2>6, <3>1 DEF LinksMailed, MailsKept, Owed
  <2> QED
    BY <1>1, <1>2, <2>3, <2>7, <2>8, WriteOwed DEF At
<1> QED
  BY <1>3, <1>4 DEF UpdateReferee

LEMMA StoreOwed ==
  ASSUME Typed, Owed, NEW h \in Handlers, StoreReview(h)
  PROVE  Owed'
<1> DEFINE p == request[h]
           row == [referees[p.id] EXCEPT !.review = TRUE]
<1>1. /\ p \in Request /\ At(h, "review", "store") /\ p.id \in DOMAIN referees
      /\ referees[p.id] \in Referee
  BY DEF StoreReview, At, Typed, TypeOK, IdsOK, HoldsId
<1>2. UNCHANGED <<documents, flags, lowered, names, qualified, invited, bypassed>>
  BY DEF StoreReview, tutorRows, history
<1>3. CASE Settle(h) /\ UNCHANGED referees
  BY <1>1, <1>2, <1>3, MoveOwed DEF Settle, Idle, Deciding, AllApproved, refereeRows, At
<1>4. CASE /\ referees[p.id].there /\ Goto(h, "notice")
           /\ referees' = [referees EXCEPT ![p.id] = row]
  <2>1. row \in Referee /\ row.email = referees[p.id].email /\ row.there = referees[p.id].there
    BY <1>1 DEF Referee
  <2> HIDE DEF row
  <2>2. /\ DOMAIN referees' = DOMAIN referees /\ referees'[p.id] = row
        /\ \A j \in DOMAIN referees \ {p.id} : referees'[j] = referees[j]
    BY <1>1, <1>4, <2>1, RefereeWritten
  <2>3. /\ Of({h}) /\ Deciding(request'[h]) /\ ~Changing(h)'
        /\ request'[h].op = "review" /\ request'[h].pc = "notice" /\ request'[h].id = p.id
    BY <1>1, <1>4, GotoFields DEF Deciding, Changing, At
  <2>4. MailsKept
    BY <1>1, <1>2, <2>3, MailsFrame DEF At
  <2>5. ReviewsTold'
    <3>1. ASSUME NEW i \in DOMAIN referees \ {p.id}, referees[i].review
          PROVE  /\ referees[i].there
                 /\ Raised("referee")' \/ \E g \in Handlers : At(g, "review", "notice")' /\ request'[g].id = i
      BY <1>1, <1>2, <2>3, <3>1 DEF Owed, ReviewsTold, Of, At, Raised
    <3> QED
      BY <1>4, <2>1, <2>2, <2>3, <3>1 DEF ReviewsTold, At
  <2>6. LinksMailed'
    BY <2>1, <2>2, <2>4, LinksFrame DEF Owed
  <2> QED
    BY <1>1, <1>2, <2>3, <2>5, <2>6, WriteOwed DEF At
<1> QED
  BY <1>3, <1>4 DEF StoreReview

LEMMA RemovalOwed ==
  ASSUME Typed, Owed, NEW i \in DOMAIN referees, RemoveReferee(i)
  PROVE  Owed'
<1> DEFINE row == [[referees[i] EXCEPT !.there = FALSE] EXCEPT !.review = FALSE]
<1>1. referees[i] \in Referee
  BY DEF Typed, TypeOK
<1>2. row \in Referee /\ row.there = FALSE /\ row.review = FALSE
  BY <1>1 DEF Referee
<1>3. referees' = [referees EXCEPT ![i] = row]
  BY DEF RemoveReferee
<1> HIDE DEF row
<1>4. /\ DOMAIN referees' = DOMAIN referees /\ referees'[i] = row
      /\ \A j \in DOMAIN referees \ {i} : referees'[j] = referees[j]
  BY <1>2, <1>3, RefereeWritten
<1>5. Of({}) /\ UNCHANGED <<documents, flags, lowered, qualified, invited, bypassed>>
  BY OfNone DEF RemoveReferee, tutorRows, history
<1>6. MailsKept
  BY <1>5, MailsFrame
<1>7. ReviewsTold'
  BY <1>2, <1>4, <1>5, ReviewsFrame DEF Owed, StillRaised, Raised
<1>8. LinksMailed'
  BY <1>2, <1>4, <1>6, LinksFrame DEF Owed
<1> QED
  BY <1>5, <1>7, <1>8, WriteOwed

\* Requests, referees and links unchanged, and no more to tell of.
LEMMA StillOwed ==
  ASSUME Owed, UNCHANGED <<request, refereeRows>>,
         AllApproved' /\ ~bypassed' => AllApproved /\ ~bypassed, qualified' => qualified,
         \A f \in FlagNames : StillRaised(f)
  PROVE  Owed'
BY OfNone, OwedFrame

\* A body lowers flags only where 'lowered' tells of it.
LEMMA FlagsOwed ==
  ASSUME Typed, Owed, NEW columns \in Columns, WriteFlags(columns)
  PROVE  Owed'
<1>1. \A f \in FlagNames : StillRaised(f)
  BY DEF WriteFlags, StillRaised, Raised, Columns
<1> QED
  BY <1>1, StillOwed DEF WriteFlags, AllApproved

LEMMA AtOnceOwed ==
  ASSUME ApprovalAssumption, Typed, Owed, AtOnce
  PROVE  Owed'
<1>1. ASSUME NEW docs \in SUBSET Docs,
             \/ CreateDocuments(docs)
             \/ \E cleared \in SUBSET (Docs \ docs) : UpdateDocuments(docs, cleared)
      PROVE  Owed'
  <2>1. AllApproved' => AllApproved
    BY <1>1, UploadsApprove DEF UpdateDocuments, CreateDocuments, AllApproved
  <2>2. UNCHANGED <<request, refereeRows, qualified, flags, lowered, bypassed>>
    BY <1>1 DEF UpdateDocuments, CreateDocuments
  <2> QED
    BY <2>1, <2>2, StillOwed DEF StillRaised, Raised
<1>2. CASE RemoveDocuments
  <2>1. ~AllApproved'
    BY <1>2 DEF RemoveDocuments, NoDocuments, NoUrls, AllApproved, ApprovalAssumption
  <2> QED
    BY <1>2, <2>1, StillOwed DEF RemoveDocuments, StillRaised, Raised
<1>3. CASE RemoveQualification
  BY <1>3, StillOwed DEF RemoveQualification, history, AllApproved, StillRaised, Raised
<1>4. CASE \E id \in DOMAIN referees : RemoveReferee(id)
  BY <1>4, RemovalOwed
<1> QED
  BY <1>1, <1>2, <1>3, <1>4, FlagsWritten, FlagsOwed DEF AtOnce

LEMMA StartsOwed ==
  ASSUME Typed, Owed, NEW h \in Handlers, Starts(h)
  PROVE  Owed'
<1>1. ASSUME NEW docs, NEW cleared, NEW named, RequestUpdationApproval(h, docs, cleared, named)
      PROVE  Owed'
  <2> DEFINE r == [Idle EXCEPT !.op = "request", !.docs = docs, !.cleared = cleared, !.named = named,
                               !.pc = IF named # {} THEN "names" ELSE "documents"]
  <2>1. Deciding(r) /\ r.op = "request"
    BY DEF Idle, Deciding
  <2> QED
    BY <1>1, <2>1, BeginOwed DEF RequestUpdationApproval
<1>2. CASE \E status \in Decisions : UpdateStatusPlain(h, status)
  BY <1>2, BeginOwed DEF UpdateStatusPlain, Idle, Deciding
<1>3. ASSUME NEW status, NEW named, UpdateDocumentStatus(h, status, named)
      PROVE  Owed'
  <2> DEFINE r == [Idle EXCEPT !.op = "judge", !.pc = "read", !.status = status,
                     !.name = [n \in Names |-> IF status = "APPROVED" /\ n \in named
                                              THEN names.asked[n] ELSE 0]]
  <2>1. r.op = "judge"
    BY DEF Idle
  <2>2. Begin(h, r)
    BY <1>3 DEF UpdateDocumentStatus
  <2> HIDE DEF r
  <2> QED
    BY <2>1, <2>2, BeginOwed DEF Deciding
<1>4. CASE CreateQualification(h)
  BY <1>4, BeginOwed DEF CreateQualification, Idle, Deciding
<1>5. CASE \E email \in Emails : CreateReferee(h, email)
  BY <1>5, BeginOwed DEF CreateReferee, Idle, Deciding
<1>6. CASE \E email \in Emails : \E id \in DOMAIN referees : ChangeReferee(h, id, email)
  BY <1>6, ChangeOwed
<1>7. CASE \E link \in invited : AddRefereeReview(h, link[1])
  BY <1>7, BeginOwed DEF AddRefereeReview, Idle, Deciding
<1> QED
  BY <1>1, <1>2, <1>3, <1>4, <1>5, <1>6, <1>7 DEF Starts

LEMMA ContinueOwed ==
  ASSUME Typed, Owed, NEW h \in Handlers, Continue(h)
  PROVE  Owed'
BY QuietOwed, DecisionOwed, FlagStepsOwed, QualificationOwed, InsertOwed, MailOwed, UpdateOwed,
   StoreOwed, NoticeOwed DEF Continue

LEMMA NextOwed ==
  ASSUME ApprovalAssumption, Typed, NothingLost, [Next]_vars
  PROVE  NothingLost'
<1>1. CASE Restart \/ \E h \in Handlers : CallFails(h)
  <2>1. broken' = TRUE
    BY <1>1, Zenon DEF Restart, CallFails
  <2> QED
    BY <2>1, Zenon DEF NothingLost
<1> SUFFICES ASSUME ~broken', ~Restart, \A h \in Handlers : ~CallFails(h)
             PROVE  Owed'
  BY <1>1 DEF NothingLost
<1>2. UNCHANGED broken
  <2>1. ASSUME NEW r, NEW h \in Handlers, Begin(h, r)
        PROVE  UNCHANGED broken
    BY <2>1 DEF Begin, history
  <2>2. ASSUME NEW h \in Handlers, Starts(h)
        PROVE  UNCHANGED broken
    BY <2>1, <2>2, Zenon
       DEF Starts, CreateQualification, RequestUpdationApproval, UpdateStatusPlain,
           UpdateDocumentStatus, CreateReferee, ChangeReferee, AddRefereeReview
  <2>3. ASSUME NEW h \in Handlers, Continue(h)
        PROVE  UNCHANGED broken
    BY <2>3 DEF Continue, WriteRequestedName, WriteRequestedDocuments, ReadDocuments, WriteDecision,
                CheckApproved, RaiseGovernment, Rename, InsertQualification, LookForReferee,
                InsertReferee, MailLink, UpdateReferee, LookForReview, StoreReview, Notice, history
  <2>4. CASE AtOnce
    BY <2>4 DEF AtOnce, UpdateDocuments, CreateDocuments, RemoveDocuments, RemoveQualification,
                UpdateTutor, UpdateTutorDetail, WriteFlags, RemoveReferee, history
  <2>5. CASE UNCHANGED vars
    BY <2>5 DEF vars, history
  <2> QED
    BY <2>2, <2>3, <2>4, <2>5 DEF Next
<1>3. Owed
  BY <1>2 DEF NothingLost
<1>4. CASE AtOnce
  BY <1>3, <1>4, AtOnceOwed
<1>5. ASSUME NEW h \in Handlers, Starts(h) \/ Continue(h)
      PROVE  Owed'
  BY <1>3, <1>5, StartsOwed, ContinueOwed
<1>6. CASE UNCHANGED vars
  BY <1>3, <1>6, StillOwed DEF vars, tutorRows, history, AllApproved, StillRaised, Raised
<1> QED
  BY <1>4, <1>5, <1>6 DEF Next

LEMMA InitOwed ==
  ASSUME ApprovalAssumption, Init
  PROVE  NothingLost
<1>1. /\ documents.approved = NoUrls /\ qualified = FALSE /\ referees = <<>>
      /\ \A h \in Handlers : request[h].pc = "idle"
  BY DEF Init, NoDocuments, Idle
<1>2. GovernmentTold
  BY <1>1 DEF GovernmentTold, AllApproved, NoUrls, ApprovalAssumption, Deciding
<1>3. QualificationTold
  BY <1>1 DEF QualificationTold
<1>4. ReviewsTold /\ LinksMailed
  BY <1>1 DEF ReviewsTold, LinksMailed
<1>5. ChangesMailed
  BY <1>1 DEF ChangesMailed, Changing, At
<1> QED
  BY <1>2, <1>3, <1>4, <1>5 DEF NothingLost, Owed

-----------------------------------------------------------------------------
(* Offers                                                                  *)

OffersOK ==
  /\ offers \in Seq(SubjectOffer) /\ Len(offers) <= MaxOffers
  /\ blocked \cup deActivated \subseteq Tutors
  /\ \A i \in DOMAIN offers : offers[i].title.capital = FALSE

DirectoryInv == Typed /\ DocsStand /\ NamesStand /\ NothingLost /\ OffersOK

LEMMA LowerTyped ==
  ASSUME NEW title \in Title
  PROVE  Lower(title) \in Title /\ Lower(title).capital = FALSE /\ Lower(title).subject = title.subject
BY DEF Title, Lower

LEMMA OfferTyped ==
  ASSUME OffersOK, NEW i \in DOMAIN offers
  PROVE  offers[i] \in SubjectOffer /\ offers[i].title.capital = FALSE
BY DEF OffersOK

LEMMA OfferKept ==
  ASSUME OffersOK, NEW i \in DOMAIN offers, NEW row \in SubjectOffer, row.title.capital = FALSE,
         offers' = [offers EXCEPT ![i] = row], UNCHANGED <<blocked, deActivated>>
  PROVE  OffersOK'
<1>1. /\ offers' \in Seq(SubjectOffer) /\ Len(offers') = Len(offers)
      /\ \A j \in 1..Len(offers) : offers'[j] = IF j = i THEN row ELSE offers[j]
  BY ExceptSeq DEF OffersOK
<1> QED
  BY <1>1 DEF OffersOK

LEMMA OffersStep ==
  ASSUME DirectoryAssumption, OffersOK,
         \/ UNCHANGED <<offers, blocked, deActivated>>
         \/ \E t \in Tutors, title \in Title, levels \in SUBSET Levels :
              \/ CreateOffer(t, title, levels)
              \/ \E i \in DOMAIN offers : UpdateOffer(t, i, title, levels)
         \/ \E t \in Tutors, i \in DOMAIN offers : RemoveOffer(t, i)
         \/ \E t \in Tutors :
              UpdateBlockStatus(t) \/ \E value \in BOOLEAN : DeActivate(t, value)
  PROVE  OffersOK'
<1>1. CASE UNCHANGED <<offers, blocked, deActivated>>
  BY <1>1 DEF OffersOK
<1>2. ASSUME NEW t \in Tutors, NEW title \in Title, NEW levels \in SUBSET Levels,
             CreateOffer(t, title, levels)
      PROVE  OffersOK'
  <2> DEFINE row == [tutor |-> t, title |-> Lower(title), levels |-> levels, there |-> TRUE]
  <2>1. row \in SubjectOffer /\ row.title.capital = FALSE
    BY LowerTyped, TRUE \in BOOLEAN DEF SubjectOffer
  <2>2. offers' = Append(offers, row) /\ Len(offers) < MaxOffers /\ UNCHANGED <<blocked, deActivated>>
    BY <1>2 DEF CreateOffer
  <2> HIDE DEF row
  <2> QED
    BY <2>1, <2>2 DEF OffersOK, DirectoryAssumption
<1>3. ASSUME NEW t \in Tutors, NEW title \in Title, NEW levels \in SUBSET Levels,
             NEW i \in DOMAIN offers, UpdateOffer(t, i, title, levels)
      PROVE  OffersOK'
  <2> DEFINE row == [offers[i] EXCEPT !.title = Lower(title), !.levels = levels]
  <2>1. row \in SubjectOffer /\ row.title.capital = FALSE
    BY LowerTyped, OfferTyped DEF SubjectOffer
  <2>2. offers' = [offers EXCEPT ![i] = row] /\ UNCHANGED <<blocked, deActivated>>
    BY <1>3 DEF UpdateOffer, OffersOK, SubjectOffer
  <2> HIDE DEF row
  <2> QED
    BY <2>1, <2>2, OfferKept
<1>4. ASSUME NEW t \in Tutors, NEW i \in DOMAIN offers, RemoveOffer(t, i)
      PROVE  OffersOK'
  <2> DEFINE row == [offers[i] EXCEPT !.there = FALSE]
  <2>1. row \in SubjectOffer /\ row.title.capital = FALSE
    BY OfferTyped DEF SubjectOffer
  <2>2. offers' = [offers EXCEPT ![i] = row] /\ UNCHANGED <<blocked, deActivated>>
    BY <1>4 DEF RemoveOffer, OffersOK, SubjectOffer
  <2> HIDE DEF row
  <2> QED
    BY <2>1, <2>2, OfferKept
<1>5. ASSUME NEW t \in Tutors, UpdateBlockStatus(t)
      PROVE  OffersOK'
  BY <1>5 DEF UpdateBlockStatus, OffersOK
<1>6. ASSUME NEW t \in Tutors, NEW value \in BOOLEAN, DeActivate(t, value)
      PROVE  OffersOK'
  BY <1>6 DEF DeActivate, OffersOK
<1> QED
  BY <1>1, <1>2, <1>3, <1>4, <1>5, <1>6

\* The steps of offers and blocks count a request and leave the rest of Approval alone.
LEMMA DirectoryStepFrame ==
  ASSUME ApprovalAssumption, Typed, DocsStand, NamesStand, Counted,
         NothingLost, UNCHANGED <<tutorRows, refereeRows, request, history, uploads, faults>>
  PROVE  Typed' /\ DocsStand' /\ NamesStand' /\ NothingLost'
<1>1. Typed'
  BY RowsTyped DEF Counted, Typed, TypeOK, tutorRows, history, ApprovalAssumption
<1>2. DocsStand' /\ NamesStand'
  BY StillKept, DocsFrame, NamesFrame DEF tutorRows, history
<1>3. NothingLost'
  BY StillOwed DEF tutorRows, history, NothingLost, AllApproved, StillRaised, Raised
<1> QED
  BY <1>1, <1>2, <1>3

\* A step of either module, seen from Approval: to deactivate the tutor of that module
\* is to write the tutor's columns.
LEMMA DirectorySteps ==
  ASSUME [DirectoryNext]_directoryVars
  PROVE  [Next]_vars \/ (/\ Counted
                         /\ UNCHANGED <<tutorRows, refereeRows, request, history, uploads, faults>>)
<1>1. ASSUME NEW t \in Tutors, NEW value \in BOOLEAN, DeActivate(t, value)
      PROVE  AtOnce \/ (/\ Counted
                        /\ UNCHANGED <<tutorRows, refereeRows, request, history, uploads, faults>>)
  BY <1>1, Zenon DEF DeActivate, AtOnce
<1> QED
  BY <1>1 DEF DirectoryNext, directoryVars, Next, CreateOffer, UpdateOffer, RemoveOffer,
              UpdateBlockStatus

LEMMA DirectoryStep ==
  ASSUME ApprovalAssumption, DirectoryAssumption, DirectoryInv, [DirectoryNext]_directoryVars
  PROVE  DirectoryInv'
<1>1. OffersOK'
  BY OffersStep DEF DirectoryNext, directoryVars, DirectoryInv
<1>2. CASE [Next]_vars
  BY <1>1, <1>2, NextTyped, NextStands, NextOwed DEF DirectoryInv
<1>3. CASE /\ Counted
           /\ UNCHANGED <<tutorRows, refereeRows, request, history, uploads, faults>>
  BY <1>1, <1>3, DirectoryStepFrame DEF DirectoryInv
<1>4. [Next]_vars \/ (/\ Counted
                      /\ UNCHANGED <<tutorRows, refereeRows, request, history, uploads, faults>>)
  BY DirectorySteps
<1> QED
  BY <1>2, <1>3, <1>4

LEMMA DirectoryStart ==
  ASSUME ApprovalAssumption, DirectoryAssumption, DirectoryInit
  PROVE  DirectoryInv
<1>1. OffersOK
  BY DEF DirectoryInit, OffersOK, DirectoryAssumption
<1> QED
  BY <1>1, InitTyped, InitStands, InitOwed DEF DirectoryInit, DirectoryInv

LEMMA DirectoryAlways == DirectorySpec => []DirectoryInv
<1>1. ApprovalAssumption /\ DirectoryAssumption
  BY ApprovalAssumption, DirectoryAssumption
<1>2. DirectoryInit => DirectoryInv
  BY <1>1, DirectoryStart
<1>3. DirectoryInv /\ [DirectoryNext]_directoryVars => DirectoryInv'
  BY <1>1, DirectoryStep
<1> QED
  BY <1>2, <1>3, PTL DEF DirectorySpec

LEMMA PagesAgree ==
  ASSUME Typed, OffersOK
  PROVE  DirectoryAgrees
<1> SUFFICES ASSUME NEW title \in Title, NEW level \in Levels
             PROVE  LET found == FilterTutor(title, level)
                    IN /\ \A i \in DOMAIN offers :
                            /\ offers[i].there /\ offers[i].title.subject = title.subject
                            /\ level \in offers[i].levels
                            /\ offers[i].tutor \notin blocked \cup deActivated
                            => \E r \in found : r.tutor = offers[i].tutor
                       /\ \A r \in found :
                            LET profile == GetTutorProfile(r.tutor)
                            IN /\ \E s \in profile.subjects :
                                    s.title.subject = title.subject /\ level \in s.levels
                               /\ \A i \in r.rated : <<referees[i].email, TRUE>> \in profile.reviews
  BY DEF DirectoryAgrees
<1> DEFINE found == FilterTutor(title, level)
<1>1. Lower(title) \in Title /\ Lower(title).capital = FALSE /\ Lower(title).subject = title.subject
  BY LowerTyped
<1>2. ASSUME NEW i \in DOMAIN offers, offers[i].there, offers[i].title.subject = title.subject,
             level \in offers[i].levels, offers[i].tutor \notin blocked \cup deActivated
      PROVE  \E r \in found : r.tutor = offers[i].tutor
  <2>1. offers[i].tutor \in Tutors \ (blocked \cup deActivated) /\ offers[i].title \in Title
    BY <1>2, OfferTyped DEF SubjectOffer
  <2>2. offers[i].title = Lower(title)
    BY <1>1, <1>2, <2>1 DEF OffersOK, Title
  <2>3. i \in OffersOf(offers[i].tutor)
    BY <1>2 DEF OffersOf
  <2> DEFINE t == offers[i].tutor
             r == [tutor |-> t, rated |-> {j \in RefereesOf(t) : referees[j].review}]
  <2>4. r \in found
    BY <1>2, <2>1, <2>2, <2>3 DEF FilterTutor
  <2>5. r.tutor = t
    OBVIOUS
  <2> QED
    BY <2>4, <2>5
<1>3. ASSUME NEW r \in found
      PROVE  /\ \E s \in GetTutorProfile(r.tutor).subjects :
                  s.title.subject = title.subject /\ level \in s.levels
             /\ \A i \in r.rated : <<referees[i].email, TRUE>> \in GetTutorProfile(r.tutor).reviews
  <2>1. PICK t \in Tutors \ (blocked \cup deActivated) :
          /\ r = [tutor |-> t, rated |-> {j \in RefereesOf(t) : referees[j].review}]
          /\ \E i \in OffersOf(t) : offers[i].title = Lower(title) /\ level \in offers[i].levels
    BY DEF FilterTutor
  <2>2. PICK i \in OffersOf(t) : offers[i].title = Lower(title) /\ level \in offers[i].levels
    BY <2>1
  <2> DEFINE s == [title |-> offers[i].title, levels |-> offers[i].levels]
  <2>3. s \in GetTutorProfile(t).subjects
    BY DEF GetTutorProfile
  <2>4. s.title.subject = title.subject /\ level \in s.levels
    BY <1>1, <2>2
  <2>5. ASSUME NEW j \in r.rated
        PROVE  <<referees[j].email, TRUE>> \in GetTutorProfile(t).reviews
    <3>1. j \in RefereesOf(t) /\ referees[j].review
      BY <2>1
    <3>2. referees[j].review = TRUE
      <4>1. referees[j].review \in BOOLEAN
        BY <3>1 DEF RefereesOf, Typed, TypeOK, Referee
      <4> QED
        BY <3>1, <4>1
    <3> QED
      BY <3>1, <3>2, Zenon DEF GetTutorProfile
  <2> QED
    BY <2>1, <2>3, <2>4, <2>5
<1> QED
  BY <1>2, <1>3

-----------------------------------------------------------------------------
(* Theorems                                                                *)

\* The variables of both modules stay in their types.
THEOREM TypeCorrect == DirectorySpec => []DirectoryTypeOK
<1>1. DirectoryInv => DirectoryTypeOK
  BY DEF DirectoryInv, OffersOK, Typed, DirectoryTypeOK
<1> QED
  BY <1>1, DirectoryAlways, PTL

\* What a tutor submitted last, of each document and of the name, is in force or where
\* an admin looks for it, unless it came while an admin decided on what was there.
THEOREM SubmissionsStand == DirectorySpec => []SubmittedStands
<1>1. DirectoryInv => SubmittedStands
  BY DEF DirectoryInv, DocsStand, NamesStand, SubmittedStands, NameStands
<1> QED
  BY <1>1, DirectoryAlways, PTL

\* A document that was approved stays approved until the tutor removes the documents.
THEOREM ApprovalsStand == DirectorySpec => ApprovedStands
<1>1. ASSUME DirectoryInv, [DirectoryNext]_directoryVars
      PROVE  [documents'.there =>
                \A d \in Docs : documents.approved[d] # 0 => documents'.approved[d] # 0]_vars
  <2>1. CASE [Next]_vars
    BY <1>1, <2>1, NextApproved, ApprovalAssumption DEF DirectoryInv
  <2>2. CASE UNCHANGED documents
    BY <2>2
  <2>3. [Next]_vars \/ UNCHANGED documents
    BY <1>1, DirectorySteps DEF tutorRows
  <2> QED
    BY <2>1, <2>2, <2>3
<1> QED
  BY <1>1, DirectoryAlways, PTL DEF DirectorySpec, ApprovedStands

\* The search of tutors and their profiles show the same offers and reviews.
THEOREM SearchAgrees == DirectorySpec => []DirectoryAgrees
<1>1. DirectoryInv => DirectoryAgrees
  BY PagesAgree DEF DirectoryInv
<1> QED
  BY <1>1, DirectoryAlways, PTL

\* Once nothing is under way the admins have been told of all that was submitted, unless a
\* body lowered the flag since, and every referee was mailed the link at the address of the
\* row, unless a request was cut short.
THEOREM NothingForgotten == DirectorySpec => []NothingOwed
<1>1. ASSUME Typed, Owed, Quiet
      PROVE  FlagsRaised /\ RefereeInvited
  <2>1. \A h \in Handlers : request[h].pc = "idle"
    BY <1>1 DEF Quiet
  <2>2. ~broken => /\ AllApproved /\ ~bypassed => Raised("government")
                   /\ qualified => Raised("qualification")
                   /\ \A i \in DOMAIN referees : referees[i].review => Raised("referee")
    BY <1>1, <2>1 DEF Owed, GovernmentTold, QualificationTold, ReviewsTold, At
  <2>3. RefereeInvited
    BY <1>1, <2>1 DEF Owed, LinksMailed, Mailed, RefereeInvited
  <2> QED
    BY <2>2, <2>3 DEF FlagsRaised, Raised
<1>2. DirectoryInv => NothingOwed
  BY <1>1 DEF DirectoryInv, NothingLost, NothingOwed, FlagsRaised, RefereeInvited
<1> QED
  BY <1>2, DirectoryAlways, PTL

================================================================================

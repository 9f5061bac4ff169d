-------------------------------- MODULE Approval --------------------------------
(***************************************************************************)
(* What a tutor submits and an admin approves: documents, a new name,      *)
(* qualifications, and referees who are mailed a link to review the tutor. *)
(*                                                                         *)
(* A document is pending until an admin approves it.  The approval reads   *)
(* the pending ones and writes later, while the tutor may upload others.   *)
(* Uploads, names and reviews are numbered; urls, ratings and wording are  *)
(* left out.  One tutor is modelled: no handler touches two.               *)
(***************************************************************************)
EXTENDS Integers, Sequences

CONSTANTS
  Docs,          \* kinds of documents: passport, license, criminal record
  Names,         \* the parts of a name: first and last
  Bodies,        \* what requests write into the approval columns
  Decisions,     \* statuses that admins give
  Emails,        \* addresses of referees
  Handlers,      \* slots for the requests in flight
  Nobody,
  MaxUploads,    \* bound on numbers of uploads and names
  MaxReferees,   \* bound on rows of table Referees
  MaxRequests,   \* bound on requests
  MaxFaults      \* bound on rejected calls and restarts

Approval == {"PENDING", "APPROVED", "REJECTED", "NOT_ADDED"}
FlagNames == {"government", "qualification", "referee", "picture", "account"}

\* What a body writes into the approval columns: "none" into one that it does not name.
Columns == [FlagNames -> Approval \cup {"none"}]

ASSUME ApprovalAssumption ==
  /\ Nobody \notin Emails /\ Docs # {} /\ Docs \cap Names = {}
  /\ Bodies \subseteq Columns /\ Decisions \subseteq Approval
  /\ {MaxUploads, MaxReferees, MaxRequests, MaxFaults} \subseteq Nat

VARIABLES
  documents,  \* the tutor's row of table Documents
  flags,      \* the approval columns of the tutor
  names,      \* the user's name and the requested one
  qualified,  \* is there a row of table Qualification?
  referees,   \* table Referees with its reviews, by id
  invited,    \* links mailed: pairs of a referee's id and an address
  request,    \* local state of the request in each slot
  uploads,    \* number of the last upload or name
  latest,     \* history: the last upload of each document, 0 once removed
  asked,      \* history: the last name asked for, by parts
  crossed,    \* history: documents and parts of the name submitted while an
              \* admin decided on what was there before
  lowered,    \* history: flags that a body has set back to NOT_ADDED
  bypassed,   \* history: has the route without the flag approved a document?
  broken,     \* history: was a request cut short?
  requests, faults

tutorRows == <<documents, flags, names, qualified>>
refereeRows == <<referees, invited>>
history == <<latest, asked, crossed, lowered, bypassed, broken>>
bounds == <<uploads, requests, faults>>
vars == <<tutorRows, refereeRows, request, history, bounds>>

Urls == [Docs -> 0..MaxUploads]
NoUrls == [d \in Docs |-> 0]
Documents == [there : BOOLEAN, pending : Urls, approved : Urls, status : Approval]
Numbers == [Names -> 0..MaxUploads]
NoNumbers == [n \in Names |-> 0]
Referee == [email : Emails, there : BOOLEAN, review : BOOLEAN]

\* docs are uploaded, cleared are sent with an empty url, named are the parts of
\* the name asked for; name: the parts a decision takes over, 0 where none is given;
\* seen: the pending uploads it has read; known: the referee has this address, or a
\* review, already.
Request ==
  [pc : {"idle", "names", "documents", "read", "write", "check", "flag", "rename",
         "look", "insert", "update", "invite", "store", "notice"},
   op : {"request", "judge", "plainJudge", "qualify", "invite", "change", "review"},
   docs : SUBSET Docs, cleared : SUBSET Docs, named : SUBSET Names, name : Numbers,
   status : Approval, seen : Urls,
   id : 0..MaxReferees, email : Emails \cup {Nobody}, known : BOOLEAN]

Idle == [pc |-> "idle", op |-> "request", docs |-> {}, cleared |-> {}, named |-> {},
         name |-> NoNumbers, status |-> "PENDING", seen |-> NoUrls, id |-> 0, email |-> Nobody,
         known |-> FALSE]

NoDocuments == [there |-> FALSE, pending |-> NoUrls, approved |-> NoUrls, status |-> "NOT_ADDED"]

Init ==
  /\ documents = [NoDocuments EXCEPT !.there = TRUE]
  /\ flags = [f \in FlagNames |-> IF f = "account" THEN "PENDING" ELSE "NOT_ADDED"]
  /\ names = [now |-> NoNumbers, asked |-> NoNumbers] /\ qualified = FALSE
  /\ referees = <<>> /\ invited = {}
  /\ request = [h \in Handlers |-> Idle]
  /\ uploads = 0 /\ latest = NoUrls /\ asked = NoNumbers /\ crossed = {}
  /\ lowered = {} /\ bypassed = FALSE /\ broken = FALSE
  /\ requests = 0 /\ faults = 0

-----------------------------------------------------------------------------
(* Helpers                                                                 *)

At(h, op, pc) == request[h].op = op /\ request[h].pc = pc
Set(h, r) == request' = [request EXCEPT ![h] = r]
Goto(h, pc) == Set(h, [request[h] EXCEPT !.pc = pc])
Settle(h) == Set(h, Idle)

\* Decisions that have read the documents, and decisions on a part of the name.
Approving == {h \in Handlers : request[h].pc = "write" /\ request[h].status = "APPROVED"}
Naming(n) == {h \in Handlers : request[h].op = "judge" /\ request[h].name[n] # 0}

AllApproved == \A d \in Docs : documents.approved[d] # 0

Counted == requests < MaxRequests /\ requests' = requests + 1

Begin(h, r) ==
  /\ request[h].pc = "idle"
  /\ Counted
  /\ Set(h, r)
  /\ UNCHANGED <<tutorRows, refereeRows, history, uploads, faults>>

-----------------------------------------------------------------------------
(* Documents and names                                                     *)

\* Slip: a status of its own for what is uploaded.
UploadReceived(docs, cleared, status) ==
  /\ docs # {} => uploads < MaxUploads
  /\ uploads' = IF docs = {} THEN uploads ELSE uploads + 1
  /\ LET sent(was) == [d \in Docs |-> IF d \in docs THEN uploads'
                                     ELSE IF d \in cleared THEN 0 ELSE was[d]]
     IN /\ documents' = [documents EXCEPT !.there = TRUE, !.status = "RECEIVED", !.pending = sent(@)]
        /\ latest' = sent(latest)
  /\ crossed' = IF Approving # {} THEN crossed \cup docs ELSE crossed \ docs

\* The uploads join the row, or make it; an empty url takes a pending one back.
Upload(docs, cleared, status) ==
  /\ docs # {} => uploads < MaxUploads
  /\ uploads' = IF docs = {} THEN uploads ELSE uploads + 1
  /\ LET sent(was) == [d \in Docs |-> IF d \in docs THEN uploads'
                                     ELSE IF d \in cleared THEN 0 ELSE was[d]]
     IN /\ documents' = [documents EXCEPT !.there = TRUE, !.status = status, !.pending = sent(@)]
        /\ latest' = sent(latest)
  /\ crossed' = IF Approving # {} THEN crossed \cup docs ELSE crossed \ docs

\* DocumentsService.update upserts.
UpdateDocuments(docs, cleared) ==
  /\ Counted
  /\ Upload(docs, cleared, "PENDING")
  /\ UNCHANGED <<flags, names, qualified, refereeRows, request, asked, lowered, bypassed, broken,
                 faults>>

\* DocumentsService.create refuses a second row and leaves the status to its default.
CreateDocuments(docs) ==
  /\ Counted
  /\ ~documents.there
  /\ Upload(docs, {}, "NOT_ADDED")
  /\ UNCHANGED <<flags, names, qualified, refereeRows, request, asked, lowered, bypassed, broken,
                 faults>>

RemoveDocuments ==
  /\ Counted
  /\ documents.there
  /\ documents' = NoDocuments
  /\ latest' = NoUrls
  /\ UNCHANGED <<flags, names, qualified, refereeRows, request, asked, crossed,
                 lowered, bypassed, broken, uploads, faults>>

\* requestUpdationApproval: the parts of a name that are given, then the documents.
RequestUpdationApproval(h, docs, cleared, named) ==
  Begin(h, [Idle EXCEPT !.op = "request", !.docs = docs, !.cleared = cleared, !.named = named,
                        !.pc = IF named # {} THEN "names" ELSE "documents"])

WriteRequestedName(h) ==
  LET named == request[h].named
      sent(was) == [n \in Names |-> IF n \in named THEN uploads + 1 ELSE was[n]]
  IN /\ At(h, "request", "names")
     /\ uploads < MaxUploads
     /\ uploads' = uploads + 1
     /\ names' = [names EXCEPT !.asked = sent(@)]
     /\ asked' = sent(asked)
     /\ crossed' = (crossed \ named) \cup {n \in named : Naming(n) # {}}
     /\ Set(h, [request[h] EXCEPT !.pc = "documents", !.named = {}])
     /\ UNCHANGED <<documents, flags, qualified, refereeRows, latest, lowered, bypassed, broken,
                    requests, faults>>

WriteRequestedDocuments(h) ==
  /\ At(h, "request", "documents")
  /\ Upload(request[h].docs, request[h].cleared, "PENDING")
  /\ Settle(h)
  /\ UNCHANGED <<flags, names, qualified, refereeRows, asked, lowered, bypassed, broken, requests,
                 faults>>

-----------------------------------------------------------------------------
(* Decisions                                                               *)

\* The admin sends back the parts of the requested name that the page showed; only an
\* approval looks at them.
UpdateDocumentStatus(h, status, named) ==
  LET given(n) == status = "APPROVED" /\ n \in named
  IN Begin(h, [Idle EXCEPT !.op = "judge", !.pc = "read", !.status = status,
                           !.name = [n \in Names |-> IF given(n) THEN names.asked[n] ELSE 0]])

\* The route under /document, which has no flag and no name.
UpdateStatusPlain(h, status) ==
  Begin(h, [Idle EXCEPT !.op = "plainJudge", !.pc = "read", !.status = status])

ReadDocuments(h) ==
  /\ request[h].pc = "read"
  /\ IF request[h].status = "APPROVED" /\ ~documents.there THEN Settle(h)
     ELSE Set(h, [request[h] EXCEPT !.pc = "write", !.seen = documents.pending])
  /\ UNCHANGED <<tutorRows, refereeRows, history, bounds>>

\* Slips: every decision empties the pending documents; a document that was not
\* pending is approved as it was read.
DecidedEmpties(r) ==
  [documents EXCEPT
     !.status = r.status, !.pending = NoUrls,
     !.approved = [d \in Docs |-> IF r.status = "APPROVED" /\ r.seen[d] # 0 THEN r.seen[d] ELSE @[d]]]
DecidedBlindly(r) ==
  IF r.status # "APPROVED" THEN [documents EXCEPT !.status = r.status]
  ELSE [documents EXCEPT !.status = r.status, !.pending = NoUrls, !.approved = r.seen]

\* What is approved moves from pending to approved, as it was read.
Decided(r) ==
  LET moves(d) == r.status = "APPROVED" /\ r.seen[d] # 0
  IN [documents EXCEPT
        !.status = r.status,
        !.pending = [d \in Docs |-> IF moves(d) THEN 0 ELSE @[d]],
        !.approved = [d \in Docs |-> IF moves(d) THEN r.seen[d] ELSE @[d]]]

WriteDecision(h) ==
  LET r == request[h]
  IN /\ r.pc = "write"
     /\ IF ~documents.there THEN Settle(h) /\ UNCHANGED <<documents, bypassed>>
        ELSE /\ documents' = Decided(r)
             /\ IF r.op = "judge" THEN Goto(h, "check") ELSE Settle(h)
             /\ bypassed' = (bypassed \/ (r.op = "plainJudge" /\ r.status = "APPROVED"))
     /\ UNCHANGED <<flags, names, qualified, refereeRows, latest, asked, crossed, lowered, broken,
                    bounds>>

AfterFlag(r) == IF r.name # NoNumbers THEN [r EXCEPT !.pc = "rename"] ELSE Idle

\* Slip: only what this decision approves counts.
CheckApprovedAsRead(h) ==
  /\ At(h, "judge", "check")
  /\ IF \A d \in Docs : request[h].seen[d] # 0 THEN Goto(h, "flag")
     ELSE IF documents.there THEN Set(h, AfterFlag(request[h]))
     ELSE Settle(h)
  /\ UNCHANGED <<tutorRows, refereeRows, history, bounds>>

\* updateDocumentApproval reads the documents again.
CheckApproved(h) ==
  /\ At(h, "judge", "check")
  /\ IF AllApproved THEN Goto(h, "flag")
     ELSE IF documents.there THEN Set(h, AfterFlag(request[h]))
     ELSE Settle(h)
  /\ UNCHANGED <<tutorRows, refereeRows, history, bounds>>

RaiseFlag(f) == flags' = [flags EXCEPT ![f] = "PENDING"] /\ lowered' = lowered \ {f}

RaiseGovernment(h) ==
  /\ At(h, "judge", "flag")
  /\ RaiseFlag("government")
  /\ Set(h, AfterFlag(request[h]))
  /\ UNCHANGED <<documents, names, qualified, refereeRows, latest, asked, crossed, bypassed, broken,
                 bounds>>

\* Each part that was sent is taken over, and no longer asked for.
Rename(h) ==
  LET given == request[h].name
  IN /\ At(h, "judge", "rename")
     /\ names' = [now |-> [n \in Names |-> IF given[n] # 0 THEN given[n] ELSE names.now[n]],
                  asked |-> [n \in Names |-> IF given[n] # 0 THEN 0 ELSE names.asked[n]]]
     /\ Settle(h)
     /\ UNCHANGED <<documents, flags, qualified, refereeRows, history, bounds>>

\* The columns that a body names get its values, whatever they are.
WriteFlags(body) ==
  /\ Counted
  /\ flags' = [f \in FlagNames |-> IF body[f] = "none" THEN flags[f] ELSE body[f]]
  /\ lowered' = {f \in FlagNames : body[f] = "NOT_ADDED" \/ (body[f] = "none" /\ f \in lowered)}
  /\ UNCHANGED <<documents, names, qualified, refereeRows, request, latest, asked, crossed,
                 bypassed, broken, uploads, faults>>

\* tutor-detail: the admin's body, and a mail to the tutor.
UpdateTutorDetail(body) == WriteFlags(body)

\* The tutor's body, which may name approval columns too; the account's is computed
\* from those in the body, and from whether the tutor's address is confirmed.
UpdateTutor(body, confirmed) ==
  LET approves == confirmed /\ \A f \in FlagNames \ {"account"} : body[f] = "APPROVED"
  IN WriteFlags([body EXCEPT !["account"] = IF approves THEN "APPROVED" ELSE "PENDING"])

-----------------------------------------------------------------------------
(* Qualifications                                                          *)

CreateQualification(h) == Begin(h, [Idle EXCEPT !.op = "qualify", !.pc = "insert"])

InsertQualification(h) ==
  /\ At(h, "qualify", "insert")
  /\ qualified' = TRUE
  /\ Goto(h, "notice")
  /\ UNCHANGED <<documents, flags, names, refereeRows, history, bounds>>

RemoveQualification ==
  /\ Counted
  /\ qualified
  /\ qualified' = FALSE
  /\ UNCHANGED <<documents, flags, names, refereeRows, request, history, uploads, faults>>

-----------------------------------------------------------------------------
(* Referees                                                                *)

Listed(email) == {i \in DOMAIN referees : referees[i].there /\ referees[i].email = email}

CreateReferee(h, email) ==
  Begin(h, [Idle EXCEPT !.op = "invite", !.pc = "look", !.email = email])

LookForReferee(h) ==
  /\ At(h, "invite", "look")
  /\ IF Listed(request[h].email) # {} THEN Settle(h) ELSE Goto(h, "insert")
  /\ UNCHANGED <<tutorRows, refereeRows, history, bounds>>

\* The address is unique.
InsertReferee(h) ==
  LET email == request[h].email
  IN /\ At(h, "invite", "insert")
     /\ Len(referees) < MaxReferees
     /\ IF Listed(email) # {} THEN Settle(h) /\ UNCHANGED referees
        ELSE /\ referees' = Append(referees, [email |-> email, there |-> TRUE, review |-> FALSE])
             /\ Set(h, [request[h] EXCEPT !.pc = "invite", !.id = Len(referees) + 1])
     /\ UNCHANGED <<tutorRows, invited, history, bounds>>

\* The mail to a referee: its link names the referee, for which the review counts.
Invitation(id, email) == <<id, email>>

MailLink(h) ==
  /\ request[h].pc = "invite"
  /\ invited' = invited \cup {Invitation(request[h].id, request[h].email)}
  /\ Settle(h)
  /\ UNCHANGED <<tutorRows, referees, history, bounds>>

\* RefereesService.update, which takes the address it had at the beginning along.
ChangeReferee(h, id, email) ==
  /\ id \in DOMAIN referees /\ referees[id].there
  /\ Begin(h, [Idle EXCEPT !.op = "change", !.pc = "update", !.id = id, !.email = email,
                           !.known = referees[id].email = email])

UpdateReferee(h) ==
  LET r == request[h]
  IN /\ At(h, "change", "update")
     /\ IF ~referees[r.id].there \/ Listed(r.email) \ {r.id} # {}
        THEN Settle(h) /\ UNCHANGED referees
        ELSE /\ referees' = [referees EXCEPT ![r.id].email = r.email]
             /\ IF r.known THEN Settle(h) ELSE Goto(h, "invite")
     /\ UNCHANGED <<tutorRows, invited, history, bounds>>

RemoveReferee(id) ==
  /\ Counted
  /\ referees[id].there
  /\ referees' = [referees EXCEPT ![id].there = FALSE, ![id].review = FALSE]
  /\ UNCHANGED <<tutorRows, invited, request, history, uploads, faults>>

\* A referee opens the link.
AddRefereeReview(h, id) ==
  Begin(h, [Idle EXCEPT !.op = "review", !.pc = "look", !.id = id])

LookForReview(h) ==
  /\ At(h, "review", "look")
  /\ Set(h, [request[h] EXCEPT !.pc = "store", !.known = referees[request[h].id].review])
  /\ UNCHANGED <<tutorRows, refereeRows, history, bounds>>

\* An update needs the review, and an insert needs the referee without one.
StoreReview(h) ==
  LET r == request[h]
      ref == referees[r.id]
  IN /\ At(h, "review", "store")
     /\ IF ref.there /\ ref.review = r.known
        THEN referees' = [referees EXCEPT ![r.id].review = TRUE] /\ Goto(h, "notice")
        ELSE Settle(h) /\ UNCHANGED referees
     /\ UNCHANGED <<tutorRows, invited, history, bounds>>

\* The flag of what was inserted, if the referee is still there.
Notice(h) ==
  LET r == request[h]
  IN /\ r.pc = "notice"
     /\ IF r.op = "qualify" THEN RaiseFlag("qualification")
        ELSE IF referees[r.id].there THEN RaiseFlag("referee")
        ELSE UNCHANGED <<flags, lowered>>
     /\ Settle(h)
     /\ UNCHANGED <<documents, names, qualified, refereeRows, latest, asked, crossed, bypassed,
                    broken, bounds>>

-----------------------------------------------------------------------------
(* Faults                                                                  *)

\* A call is rejected and the handler throws; or the process stops.
CallFails(h) ==
  /\ request[h].pc # "idle"
  /\ faults < MaxFaults /\ faults' = faults + 1
  /\ broken' = TRUE
  /\ Settle(h)
  /\ UNCHANGED <<tutorRows, refereeRows, latest, asked, crossed, lowered, bypassed, uploads,
                 requests>>

Restart ==
  /\ faults < MaxFaults /\ faults' = faults + 1
  /\ broken' = TRUE
  /\ request' = [h \in Handlers |-> Idle]
  /\ UNCHANGED <<tutorRows, refereeRows, latest, asked, crossed, lowered, bypassed, uploads,
                 requests>>

-----------------------------------------------------------------------------
Continue(h) ==
  \/ WriteRequestedName(h) \/ WriteRequestedDocuments(h)
  \/ ReadDocuments(h) \/ WriteDecision(h) \/ CheckApproved(h) \/ RaiseGovernment(h) \/ Rename(h)
  \/ InsertQualification(h) \/ LookForReferee(h) \/ InsertReferee(h) \/ MailLink(h)
  \/ UpdateReferee(h) \/ LookForReview(h) \/ StoreReview(h) \/ Notice(h)

\* Requests of one statement.
AtOnce ==
  \/ \E docs \in SUBSET Docs :
       CreateDocuments(docs) \/ \E cleared \in SUBSET (Docs \ docs) : UpdateDocuments(docs, cleared)
  \/ RemoveDocuments \/ RemoveQualification
  \/ \E body \in Bodies :
       UpdateTutorDetail(body) \/ \E confirmed \in BOOLEAN : UpdateTutor(body, confirmed)
  \/ \E id \in DOMAIN referees : RemoveReferee(id)

Starts(h) ==
  \/ \E docs \in SUBSET Docs, named \in SUBSET Names : \E cleared \in SUBSET (Docs \ docs) :
       RequestUpdationApproval(h, docs, cleared, named)
  \/ \E status \in Decisions :
       UpdateStatusPlain(h, status) \/ \E named \in SUBSET Names : UpdateDocumentStatus(h, status, named)
  \/ CreateQualification(h)
  \/ \E email \in Emails :
       CreateReferee(h, email) \/ \E id \in DOMAIN referees : ChangeReferee(h, id, email)
  \/ \E link \in invited : AddRefereeReview(h, link[1])

Next ==
  \/ AtOnce
  \/ \E h \in Handlers : Starts(h) \/ Continue(h) \/ CallFails(h)
  \/ Restart

Spec == Init /\ [][Next]_vars

-----------------------------------------------------------------------------
(* Properties                                                              *)

TypeOK ==
  /\ documents \in Documents /\ flags \in [FlagNames -> Approval]
  /\ names \in [now : Numbers, asked : Numbers] /\ qualified \in BOOLEAN
  /\ referees \in Seq(Referee) /\ invited \subseteq (1..MaxReferees) \X Emails
  /\ request \in [Handlers -> Request]
  /\ latest \in Urls /\ asked \in Numbers /\ crossed \subseteq Docs \cup Names
  /\ lowered \subseteq FlagNames
  /\ bypassed \in BOOLEAN /\ broken \in BOOLEAN
  /\ uploads \in 0..MaxUploads /\ requests \in 0..MaxRequests /\ faults \in 0..MaxFaults

\* Part of SubmittedStands: the last upload of a document is the approved one, or
\* is pending where an admin looks for it; only an upload during an approval may be
\* lost or hidden.
UploadStands ==
  \A d \in Docs \ crossed : latest[d] # 0 =>
    \/ documents.approved[d] = latest[d]
    \/ documents.pending[d] = latest[d] /\ documents.status # "APPROVED"

\* Part of SubmittedStands: each part of the name last asked for is the user's or still
\* asked for, unless it was asked while an admin decided on an earlier one.
NameStands == \A n \in Names \ crossed : asked[n] \in {names.now[n], names.asked[n]}

\* What was submitted last is in force or waits for an admin.
SubmittedStands == UploadStands /\ NameStands

\* No decision and no upload takes an approved document away.
ApprovedStands ==
  [][documents'.there =>
       \A d \in Docs : documents.approved[d] # 0 => documents'.approved[d] # 0]_vars

\* Part of NothingOwed: once nothing is under way, what was submitted has raised its
\* flag, in whatever order requests ended, unless one was cut short; a flag is down only
\* because a body, of a page that was stale perhaps, has lowered it since.
Quiet == \A h \in Handlers : request[h].pc = "idle"
Raised(f) == flags[f] # "NOT_ADDED" \/ f \in lowered
FlagsRaised ==
  Quiet /\ ~broken =>
    /\ AllApproved /\ ~bypassed => Raised("government")
    /\ qualified => Raised("qualification")
    /\ (\E i \in DOMAIN referees : referees[i].review) => Raised("referee")

\* Part of NothingOwed: every referee was mailed the link at the address of the row,
\* though address and row change while mails are on their way.
RefereeInvited ==
  Quiet /\ ~broken =>
    \A i \in DOMAIN referees : referees[i].there => <<i, referees[i].email>> \in invited

\* At rest, the admins have been told of what was submitted and the referees mailed.
NothingOwed == FlagsRaised /\ RefereeInvited
================================================================================

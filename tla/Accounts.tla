-------------------------------- MODULE Accounts --------------------------------
(***************************************************************************)
(* Accounts: registration in several statements without a transaction, the *)
(* link that confirms an address, changes and deletions of an account, and *)
(* the daily reminder of a new tutor.                                      *)
(*                                                                         *)
(* An account is deleted by a suffix to its address; rows and jobs stay.   *)
(* A call whose rejection is swallowed goes on, any other one leaves the   *)
(* rows written so far.  Passwords and sessions are in module Sessions.    *)
(* DELETE /user/all, a developer's route that empties the table, is left   *)
(* out: nothing said here of an account outlives it.                       *)
(***************************************************************************)
EXTENDS Integers, Sequences, FiniteSets

CONSTANTS
  Addresses, NoAddress,
  Handlers,      \* slots for the requests in flight
  MaxUsers,      \* bound on rows of table User
  MaxTokens,     \* bound on tokens of links
  MaxSuffixes,   \* bound on suffixes of an address
  MaxRequests,   \* bound on requests
  MaxFaults      \* bound on rejected calls and restarts

ASSUME AccountsAssumption ==
  /\ NoAddress \notin Addresses
  /\ {MaxUsers, MaxTokens, MaxSuffixes, MaxRequests, MaxFaults} \subseteq Nat

VARIABLES
  users,      \* table User, by id, each with the tables that have its row
  jobs,       \* reminder jobs: the user, the address it mails, has it started?
  alerts,     \* table Alert: what is told to the admins, of which user
  mailed,     \* mails handed over
  request,    \* local state of the request in each slot
  tokens,     \* number of the last token
  answered,   \* history: users whose registration was answered
  deleted,    \* history: users told 'deleted' who did not change address since
  excused,    \* history: a user and a table whose row was refused or removed
  cut,        \* history: users whose link was lost with its request
  requests, faults

accountRows == <<users, alerts>>
history == <<answered, deleted, excused, cut>>
bounds == <<tokens, requests, faults>>
accountVars == <<accountRows, jobs, mailed, request, history, bounds>>

Roles == {"TUTOR", "STUDENT"}
Ids == 1..MaxUsers
Email == [address : Addresses, suffixes : 0..MaxSuffixes]

\* The tables of a role.
Tables(role) ==
  IF role = "TUTOR" THEN {"Tutor", "Documents", "Subscription", "TutoringDetail"}
  ELSE {"Student", "StudentPayment"}
AllTables == Tables("TUTOR") \cup Tables("STUDENT")

User == [email : Email, role : Roles, approved : BOOLEAN, token : 0..MaxTokens,
         tables : SUBSET AllTables, filled : BOOLEAN]

Plain(a) == [address |-> a, suffixes |-> 0]
NoEmail == Plain(NoAddress)

\* A mail says of whom it is, where it goes, and which token or notice it carries.
Confirm(u, to, n) == [kind |-> "confirm", user |-> u, to |-> to, about |-> n]
Remind(u, to) == [kind |-> "remind", user |-> u, to |-> to, about |-> 0]

Request ==
  [pc : {"idle", "find", "insert", "look", "token", "mail", "remail", "rename"} \cup AllTables,
   user : 0..MaxUsers, email : Email \cup {NoEmail}, role : Roles, token : 0..MaxTokens]

Idle == [pc |-> "idle", user |-> 0, email |-> NoEmail, role |-> "TUTOR", token |-> 0]

AccountsInit ==
  /\ users = <<>> /\ jobs = {} /\ alerts = {} /\ mailed = {}
  /\ request = [h \in Handlers |-> Idle]
  /\ answered = {} /\ deleted = {} /\ excused = {} /\ cut = {}
  /\ tokens = 0 /\ requests = 0 /\ faults = 0

-----------------------------------------------------------------------------
(* Helpers                                                                 *)

At(h, pc) == request[h].pc = pc
Set(h, r) == request' = [request EXCEPT ![h] = r]
Goto(h, pc) == Set(h, [request[h] EXCEPT !.pc = pc])
Settle(h) == Set(h, Idle)
Counted == requests < MaxRequests /\ requests' = requests + 1

Begin(h, r) ==
  /\ At(h, "idle")
  /\ Counted
  /\ Set(h, r)
  /\ UNCHANGED <<accountRows, jobs, mailed, history, tokens, faults>>

Raise(alert) == alerts' = alerts \cup {alert}

\* A mail is handed to the provider, whose errors are swallowed.
HandOver(mails) == mailed' = mailed \cup mails
Registered(u) == <<"registered", u>>
Updated(u) == <<"updated", u>>

Holders(email) == {u \in DOMAIN users : users[u].email = email}

\* findOne, which the middleware calls for every request that is signed in, reads
\* the status of a tutor's subscription: without the record it throws.
Found(u) == users[u].role = "TUTOR" => "Subscription" \in users[u].tables

-----------------------------------------------------------------------------
(* Registration                                                            *)

Create(h, address, role) ==
  Begin(h, [Idle EXCEPT !.pc = "find", !.email = Plain(address), !.role = role])

FindUser(h) ==
  /\ At(h, "find")
  /\ IF Holders(request[h].email) # {} THEN Settle(h) ELSE Goto(h, "insert")
  /\ UNCHANGED <<accountRows, jobs, mailed, history, bounds>>

\* The address is unique.
InsertUser(h) ==
  LET r == request[h]
  IN /\ At(h, "insert")
     /\ Len(users) < MaxUsers /\ tokens < MaxTokens
     /\ IF Holders(r.email) # {} THEN Settle(h) /\ UNCHANGED <<users, tokens>>
        ELSE /\ users' = Append(users, [email |-> r.email, role |-> r.role,
                  approved |-> FALSE, token |-> tokens + 1, tables |-> {}, filled |-> FALSE])
             /\ tokens' = tokens + 1
             /\ Set(h, [r EXCEPT !.pc = IF r.role = "TUTOR" THEN "Tutor" ELSE "Student",
                                 !.user = Len(users) + 1, !.token = tokens + 1])
     /\ UNCHANGED <<jobs, alerts, mailed, history, requests, faults>>

\* The statement after the one that writes a table.
After(table) ==
  CASE table = "Tutor" -> "Documents"
    [] table = "Documents" -> "Subscription"
    [] table = "Subscription" -> "TutoringDetail"
    [] table = "Student" -> "StudentPayment"
    [] OTHER -> "mail"

\* A tutor gets a job that starts in a minute; an admin is told of a student.
CreateRow(h) ==
  LET r == request[h]
  IN /\ r.pc \in AllTables
     /\ users' = [users EXCEPT ![r.user].tables = @ \cup {r.pc}]
     /\ jobs' = IF r.pc = "Tutor"
                THEN jobs \cup {[user |-> r.user, to |-> r.email, started |-> FALSE]} ELSE jobs
     /\ IF r.pc = "StudentPayment" THEN Raise(Registered(r.user)) ELSE UNCHANGED alerts
     /\ Goto(h, After(r.pc))
     /\ UNCHANGED <<mailed, history, bounds>>

\* The end of a registration and of a resent link.
MailLink(h) ==
  LET r == request[h]
  IN /\ r.pc \in {"mail", "remail"}
     /\ HandOver({Confirm(r.user, r.email, r.token)})
     /\ answered' = IF r.pc = "mail" THEN answered \cup {r.user} ELSE answered
     /\ cut' = IF users[r.user].token = r.token THEN cut \ {r.user} ELSE cut
     /\ Settle(h)
     /\ UNCHANGED <<accountRows, jobs, deleted, excused, bounds>>

\* Mutant: whatever fails is swallowed.
CallFailsOn(h) ==
  LET r == request[h]
  IN /\ r.pc # "idle"
     /\ faults < MaxFaults /\ faults' = faults + 1
     /\ IF r.pc \in AllTables THEN Goto(h, After(r.pc)) ELSE Settle(h)
     /\ excused' = IF r.pc = "Subscription" THEN excused \cup {<<r.user, r.pc>>} ELSE excused
     /\ cut' = IF r.user # 0 THEN cut \cup {r.user} ELSE cut
     /\ UNCHANGED <<accountRows, jobs, mailed, answered, deleted, tokens, requests>>

\* A call is rejected.  Registration goes on without the subscription's record, and
\* is answered without its mail.
CallFails(h) ==
  LET r == request[h]
  IN /\ r.pc # "idle"
     /\ faults < MaxFaults /\ faults' = faults + 1
     /\ IF r.pc = "Subscription" THEN Goto(h, After(r.pc)) ELSE Settle(h)
     /\ excused' = IF r.pc = "Subscription" THEN excused \cup {<<r.user, r.pc>>} ELSE excused
     /\ answered' = IF r.pc = "mail" THEN answered \cup {r.user} ELSE answered
     /\ cut' = IF r.user # 0 THEN cut \cup {r.user} ELSE cut
     /\ UNCHANGED <<accountRows, jobs, mailed, deleted, tokens, requests>>

-----------------------------------------------------------------------------
(* The link                                                                *)

Resend(h, u) == Found(u) /\ Begin(h, [Idle EXCEPT !.pc = "look", !.user = u])

LookForResend(h) ==
  LET r == request[h]
  IN /\ At(h, "look")
     /\ IF users[r.user].approved THEN Settle(h)
        ELSE Set(h, [r EXCEPT !.pc = "token", !.email = users[r.user].email])
     /\ UNCHANGED <<accountRows, jobs, mailed, history, bounds>>

\* Mutant: the mail carries the token of the user as it was read.
WriteTokenMailRead(h) ==
  LET r == request[h]
  IN /\ At(h, "token")
     /\ tokens < MaxTokens /\ tokens' = tokens + 1
     /\ users' = [users EXCEPT ![r.user].token = tokens + 1]
     /\ Set(h, [r EXCEPT !.pc = "remail", !.token = users[r.user].token])
     /\ UNCHANGED <<alerts, jobs, mailed, history, requests, faults>>

WriteToken(h) ==
  LET r == request[h]
  IN /\ At(h, "token")
     /\ tokens < MaxTokens /\ tokens' = tokens + 1
     /\ users' = [users EXCEPT ![r.user].token = tokens + 1]
     /\ Set(h, [r EXCEPT !.pc = "remail", !.token = tokens + 1])
     /\ UNCHANGED <<alerts, jobs, mailed, history, requests, faults>>

\* Whoever has a mail opens its link: the user who has the token is approved.
ConfirmEmail(m) ==
  /\ m.kind = "confirm" /\ m.about # 0
  /\ \E u \in DOMAIN users :
       /\ users[u].token = m.about
       /\ users' = [users EXCEPT ![u].token = 0, ![u].approved = TRUE]
  /\ UNCHANGED <<alerts, jobs, mailed, request, history, bounds>>

-----------------------------------------------------------------------------
(* Changes and deletions                                                   *)

MayUpdate(u) == Found(u) /\ users[u].approved

\* PATCH /user with another address, the one column of the body that is read here:
\* refused before the address is confirmed, or if another user has it.
Update(u, address) ==
  /\ Counted
  /\ MayUpdate(u)
  /\ users[u].email # Plain(address) /\ Holders(Plain(address)) = {}
  /\ users' = [users EXCEPT ![u].email = Plain(address)]
  /\ Raise(Updated(u))
  /\ deleted' = deleted \ {u}
  /\ UNCHANGED <<jobs, mailed, request, answered, excused, cut, tokens, faults>>

\* A picture that is uploaded becomes the user's, whether or not the address is
\* confirmed, and the admins are told.
UpdatePicture(u) ==
  /\ Counted
  /\ Found(u)
  /\ Raise(Updated(u))
  /\ UNCHANGED <<users, jobs, mailed, request, history, tokens, faults>>

\* The user, or an admin: a tutor needs the row of table Tutor to be deleted.
Remove(h, u) ==
  /\ Found(u)
  /\ Begin(h, [Idle EXCEPT !.pc = "rename", !.user = u, !.email = users[u].email])

DeleteByAdmin(h, u) ==
  /\ users[u].role = "TUTOR" => "Tutor" \in users[u].tables
  /\ Remove(h, u)

\* Mutant: the suffix is forgotten.
WriteDeletedPlain(h) ==
  LET r == request[h]
  IN /\ At(h, "rename")
     /\ users' = [users EXCEPT ![r.user].email = r.email]
     /\ deleted' = deleted \cup {r.user}
     /\ Settle(h)
     /\ UNCHANGED <<alerts, jobs, mailed, answered, excused, cut, bounds>>

\* The address that was read gets a suffix; it may be taken, by an account of the
\* same address that was deleted before.
WriteDeleted(h) ==
  LET r == request[h]
      email == [r.email EXCEPT !.suffixes = @ + 1]
  IN /\ At(h, "rename")
     /\ email.suffixes <= MaxSuffixes
     /\ IF Holders(email) \subseteq {r.user}
        THEN /\ users' = [users EXCEPT ![r.user].email = email]
             /\ deleted' = deleted \cup {r.user}
        ELSE UNCHANGED <<users, deleted>>
     /\ Settle(h)
     /\ UNCHANGED <<alerts, jobs, mailed, answered, excused, cut, bounds>>

\* getSubscription makes a record that is missing.  The tutor's own requests do not get
\* there, as Found shows; an admin who cancels or reinstates the subscription does.
MakeRecord(u) ==
  /\ Counted
  /\ users[u].role = "TUTOR" /\ ~Found(u)
  /\ users' = [users EXCEPT ![u].tables = @ \cup {"Subscription"}]
  /\ UNCHANGED <<alerts, jobs, mailed, request, history, tokens, faults>>

-----------------------------------------------------------------------------
(* The daily reminder of a tutor                                           *)

\* The tutor's own routes need the row of table Tutor.
CurrentTutor(u) == Found(u) /\ "Tutor" \in users[u].tables

\* The tutor fills in the details and documents, or removes the details.
FillIn(u) ==
  /\ Counted
  /\ CurrentTutor(u) /\ "TutoringDetail" \in users[u].tables
  /\ users' = [users EXCEPT ![u].filled = TRUE]
  /\ UNCHANGED <<alerts, jobs, mailed, request, history, tokens, faults>>

RemoveDetail(u) ==
  /\ Counted
  /\ CurrentTutor(u) /\ "TutoringDetail" \in users[u].tables
  /\ users' = [users EXCEPT ![u].tables = @ \ {"TutoringDetail"}]
  /\ excused' = excused \cup {<<u, "TutoringDetail">>}
  /\ UNCHANGED <<alerts, jobs, mailed, request, answered, deleted, cut, tokens, faults>>

StartJob(j) ==
  /\ ~j.started
  /\ jobs' = (jobs \ {j}) \cup {[j EXCEPT !.started = TRUE]}
  /\ UNCHANGED <<accountRows, mailed, request, history, bounds>>

\* Without details the job throws.
Owing(u) == "TutoringDetail" \in users[u].tables /\ ~users[u].filled

\* The job mails the address of the registration.
RunJob(j) ==
  /\ j.started /\ Owing(j.user)
  /\ HandOver({Remind(j.user, j.to)})
  /\ UNCHANGED <<accountRows, jobs, request, history, bounds>>

\* Requests and jobs are lost.
AccountsRestart ==
  /\ faults < MaxFaults /\ faults' = faults + 1
  /\ jobs' = {}
  /\ cut' = cut \cup ({request[h].user : h \in Handlers} \ {0})
  /\ request' = [h \in Handlers |-> Idle]
  /\ UNCHANGED <<accountRows, mailed, answered, deleted, excused, tokens, requests>>

-----------------------------------------------------------------------------
AccountsNext ==
  \/ \E h \in Handlers, a \in Addresses, role \in Roles : Create(h, a, role)
  \/ \E h \in Handlers :
       \/ FindUser(h) \/ InsertUser(h) \/ CreateRow(h) \/ MailLink(h) \/ CallFails(h)
       \/ LookForResend(h) \/ WriteToken(h) \/ WriteDeleted(h)
       \/ \E u \in DOMAIN users : Resend(h, u) \/ Remove(h, u) \/ DeleteByAdmin(h, u)
  \/ \E m \in mailed : ConfirmEmail(m)
  \/ \E u \in DOMAIN users :
       \/ MakeRecord(u) \/ FillIn(u) \/ RemoveDetail(u) \/ UpdatePicture(u)
       \/ \E a \in Addresses : Update(u, a)
  \/ \E j \in jobs : StartJob(j) \/ RunJob(j)

-----------------------------------------------------------------------------
(* Properties                                                              *)

AccountsTypeOK ==
  /\ users \in Seq(User) /\ Len(users) <= MaxUsers
  /\ jobs \subseteq [user : Ids, to : Email, started : BOOLEAN]
  /\ alerts \subseteq {"registered", "updated"} \X Ids
  /\ request \in [Handlers -> Request]
  /\ answered \subseteq Ids /\ deleted \subseteq Ids /\ cut \subseteq Ids
  /\ excused \subseteq Ids \X AllTables
  /\ tokens \in 0..MaxTokens /\ requests \in 0..MaxRequests /\ faults \in 0..MaxFaults

\* A registration that was answered has left the rows of its role, but for a
\* subscription's record whose refusal was swallowed, or details removed since.
AnsweredWhole ==
  \A u \in answered : \A t \in Tables(users[u].role) :
    t \in users[u].tables \/ <<u, t>> \in excused

\* A user who has not confirmed can: the token in the table is in a mail to the
\* address the user had, unless its request goes on or was cut short.
LinkWorks ==
  \A u \in DOMAIN users :
    \/ users[u].approved \/ u \in cut
    \/ \E m \in mailed : m.kind = "confirm" /\ m.user = u /\ m.about = users[u].token
    \/ \E h \in Handlers : request[h].user = u /\ request[h].token = users[u].token

\* Whoever was told that the account is deleted is mailed at the old address no
\* more, except by the daily job and by a link that was under way.
DeletedLeftAlone ==
  [][\A m \in mailed' \ mailed : m.user \in deleted /\ m.kind # "remind" =>
       \/ m.to.suffixes > 0
       \/ \E h \in Handlers : request[h].pc \in {"mail", "remail"} /\ request[h].user = m.user]_accountVars
================================================================================

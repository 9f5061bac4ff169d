------------------------------ MODULE NoticesProofs ------------------------------
(***************************************************************************)
(* Proofs about accounts and notices, for any numbers of users, requests,  *)
(* tokens and notices, whatever overlaps, is refused or lost.              *)
(***************************************************************************)
EXTENDS Notices, SequenceTheorems, TLAPS

-----------------------------------------------------------------------------
(* The inductive invariant                                                 *)

\* The tables whose rows a registration has written before the one at pc.
Before(pc) ==
  CASE pc = "Documents" -> {"Tutor"}
    [] pc = "Subscription" -> {"Tutor", "Documents"}
    [] pc = "TutoringDetail" -> {"Tutor", "Documents", "Subscription"}
    [] pc = "StudentPayment" -> {"Student"}
    [] OTHER -> {}

HasOrExcused(u, t) == t \in users[u].tables \/ <<u, t>> \in excused
Whole(u) == \A t \in Tables(users[u].role) : HasOrExcused(u, t)

\* A request knows its user, and a registration what it has written.
RequestOK(r) ==
  /\ r.pc = "idle" => r.user = 0
  /\ r.pc \in {"find", "insert"} => r.email \in Email /\ r.user = 0
  /\ r.pc \in {"look", "token", "rename"} => r.token = 0
  /\ r.pc \in AllTables \cup {"rename"} => r.email \in Email
  /\ r.pc \in AllTables \cup {"look", "token", "mail", "remail", "rename"} => r.user \in DOMAIN users
  /\ r.pc \in AllTables =>
       r.pc \in Tables(users[r.user].role) /\ \A t \in Before(r.pc) : HasOrExcused(r.user, t)
  /\ r.pc = "mail" => Whole(r.user)

Held == \A h \in Handlers : RequestOK(request[h])

Answered == answered \subseteq DOMAIN users /\ AnsweredWhole

LinksOK == LinkWorks /\ \A u \in DOMAIN users : users[u].token = 0 => users[u].approved

Renamed == \A u \in deleted : u \in DOMAIN users /\ users[u].email.suffixes > 0

\* Who was to be mailed a notice is still who it is for.
AudiencesOK ==
  audience \in Seq(SUBSET Ids) /\ \A n \in DOMAIN notices : audience[n] \subseteq Readers(n)
PostingsOK == \A p \in Posters :
  /\ posting[p].pc = "notify" => posting[p].id \in DOMAIN notices
  /\ posting[p].pc \in {"find", "subscribe"} => posting[p].to \in Addresses
MailsOK == \A m \in mailed : m.kind = "notice" => m.user \in DOMAIN users

NoticesOK == AudiencesOK /\ PostingsOK /\ MailsOK /\ NoticesAgree

AccountsOK == Held /\ Answered /\ LinksOK /\ Renamed
Inv == TypeOK /\ AccountsOK /\ NoticesOK

-----------------------------------------------------------------------------
(* What stays true of the users                                            *)

\* Users and their roles stay, a row is lost only with an excuse, and a user that can
\* be found is found ever after.
Grows ==
  /\ DOMAIN users \subseteq DOMAIN users'
  /\ \A u \in DOMAIN users :
       /\ users'[u].role = users[u].role
       /\ \A t \in AllTables : HasOrExcused(u, t) => HasOrExcused(u, t)'
       /\ Found(u) => Found(u)'

LEMMA TablesOfRoles ==
  ASSUME NEW role \in Roles
  PROVE  Tables(role) \subseteq AllTables
BY DEF Tables, AllTables, Roles

LEMMA UserTyped ==
  ASSUME TypeOK, NEW u \in DOMAIN users
  PROVE  /\ users[u] \in User /\ users[u].role \in Roles /\ users[u].email \in Email
         /\ u \in Nat /\ u # 0 /\ u \in Ids /\ Tables(users[u].role) \subseteq AllTables
<1>1. users \in Seq(User) /\ Len(users) <= MaxUsers /\ MaxUsers \in Nat
  BY AccountsAssumption DEF TypeOK, AccountsTypeOK, AccountsAssumption
<1>2. users[u] \in User /\ u \in Nat /\ u # 0 /\ u \in Ids
  BY <1>1 DEF Ids
<1>3. users[u].role \in Roles /\ users[u].email \in Email
  BY <1>2 DEF User
<1> QED
  BY <1>2, <1>3, TablesOfRoles

LEMMA BeforeTables == \A pc : Before(pc) \subseteq AllTables
BY DEF Before, AllTables, Tables

LEMMA IdleTyped == Idle \in Request /\ Idle.pc = "idle" /\ Idle.user = 0 /\ Idle.token = 0
BY AccountsAssumption DEF AccountsAssumption, Idle, Request, Roles

LEMMA SetFields ==
  ASSUME TypeOK, NEW h \in Handlers, NEW r \in Request, Set(h, r)
  PROVE  /\ request' \in [Handlers -> Request] /\ request'[h] = r
         /\ \A g \in Handlers \ {h} : request'[g] = request[g]
BY DEF TypeOK, AccountsTypeOK, Set

\* What holds of a request goes on to hold.
LEMMA RequestStays ==
  ASSUME TypeOK, Grows, NEW r \in Request, RequestOK(r)
  PROVE  RequestOK(r)'
<1>1. CASE r.user \in DOMAIN users
  <2>1. users'[r.user].role = users[r.user].role /\ r.user \in DOMAIN users'
        /\ \A t \in AllTables : HasOrExcused(r.user, t) => HasOrExcused(r.user, t)'
    BY <1>1 DEF Grows
  <2>2. Tables(users[r.user].role) \subseteq AllTables
    BY <1>1, UserTyped
  <2>3. Whole(r.user) => Whole(r.user)'
    BY <2>1, <2>2 DEF Whole
  <2>4. (\A t \in Before(r.pc) : HasOrExcused(r.user, t)) => \A t \in Before(r.pc) : HasOrExcused(r.user, t)'
    BY <2>1, BeforeTables
  <2> QED
    BY <2>1, <2>3, <2>4 DEF RequestOK
<1>2. CASE r.user \notin DOMAIN users
  BY <1>2 DEF RequestOK
<1> QED
  BY <1>1, <1>2

LEMMA HeldFrame ==
  ASSUME TypeOK, Held, Grows, NEW S \in SUBSET Handlers,
         \A g \in Handlers \ S : request'[g] = request[g],
         \A g \in S : RequestOK(request[g])'
  PROVE  Held'
<1> SUFFICES ASSUME NEW g \in Handlers
             PROVE  RequestOK(request[g])'
  BY DEF Held
<1>1. CASE g \in S
  BY <1>1
<1>2. CASE g \notin S
  <2>1. PICK r \in Request : r = request[g]
    BY DEF TypeOK, AccountsTypeOK
  <2>2. RequestOK(r)'
    BY <2>1, RequestStays DEF Held
  <2>3. request'[g] = r
    BY <1>2, <2>1
  <2> QED
    BY <2>2, <2>3 DEF RequestOK
<1> QED
  BY <1>1, <1>2

LEMMA AnsweredFrame ==
  ASSUME TypeOK, Answered, Grows,
         \A u \in answered' : u \in answered \/ (u \in DOMAIN users' /\ Whole(u)')
  PROVE  Answered'
<1> SUFFICES ASSUME NEW u \in answered'
             PROVE  u \in DOMAIN users' /\ Whole(u)'
  BY DEF Answered, AnsweredWhole, Whole, HasOrExcused
<1>1. CASE u \in answered
  <2>1. u \in DOMAIN users /\ Whole(u)
    BY <1>1 DEF Answered, AnsweredWhole, Whole, HasOrExcused
  <2>2. Tables(users[u].role) \subseteq AllTables
    BY <2>1, UserTyped
  <2> QED
    BY <2>1, <2>2 DEF Grows, Whole
<1>2. CASE u \in DOMAIN users' /\ Whole(u)'
  BY <1>2
<1> QED
  BY <1>1, <1>2

\* Nothing of the notices but the users, and other mails, changes.
LEMMA NoticesFrame ==
  ASSUME TypeOK, NoticesOK, Grows, UNCHANGED noticeVars,
         mailed \subseteq mailed', \A m \in mailed' \ mailed : m.kind \notin {"notice", "link"}
  PROVE  NoticesOK'
<1>1. UNCHANGED <<notices, list, posting, audience, missed>>
  BY DEF noticeVars
<1>2. \A n \in DOMAIN notices : Readers(n) \subseteq DOMAIN users /\ Readers(n) \subseteq Readers(n)'
  BY <1>1 DEF Readers, FindAll, FindOne, Grows
<1>3. AudiencesOK' /\ PostingsOK'
  BY <1>1, <1>2 DEF NoticesOK, AudiencesOK, PostingsOK
<1>4. MailsOK'
  BY DEF NoticesOK, MailsOK, Grows
<1>5. \A u \in DOMAIN users : PageOf(u)' = PageOf(u)
  BY <1>1 DEF PageOf, GetGlobal, GetUser, Grows
<1>6. NoticesAgree'
  <2>1. ASSUME NEW u \in DOMAIN users', NEW n \in PageOf(u)'
        PROVE  \/ u \notin audience[n]
               \/ \E p \in Posters : posting[p].pc = "notify" /\ posting[p].id = n
               \/ \E m \in mailed : m.kind = "notice" /\ m.user = u /\ m.about = n
    <3>1. CASE u \in DOMAIN users
      BY <1>5, <2>1, <3>1 DEF NoticesOK, NoticesAgree
    <3>2. CASE u \notin DOMAIN users
      <4>1. n \in DOMAIN notices
        BY <1>1, <2>1 DEF PageOf, GetGlobal, GetUser
      <4> QED
        BY <1>2, <3>2, <4>1 DEF NoticesOK, AudiencesOK
    <3> QED
      BY <3>1, <3>2
  <2>2. ASSUME NEW m \in mailed', m.kind = "notice"
        PROVE  m.about \in GetArchived' \cup PageOf(m.user)'
    <3>1. m \in mailed /\ m.user \in DOMAIN users
      BY <2>2 DEF NoticesOK, MailsOK
    <3>2. m.about \in GetArchived \cup PageOf(m.user) /\ GetArchived' = GetArchived
      BY <1>1, <2>2, <3>1 DEF NoticesOK, NoticesAgree, GetArchived
    <3>3. PageOf(m.user)' = PageOf(m.user)
      BY <1>1, <3>1 DEF PageOf, GetGlobal, GetUser, Grows
    <3> QED
      BY <3>2, <3>3
  <2>3. ASSUME NEW m \in mailed', m.kind = "link"
        PROVE  \/ m.to.address \in list' \cup missed'
               \/ \E p \in Posters : posting'[p].pc \in {"find", "subscribe"} /\ posting'[p].to = m.to.address
    BY <1>1, <2>3 DEF NoticesOK, NoticesAgree
  <2> QED
    BY <1>1, <2>1, <2>2, <2>3 DEF NoticesAgree
<1> QED
  BY <1>3, <1>4, <1>6 DEF NoticesOK

\* The link of u works, or u needs none.
Linked(u) ==
  \/ users[u].approved \/ u \in cut
  \/ \E m \in mailed : m.kind = "confirm" /\ m.user = u /\ m.about = users[u].token
  \/ \E h \in Handlers : request[h].user = u /\ request[h].token = users[u].token
Confirmable(u) == Linked(u) /\ (users[u].token = 0 => users[u].approved)

\* The requests in S let go of their tokens.
LEMMA LinksFrame ==
  ASSUME LinksOK, NEW S \in SUBSET Handlers, mailed \subseteq mailed',
         \A g \in Handlers \ S : request'[g].user = request[g].user /\ request'[g].token = request[g].token,
         \A u \in DOMAIN users' :
           \/ Confirmable(u)'
           \/ /\ u \in DOMAIN users /\ users'[u].token = users[u].token
              /\ users'[u].approved = users[u].approved /\ (u \in cut => u \in cut')
              /\ \A g \in S : ~(request[g].user = u /\ request[g].token = users[u].token)
  PROVE  LinksOK'
<1> SUFFICES ASSUME NEW u \in DOMAIN users'
             PROVE  Confirmable(u)'
  BY DEF LinksOK, LinkWorks, Confirmable, Linked
<1>1. CASE Confirmable(u)'
  BY <1>1
<1>2. CASE /\ u \in DOMAIN users /\ users'[u].token = users[u].token
           /\ users'[u].approved = users[u].approved /\ (u \in cut => u \in cut')
           /\ \A g \in S : ~(request[g].user = u /\ request[g].token = users[u].token)
  <2>1. Linked(u) /\ (users[u].token = 0 => users[u].approved)
    BY <1>2 DEF LinksOK, LinkWorks, Linked
  <2>2. Linked(u)'
    BY <1>2, <2>1 DEF Linked
  <2> QED
    BY <1>2, <2>1, <2>2 DEF Confirmable
<1> QED
  BY <1>1, <1>2

\* A user's row is written.
LEMMA RowWritten ==
  ASSUME TypeOK, NEW u \in DOMAIN users, NEW row \in User, users' = [users EXCEPT ![u] = row],
         row.role = users[u].role, excused \subseteq excused',
         \A t \in AllTables : HasOrExcused(u, t) => t \in row.tables \/ <<u, t>> \in excused',
         Found(u) => (row.role = "TUTOR" => "Subscription" \in row.tables)
  PROVE  /\ users' \in Seq(User) /\ Len(users') <= MaxUsers /\ DOMAIN users' = DOMAIN users
         /\ users'[u] = row /\ \A v \in DOMAIN users : v # u => users'[v] = users[v]
         /\ Grows
<1>1. users \in Seq(User) /\ Len(users) <= MaxUsers
  BY DEF TypeOK, AccountsTypeOK
<1>2. /\ users' \in Seq(User) /\ Len(users') = Len(users) /\ DOMAIN users' = DOMAIN users
      /\ users'[u] = row /\ \A v \in DOMAIN users : v # u => users'[v] = users[v]
  BY <1>1, ExceptSeq
<1>3. ASSUME NEW v \in DOMAIN users
      PROVE  /\ users'[v].role = users[v].role
             /\ \A t \in AllTables : HasOrExcused(v, t) => HasOrExcused(v, t)'
             /\ Found(v) => Found(v)'
  <2>1. CASE v = u
    BY <1>2, <2>1 DEF HasOrExcused, Found
  <2>2. CASE v # u
    BY <1>2, <2>2 DEF HasOrExcused, Found
  <2> QED
    BY <2>1, <2>2
<1> QED
  BY <1>1, <1>2, <1>3 DEF Grows

\* A step of one request that leaves the users alone.
LEMMA RequestMoves ==
  ASSUME Inv, NEW h \in Handlers, NEW r \in Request, Set(h, r), UNCHANGED <<users, deleted, noticeVars>>,
         excused \subseteq excused', excused' \subseteq Ids \X AllTables,
         jobs' \subseteq [user : Ids, to : Email, started : BOOLEAN],
         alerts' \subseteq {"registered", "updated"} \X Ids, cut' \subseteq Ids,
         tokens' \in 0..MaxTokens, requests' \in 0..MaxRequests, faults' \in 0..MaxFaults,
         \A g \in {h} : RequestOK(request[g])', LinksOK',
         \A u \in answered' : u \in answered \/ (u \in DOMAIN users' /\ Whole(u)'),
         mailed \subseteq mailed', \A m \in mailed' \ mailed : m.kind \notin {"notice", "link"}
  PROVE  Inv'
<1>1. /\ request' \in [Handlers -> Request] /\ request'[h] = r
      /\ \A g \in Handlers \ {h} : request'[g] = request[g]
  BY SetFields DEF Inv
<1>2. Grows
  BY DEF Grows, HasOrExcused, Found
<1>3. Held'
  <2>1. {h} \in SUBSET Handlers /\ TypeOK /\ Held
    BY DEF Inv, AccountsOK
  <2> QED
    BY <1>1, <1>2, <2>1, HeldFrame
<1>4. Answered'
  BY <1>2, AnsweredFrame DEF Inv, AccountsOK
<1>5. NoticesOK'
  BY <1>2, NoticesFrame DEF Inv
<1>6. TypeOK'
  <2>1. DOMAIN users \subseteq Ids
    BY UserTyped DEF Inv
  <2>2. answered' \subseteq Ids
    BY <1>4, <2>1 DEF Answered
  <2> QED
    BY <1>1, <2>2 DEF Inv, TypeOK, AccountsTypeOK, noticeVars
<1>7. Renamed'
  BY DEF Inv, AccountsOK, Renamed
<1> QED
  BY <1>3, <1>4, <1>5, <1>6, <1>7 DEF Inv, AccountsOK

\* A user's row is written, and no request moves.
LEMMA RowStep ==
  ASSUME Inv, NEW u \in DOMAIN users, NEW row \in User, users' = [users EXCEPT ![u] = row],
         UNCHANGED <<jobs, mailed, request, answered, cut, tokens, noticeVars>>,
         row.role = users[u].role, excused \subseteq excused', excused' \subseteq Ids \X AllTables,
         \A t \in AllTables : HasOrExcused(u, t) => t \in row.tables \/ <<u, t>> \in excused',
         Found(u) => (row.role = "TUTOR" => "Subscription" \in row.tables),
         row.approved \/ (row.token = users[u].token /\ row.approved = users[u].approved),
         deleted' \subseteq deleted, u \in deleted' => row.email.suffixes > 0,
         alerts' \subseteq {"registered", "updated"} \X Ids,
         requests' \in 0..MaxRequests, faults' \in 0..MaxFaults
  PROVE  Inv'
<1>1. /\ users' \in Seq(User) /\ Len(users') <= MaxUsers /\ DOMAIN users' = DOMAIN users
      /\ users'[u] = row /\ \A v \in DOMAIN users : v # u => users'[v] = users[v]
      /\ Grows
  BY RowWritten DEF Inv
<1>2. Held'
  <2>1. {} \in SUBSET Handlers /\ TypeOK /\ Held /\ \A g \in Handlers \ {} : request'[g] = request[g]
    BY DEF Inv, AccountsOK
  <2>2. \A g \in {} : RequestOK(request[g])'
    OBVIOUS
  <2> QED
    BY <1>1, <2>1, <2>2, HeldFrame
<1>3. Answered'
  BY <1>1, AnsweredFrame DEF Inv, AccountsOK
<1>4. LinksOK'
  <2>1. {} \in SUBSET Handlers /\ LinksOK /\ mailed \subseteq mailed'
        /\ \A g \in Handlers \ {} : request'[g].user = request[g].user /\ request'[g].token = request[g].token
    BY DEF Inv, AccountsOK
  <2>2. \A v \in DOMAIN users' :
          \/ Confirmable(v)'
          \/ /\ v \in DOMAIN users /\ users'[v].token = users[v].token
             /\ users'[v].approved = users[v].approved /\ (v \in cut => v \in cut')
             /\ \A g \in {} : ~(request[g].user = v /\ request[g].token = users[v].token)
    BY <1>1 DEF Confirmable, Linked
  <2> QED
    BY <2>1, <2>2, LinksFrame
<1>5. NoticesOK'
  BY <1>1, NoticesFrame DEF Inv
<1>6. TypeOK'
  BY <1>1 DEF Inv, TypeOK, AccountsTypeOK, noticeVars
<1>7. Renamed'
  BY <1>1 DEF Inv, AccountsOK, Renamed
<1> QED
  BY <1>2, <1>3, <1>4, <1>5, <1>6, <1>7 DEF Inv, AccountsOK

LEMMA RequestTyped ==
  ASSUME Inv, NEW h \in Handlers
  PROVE  request[h] \in Request /\ RequestOK(request[h])
BY DEF Inv, AccountsOK, TypeOK, AccountsTypeOK, Held

\* A request that is on no user lets go of no token.
LEMMA NoTokenLost ==
  ASSUME Inv, NEW h \in Handlers, NEW r \in Request, Set(h, r), UNCHANGED <<users, mailed>>,
         \A u \in DOMAIN users : u \in cut => u \in cut',
         \/ request[h].user = 0
         \/ request[h].user \in cut'
         \/ request[h].user = r.user /\ request[h].token = r.token
         \/ \A u \in DOMAIN users :
              request[h].user = u /\ request[h].token = users[u].token => users[u].approved
  PROVE  LinksOK'
<1>1. /\ request'[h] = r /\ \A g \in Handlers \ {h} : request'[g] = request[g]
      /\ LinksOK /\ \A u \in DOMAIN users : u # 0
  BY SetFields, UserTyped DEF Inv, AccountsOK
<1>2. CASE request[h].user = r.user /\ request[h].token = r.token
  <2>1. {} \in SUBSET Handlers
        /\ \A g \in Handlers \ {} : request'[g].user = request[g].user /\ request'[g].token = request[g].token
    BY <1>1, <1>2
  <2> QED
    BY <1>1, <2>1, LinksFrame
<1>3. CASE ~(request[h].user = r.user /\ request[h].token = r.token)
  <2>1. {h} \in SUBSET Handlers
        /\ \A g \in Handlers \ {h} : request'[g].user = request[g].user /\ request'[g].token = request[g].token
    BY <1>1
  <2>2. \A u \in DOMAIN users' :
          \/ Confirmable(u)'
          \/ /\ u \in DOMAIN users /\ users'[u].token = users[u].token
             /\ users'[u].approved = users[u].approved /\ (u \in cut => u \in cut')
             /\ \A g \in {h} : ~(request[g].user = u /\ request[g].token = users[u].token)
    BY <1>1, <1>3 DEF LinksOK, Confirmable, Linked
  <2> QED
    BY <1>1, <2>1, <2>2, LinksFrame
<1> QED
  BY <1>2, <1>3

\* A request begins.
LEMMA BeginKeeps ==
  ASSUME Inv, NEW h \in Handlers, NEW r \in Request, Begin(h, r), RequestOK(r), UNCHANGED noticeVars
  PROVE  Inv'
<1>1. /\ Set(h, r) /\ UNCHANGED <<users, alerts, jobs, mailed, answered, deleted, excused, cut, tokens, faults>>
      /\ requests' \in 0..MaxRequests
  BY AccountsAssumption DEF Begin, accountRows, history, Counted, Inv, TypeOK, AccountsTypeOK,
     AccountsAssumption
<1>2. request[h].user = 0 /\ request'[h] = r
  BY <1>1, RequestTyped, SetFields DEF Begin, At, RequestOK, Inv
<1>3. LinksOK'
  BY <1>1, <1>2, NoTokenLost
<1>4. \A g \in {h} : RequestOK(request[g])'
  BY <1>1, <1>2 DEF RequestOK, Whole, HasOrExcused
<1> QED
  BY <1>1, <1>3, <1>4, RequestMoves DEF Inv, TypeOK, AccountsTypeOK

LEMMA BeginningsKeep ==
  ASSUME Inv, NEW h \in Handlers, UNCHANGED noticeVars,
         \/ \E a \in Addresses, role \in Roles : Create(h, a, role)
         \/ \E u \in DOMAIN users : Resend(h, u) \/ Remove(h, u) \/ DeleteByAdmin(h, u)
  PROVE  Inv'
<1>1. ASSUME NEW a \in Addresses, NEW role \in Roles, Create(h, a, role)
      PROVE  Inv'
  <2> DEFINE r == [Idle EXCEPT !.pc = "find", !.email = Plain(a), !.role = role]
  <2>1. Plain(a) \in Email
    BY AccountsAssumption DEF Plain, Email, AccountsAssumption
  <2>2. r \in Request /\ r.pc = "find" /\ r.email \in Email /\ r.user = 0
    BY <2>1, IdleTyped DEF Request
  <2>3. RequestOK(r)
    BY <2>2 DEF RequestOK, AllTables, Tables
  <2> QED
    BY <1>1, <2>2, <2>3, BeginKeeps DEF Create
<1>2. ASSUME NEW u \in DOMAIN users, Resend(h, u)
      PROVE  Inv'
  <2> DEFINE r == [Idle EXCEPT !.pc = "look", !.user = u]
  <2>1. u \in 0..MaxUsers
    BY UserTyped DEF Inv, Ids
  <2>2. r \in Request /\ r.pc = "look" /\ r.user = u /\ r.token = 0
    BY <2>1, IdleTyped DEF Request
  <2>3. RequestOK(r)
    BY <2>2 DEF RequestOK, AllTables, Tables
  <2> QED
    BY <1>2, <2>2, <2>3, BeginKeeps DEF Resend
<1>3. ASSUME NEW u \in DOMAIN users, Remove(h, u)
      PROVE  Inv'
  <2> DEFINE r == [Idle EXCEPT !.pc = "rename", !.user = u, !.email = users[u].email]
  <2>1. u \in 0..MaxUsers /\ users[u].email \in Email
    BY UserTyped DEF Inv, Ids
  <2>2. r \in Request /\ r.pc = "rename" /\ r.user = u /\ r.token = 0 /\ r.email \in Email
    BY <2>1, IdleTyped DEF Request
  <2>3. RequestOK(r)
    BY <2>2 DEF RequestOK, AllTables, Tables
  <2> QED
    BY <1>3, <2>2, <2>3, BeginKeeps DEF Remove
<1> QED
  BY <1>1, <1>2, <1>3 DEF DeleteByAdmin

LEMMA FindUserKeeps ==
  ASSUME Inv, NEW h \in Handlers, FindUser(h), UNCHANGED noticeVars
  PROVE  Inv'
<1> DEFINE p == request[h]
           q == [p EXCEPT !.pc = "insert"]
<1>1. /\ p \in Request /\ p.pc = "find" /\ p.user = 0 /\ p.email \in Email
      /\ UNCHANGED <<users, alerts, jobs, mailed, answered, deleted, excused, cut, tokens, requests, faults>>
  BY RequestTyped DEF FindUser, At, RequestOK, accountRows, history, bounds
<1>2. q \in Request /\ q.pc = "insert" /\ q.user = 0 /\ q.email \in Email
  BY <1>1 DEF Request
<1>3. PICK r \in Request : Set(h, r) /\ r \in {Idle, q}
  BY <1>2, IdleTyped DEF FindUser, Settle, Goto
<1>4. r.user = 0 /\ (r.pc = "idle" \/ (r.pc = "insert" /\ r.email \in Email))
  BY <1>2, <1>3, IdleTyped
<1>5. request'[h] = r
  BY <1>3, SetFields DEF Inv
<1>6. LinksOK'
  BY <1>1, <1>3, NoTokenLost
<1>7. \A g \in {h} : RequestOK(request[g])'
  BY <1>4, <1>5 DEF RequestOK, AllTables, Tables
<1> QED
  BY <1>1, <1>3, <1>6, <1>7, RequestMoves DEF Inv, TypeOK, AccountsTypeOK

LEMMA LookForResendKeeps ==
  ASSUME Inv, NEW h \in Handlers, LookForResend(h), UNCHANGED noticeVars
  PROVE  Inv'
<1> DEFINE p == request[h]
           q == [p EXCEPT !.pc = "token", !.email = users[p.user].email]
<1>1. /\ p \in Request /\ p.pc = "look" /\ p.user \in DOMAIN users /\ p.token = 0
      /\ UNCHANGED <<users, alerts, jobs, mailed, answered, deleted, excused, cut, tokens, requests, faults>>
  BY RequestTyped DEF LookForResend, At, RequestOK, accountRows, history, bounds
<1>2. users[p.user].email \in Email
  BY <1>1, UserTyped DEF Inv
<1>3. q \in Request /\ q.pc = "token" /\ q.user = p.user /\ q.token = 0
  BY <1>1, <1>2 DEF Request
<1>4. CASE users[p.user].approved /\ Settle(h)
  <2>1. request'[h] = Idle
    BY <1>4, IdleTyped, SetFields DEF Inv, Settle
  <2>2. LinksOK'
    BY <1>1, <1>4, IdleTyped, NoTokenLost DEF Settle
  <2>3. \A g \in {h} : RequestOK(request[g])'
    BY <2>1, IdleTyped DEF RequestOK, AllTables, Tables
  <2> QED
    BY <1>1, <1>4, <2>2, <2>3, IdleTyped, RequestMoves DEF Settle, Inv, TypeOK, AccountsTypeOK
<1>5. CASE Set(h, q)
  <2> HIDE DEF q
  <2>1. request'[h] = q
    BY <1>3, <1>5, SetFields DEF Inv
  <2>2. LinksOK'
    BY <1>1, <1>3, <1>5, NoTokenLost
  <2>3. \A g \in {h} : RequestOK(request[g])'
    BY <1>1, <1>3, <2>1 DEF RequestOK, AllTables, Tables
  <2> QED
    BY <1>1, <1>3, <1>5, <2>2, <2>3, RequestMoves DEF Inv, TypeOK, AccountsTypeOK
<1> QED
  BY <1>4, <1>5 DEF LookForResend

LEMMA InsertUserKeeps ==
  ASSUME Inv, NEW h \in Handlers, InsertUser(h), UNCHANGED noticeVars
  PROVE  Inv'
<1> DEFINE p == request[h]
<1>1. /\ p \in Request /\ p.pc = "insert" /\ p.user = 0 /\ p.email \in Email /\ p.role \in Roles
      /\ UNCHANGED <<alerts, jobs, mailed, answered, deleted, excused, cut, requests, faults>>
  BY RequestTyped DEF InsertUser, At, RequestOK, history, Request
<1>2. CASE Settle(h) /\ UNCHANGED <<users, tokens>>
  <2>1. request'[h] = Idle
    BY <1>2, IdleTyped, SetFields DEF Inv, Settle
  <2>2. LinksOK'
    BY <1>1, <1>2, IdleTyped, NoTokenLost DEF Settle
  <2>3. \A g \in {h} : RequestOK(request[g])'
    BY <2>1, IdleTyped DEF RequestOK, AllTables, Tables
  <2> QED
    BY <1>1, <1>2, <2>2, <2>3, IdleTyped, RequestMoves DEF Settle, Inv, TypeOK, AccountsTypeOK
<1>3. CASE Holders(p.email) = {}
  <2>1. PICK n \in Nat : n = Len(users) + 1
    BY DEF Inv, TypeOK, AccountsTypeOK
  <2> DEFINE row == [email |-> p.email, role |-> p.role, approved |-> FALSE, token |-> tokens + 1,
                     tables |-> {}, filled |-> FALSE]
             first == IF p.role = "TUTOR" THEN "Tutor" ELSE "Student"
             r == [p EXCEPT !.pc = first, !.user = n, !.token = tokens + 1]
  <2>2. /\ users' = Append(users, row) /\ tokens' = tokens + 1 /\ Set(h, r)
        /\ Len(users) < MaxUsers /\ tokens < MaxTokens
    BY <1>3, <2>1 DEF InsertUser
  <2>3. /\ users \in Seq(User) /\ tokens \in Nat /\ tokens + 1 \in 0..MaxTokens /\ tokens + 1 # 0
        /\ n \in 0..MaxUsers /\ n \in Ids /\ MaxUsers \in Nat
    BY <2>1, <2>2, AccountsAssumption DEF Inv, TypeOK, AccountsTypeOK, AccountsAssumption, Ids
  <2>4. row \in User /\ row.token = tokens + 1 /\ row.role = p.role
    BY <1>1, <2>3 DEF User
  <2>5. first \in AllTables /\ first \in Tables(p.role) /\ Before(first) = {}
    BY <1>1 DEF AllTables, Tables, Roles, Before
  <2> HIDE DEF row, first
  <2>6. /\ r \in Request /\ r.pc = first /\ r.user = n /\ r.token = tokens + 1 /\ r.email = p.email
    BY <1>1, <2>3, <2>5 DEF Request
  <2> HIDE DEF r
  <2>7. /\ users' \in Seq(User) /\ DOMAIN users' = DOMAIN users \cup {n} /\ n \notin DOMAIN users
        /\ users'[n] = row /\ \A u \in DOMAIN users : users'[u] = users[u]
        /\ Len(users') <= MaxUsers
    BY <2>1, <2>2, <2>3, <2>4
  <2>8. /\ request' \in [Handlers -> Request] /\ request'[h] = r
        /\ \A g \in Handlers \ {h} : request'[g] = request[g]
    BY <2>2, <2>6, SetFields DEF Inv
  <2>9. Grows
    BY <1>1, <2>7 DEF Grows, HasOrExcused, Found
  <2>10. Held'
    <3>1. {h} \in SUBSET Handlers /\ TypeOK /\ Held
      BY DEF Inv, AccountsOK
    <3>2. \A g \in {h} : RequestOK(request[g])'
      BY <1>1, <2>4, <2>5, <2>6, <2>7, <2>8 DEF RequestOK, AllTables, Tables
    <3> QED
      BY <2>8, <2>9, <3>1, <3>2, HeldFrame
  <2>11. Answered'
    BY <1>1, <2>9, AnsweredFrame DEF Inv, AccountsOK
  <2>12. LinksOK'
    <3>1. {h} \in SUBSET Handlers /\ LinksOK /\ mailed \subseteq mailed'
          /\ \A g \in Handlers \ {h} : request'[g].user = request[g].user /\ request'[g].token = request[g].token
      BY <1>1, <2>8 DEF Inv, AccountsOK
    <3>2. \A u \in DOMAIN users : u # 0
      BY UserTyped DEF Inv
    <3>3. Linked(n)'
      BY <2>4, <2>6, <2>7, <2>8 DEF Linked
    <3>4. Confirmable(n)'
      BY <2>3, <2>4, <2>7, <3>3 DEF Confirmable
    <3>5. \A u \in DOMAIN users' :
            \/ Confirmable(u)'
            \/ /\ u \in DOMAIN users /\ users'[u].token = users[u].token
               /\ users'[u].approved = users[u].approved /\ (u \in cut => u \in cut')
               /\ \A g \in {h} : ~(request[g].user = u /\ request[g].token = users[u].token)
      BY <1>1, <2>7, <3>2, <3>4
    <3> QED
      BY <3>1, <3>5, LinksFrame
  <2>13. NoticesOK'
    BY <1>1, <2>9, NoticesFrame DEF Inv
  <2>14. TypeOK'
    BY <1>1, <2>2, <2>3, <2>7, <2>8 DEF Inv, TypeOK, AccountsTypeOK, noticeVars
  <2>15. Renamed'
    BY <1>1, <2>7 DEF Inv, AccountsOK, Renamed
  <2> QED
    BY <2>10, <2>11, <2>12, <2>13, <2>14, <2>15 DEF Inv, AccountsOK
<1> QED
  BY <1>2, <1>3 DEF InsertUser

LEMMA CreateRowKeeps ==
  ASSUME Inv, NEW h \in Handlers, CreateRow(h), UNCHANGED noticeVars
  PROVE  Inv'
<1> DEFINE p == request[h]
           row == [users[p.user] EXCEPT !.tables = @ \cup {p.pc}]
           next == After(p.pc)
           r == [p EXCEPT !.pc = next]
<1>1. /\ p \in Request /\ RequestOK(p) /\ p.pc \in AllTables /\ p.user \in DOMAIN users
      /\ p.email \in Email /\ p.pc \in Tables(users[p.user].role)
      /\ \A t \in Before(p.pc) : HasOrExcused(p.user, t)
      /\ UNCHANGED <<mailed, answered, deleted, excused, cut, tokens, requests, faults>>
  BY RequestTyped DEF CreateRow, RequestOK, history, bounds
<1>2. PICK u \in DOMAIN users : u = p.user
  BY <1>1
<1>3. /\ users[u] \in User /\ u \in Ids /\ users[u].role \in Roles
  BY UserTyped DEF Inv
<1>4. row \in User /\ row.role = users[u].role /\ row.tables = users[u].tables \cup {p.pc}
      /\ row.token = users[u].token /\ row.approved = users[u].approved /\ row.email = users[u].email
  BY <1>1, <1>2, <1>3 DEF User
<1>5. users' = [users EXCEPT ![u] = row] /\ Set(h, r)
  BY <1>2 DEF CreateRow, Goto
<1> HIDE DEF row
<1>6. /\ users' \in Seq(User) /\ Len(users') <= MaxUsers /\ DOMAIN users' = DOMAIN users
      /\ users'[u] = row /\ \A v \in DOMAIN users : v # u => users'[v] = users[v]
      /\ Grows
  <2>1. excused \subseteq excused'
    BY <1>1
  <2>2. \A t \in AllTables : HasOrExcused(u, t) => t \in row.tables \/ <<u, t>> \in excused'
    BY <1>1, <1>4 DEF HasOrExcused
  <2>3. Found(u) => (row.role = "TUTOR" => "Subscription" \in row.tables)
    BY <1>4 DEF Found
  <2> QED
    BY <1>4, <1>5, <2>1, <2>2, <2>3, RowWritten DEF Inv
<1>7. /\ next \in AllTables \cup {"mail"}
      /\ next \in AllTables => next \in Tables(users[u].role) /\ Before(next) \subseteq Before(p.pc) \cup {p.pc}
      /\ next = "mail" => Tables(users[u].role) \subseteq Before(p.pc) \cup {p.pc}
  BY <1>1, <1>2, <1>3 DEF After, AllTables, Tables, Roles, Before
<1> HIDE DEF next
<1>8. r \in Request /\ r.pc = next /\ r.user = u /\ r.token = p.token /\ r.email = p.email
  BY <1>1, <1>2, <1>7 DEF Request
<1> HIDE DEF r
<1>9. /\ request' \in [Handlers -> Request] /\ request'[h] = r
      /\ \A g \in Handlers \ {h} : request'[g] = request[g]
  BY <1>5, <1>8, SetFields DEF Inv
<1>10. Held'
  <2>1. {h} \in SUBSET Handlers /\ TypeOK /\ Held
    BY DEF Inv, AccountsOK
  <2>2. \A t \in Before(p.pc) \cup {p.pc} : HasOrExcused(u, t)'
    BY <1>1, <1>2, <1>4, <1>6, BeforeTables DEF HasOrExcused
  <2>3. users'[u].role = users[u].role
    BY <1>4, <1>6
  <2>4. next = "mail" => Whole(u)'
    BY <1>7, <2>2, <2>3 DEF Whole
  <2>5. \A g \in {h} : RequestOK(request[g])'
    BY <1>1, <1>6, <1>7, <1>8, <1>9, <2>2, <2>3, <2>4 DEF RequestOK, AllTables, Tables
  <2> QED
    BY <1>6, <1>9, <2>1, <2>5, HeldFrame
<1>11. Answered'
  BY <1>1, <1>6, AnsweredFrame DEF Inv, AccountsOK
<1>12. LinksOK'
  <2>1. {} \in SUBSET Handlers /\ LinksOK /\ mailed \subseteq mailed'
        /\ \A g \in Handlers \ {} : request'[g].user = request[g].user /\ request'[g].token = request[g].token
    BY <1>1, <1>2, <1>8, <1>9 DEF Inv, AccountsOK
  <2>2. \A v \in DOMAIN users' :
          \/ Confirmable(v)'
          \/ /\ v \in DOMAIN users /\ users'[v].token = users[v].token
             /\ users'[v].approved = users[v].approved /\ (v \in cut => v \in cut')
             /\ \A g \in {} : ~(request[g].user = v /\ request[g].token = users[v].token)
    BY <1>1, <1>4, <1>6
  <2> QED
    BY <2>1, <2>2, LinksFrame
<1>13. NoticesOK'
  BY <1>1, <1>6, NoticesFrame DEF Inv
<1>14. TypeOK'
  <2>1. jobs' \subseteq [user : Ids, to : Email, started : BOOLEAN]
    <3> DEFINE job == [user |-> p.user, to |-> p.email, started |-> FALSE]
    <3>1. job \in [user : Ids, to : Email, started : BOOLEAN]
      BY <1>1, <1>2, <1>3
    <3>2. jobs' \subseteq jobs \cup {job}
      BY DEF CreateRow
    <3> HIDE DEF job
    <3> QED
      BY <3>1, <3>2 DEF Inv, TypeOK, AccountsTypeOK
  <2>2. alerts' \subseteq {"registered", "updated"} \X Ids
    BY <1>1, <1>2, <1>3 DEF CreateRow, Raise, Registered, Inv, TypeOK, AccountsTypeOK
  <2> QED
    BY <1>1, <1>6, <1>9, <2>1, <2>2 DEF Inv, TypeOK, AccountsTypeOK, noticeVars
<1>15. Renamed'
  BY <1>1, <1>4, <1>6 DEF Inv, AccountsOK, Renamed
<1> QED
  BY <1>10, <1>11, <1>12, <1>13, <1>14, <1>15 DEF Inv, AccountsOK

LEMMA MailLinkKeeps ==
  ASSUME Inv, NEW h \in Handlers, MailLink(h), UNCHANGED noticeVars
  PROVE  Inv'
<1> DEFINE p == request[h]
           m == Confirm(p.user, p.email, p.token)
<1>1. /\ p \in Request /\ p.pc \in {"mail", "remail"} /\ p.user \in DOMAIN users
      /\ p.pc = "mail" => Whole(p.user)
      /\ UNCHANGED <<users, alerts, jobs, deleted, excused, tokens, requests, faults>>
      /\ mailed' = mailed \cup {m} /\ Settle(h)
      /\ answered' = IF p.pc = "mail" THEN answered \cup {p.user} ELSE answered
      /\ cut' = IF users[p.user].token = p.token THEN cut \ {p.user} ELSE cut
  BY RequestTyped DEF MailLink, RequestOK, accountRows, bounds, HandOver
<1>2. m.kind = "confirm" /\ m.user = p.user /\ m.about = p.token
  BY DEF Confirm
<1> HIDE DEF m
<1>3. request'[h] = Idle /\ \A g \in Handlers \ {h} : request'[g] = request[g]
  BY <1>1, IdleTyped, SetFields DEF Inv, Settle
<1>4. LinksOK'
  <2>1. {h} \in SUBSET Handlers /\ LinksOK /\ mailed \subseteq mailed'
        /\ \A g \in Handlers \ {h} : request'[g].user = request[g].user /\ request'[g].token = request[g].token
    BY <1>1, <1>3 DEF Inv, AccountsOK
  <2>2. ASSUME NEW u \in DOMAIN users'
        PROVE  \/ Confirmable(u)'
               \/ /\ u \in DOMAIN users /\ users'[u].token = users[u].token
                  /\ users'[u].approved = users[u].approved /\ (u \in cut => u \in cut')
                  /\ \A g \in {h} : ~(request[g].user = u /\ request[g].token = users[u].token)
    <3>1. CASE u = p.user /\ users[u].token = p.token
      <4>1. m \in mailed' /\ m.kind = "confirm" /\ m.user = u /\ m.about = users'[u].token
        BY <1>1, <1>2, <3>1
      <4>2. Linked(u)'
        BY <4>1 DEF Linked
      <4>3. users'[u].token = 0 => users'[u].approved
        BY <1>1, <2>1 DEF LinksOK
      <4> QED
        BY <4>2, <4>3 DEF Confirmable
    <3>2. CASE ~(u = p.user /\ users[u].token = p.token)
      BY <1>1, <3>2
    <3> QED
      BY <3>1, <3>2
  <2> QED
    BY <2>1, <2>2, LinksFrame
<1>5. \A g \in {h} : RequestOK(request[g])'
  BY <1>3, IdleTyped DEF RequestOK, AllTables, Tables
<1>6. \A u \in answered' : u \in answered \/ (u \in DOMAIN users' /\ Whole(u)')
  BY <1>1 DEF Whole, HasOrExcused
<1>7. \A n \in mailed' \ mailed : n.kind \notin {"notice", "link"}
  BY <1>1, <1>2
<1>8. cut' \subseteq Ids /\ alerts' \subseteq {"registered", "updated"} \X Ids
  BY <1>1 DEF Inv, TypeOK, AccountsTypeOK
<1> QED
  BY <1>1, <1>4, <1>5, <1>6, <1>7, <1>8, IdleTyped, RequestMoves DEF Settle, Inv, TypeOK, AccountsTypeOK

LEMMA CallFailsKeeps ==
  ASSUME Inv, NEW h \in Handlers, CallFails(h), UNCHANGED noticeVars
  PROVE  Inv'
<1> DEFINE p == request[h]
           q == [p EXCEPT !.pc = "TutoringDetail"]
<1>1. /\ p \in Request /\ RequestOK(p) /\ p.pc # "idle" /\ faults' \in 0..MaxFaults
      /\ UNCHANGED <<users, alerts, jobs, mailed, deleted, tokens, requests>>
      /\ cut' = IF p.user # 0 THEN cut \cup {p.user} ELSE cut
      /\ answered' = IF p.pc = "mail" THEN answered \cup {p.user} ELSE answered
      /\ excused' = IF p.pc = "Subscription" THEN excused \cup {<<p.user, p.pc>>} ELSE excused
  BY RequestTyped, AccountsAssumption DEF CallFails, accountRows, Inv, TypeOK, AccountsTypeOK,
     AccountsAssumption
<1>2. p.user # 0 => p.user \in DOMAIN users /\ p.user \in Ids
  <2>1. p.user \in DOMAIN users \/ p.user = 0
    BY <1>1 DEF RequestOK, Request
  <2> QED
    BY <2>1, UserTyped DEF Inv
<1>3. cut' \subseteq Ids /\ excused \subseteq excused' /\ excused' \subseteq Ids \X AllTables
  <2>1. p.pc = "Subscription" => p.user \in Ids /\ "Subscription" \in AllTables
    BY <1>1, UserTyped DEF RequestOK, AllTables, Tables, Inv
  <2> QED
    BY <1>1, <1>2, <2>1 DEF Inv, TypeOK, AccountsTypeOK
<1>4. \A u \in answered' : u \in answered \/ (u \in DOMAIN users' /\ Whole(u)')
  BY <1>1 DEF RequestOK, Whole, HasOrExcused
<1>5. \A r \in Request : Set(h, r) => LinksOK'
  <2>1. request[h].user = 0 \/ request[h].user \in cut'
    BY <1>1
  <2>2. \A u \in DOMAIN users : u \in cut => u \in cut'
    BY <1>1
  <2> QED
    BY <1>1, <2>1, <2>2, NoTokenLost
<1>6. CASE p.pc # "Subscription" /\ Settle(h)
  <2>1. request'[h] = Idle /\ Idle \in Request /\ Set(h, Idle)
    BY <1>6, IdleTyped, SetFields DEF Inv, Settle
  <2>2. \A g \in {h} : RequestOK(request[g])'
    BY <2>1, IdleTyped DEF RequestOK, AllTables, Tables
  <2> QED
    BY <1>1, <1>3, <1>4, <1>5, <2>1, <2>2, RequestMoves DEF Inv, TypeOK, AccountsTypeOK
<1>7. CASE p.pc = "Subscription" /\ Set(h, q)
  <2>1. /\ p.user \in DOMAIN users /\ p.email \in Email
        /\ "Subscription" \in Tables(users[p.user].role)
        /\ \A t \in Before("Subscription") : HasOrExcused(p.user, t)
    BY <1>1, <1>7 DEF RequestOK, AllTables, Tables
  <2>2. /\ q \in Request /\ q.pc = "TutoringDetail" /\ q.user = p.user /\ q.email = p.email
    BY <1>1 DEF Request, AllTables, Tables
  <2> HIDE DEF q
  <2>3. request'[h] = q
    BY <1>7, <2>2, SetFields DEF Inv
  <2>4. \A t \in Before("TutoringDetail") : t = "Subscription" \/ t \in Before("Subscription")
    BY DEF Before
  <2>8. PICK u \in DOMAIN users : u = p.user
    BY <2>1
  <2>5. \A t \in Before("TutoringDetail") : HasOrExcused(u, t)'
    BY <1>1, <1>7, <2>1, <2>4, <2>8 DEF HasOrExcused
  <2>6. "TutoringDetail" \in Tables(users[p.user].role) /\ "TutoringDetail" \in AllTables
    BY <2>1 DEF Tables, AllTables
  <2>7. \A g \in {h} : RequestOK(request[g])'
    BY <1>1, <2>1, <2>2, <2>3, <2>5, <2>6, <2>8 DEF RequestOK
  <2> QED
    BY <1>1, <1>3, <1>4, <1>5, <1>7, <2>2, <2>7, RequestMoves DEF Inv, TypeOK, AccountsTypeOK
<1>8. After("Subscription") = "TutoringDetail"
  BY DEF After
<1> QED
  BY <1>6, <1>7, <1>8 DEF CallFails, Goto

LEMMA WriteTokenKeeps ==
  ASSUME Inv, NEW h \in Handlers, WriteToken(h), UNCHANGED noticeVars
  PROVE  Inv'
<1> DEFINE p == request[h]
           row == [users[p.user] EXCEPT !.token = tokens + 1]
           r == [p EXCEPT !.pc = "remail", !.token = tokens + 1]
<1>1. /\ p \in Request /\ p.pc = "token" /\ p.user \in DOMAIN users /\ p.token = 0
      /\ UNCHANGED <<alerts, jobs, mailed, answered, deleted, excused, cut, requests, faults>>
      /\ tokens' = tokens + 1 /\ tokens + 1 \in 0..MaxTokens /\ tokens + 1 # 0
  BY RequestTyped, AccountsAssumption DEF WriteToken, At, RequestOK, history, Inv, TypeOK,
     AccountsTypeOK, AccountsAssumption
<1>2. PICK u \in DOMAIN users : u = p.user
  BY <1>1
<1>3. users[u] \in User
  BY UserTyped DEF Inv
<1>4. row \in User /\ row.role = users[u].role /\ row.tables = users[u].tables
      /\ row.token = tokens + 1 /\ row.approved = users[u].approved /\ row.email = users[u].email
  BY <1>1, <1>2, <1>3 DEF User
<1>5. users' = [users EXCEPT ![u] = row] /\ Set(h, r)
  BY <1>2 DEF WriteToken
<1> HIDE DEF row
<1>6. /\ users' \in Seq(User) /\ Len(users') <= MaxUsers /\ DOMAIN users' = DOMAIN users
      /\ users'[u] = row /\ \A v \in DOMAIN users : v # u => users'[v] = users[v]
      /\ Grows
  <2>1. excused \subseteq excused'
    BY <1>1
  <2>2. \A t \in AllTables : HasOrExcused(u, t) => t \in row.tables \/ <<u, t>> \in excused'
    BY <1>1, <1>4 DEF HasOrExcused
  <2>3. Found(u) => (row.role = "TUTOR" => "Subscription" \in row.tables)
    BY <1>4 DEF Found
  <2> QED
    BY <1>4, <1>5, <2>1, <2>2, <2>3, RowWritten DEF Inv
<1>7. r \in Request /\ r.pc = "remail" /\ r.user = u /\ r.token = tokens + 1
  BY <1>1, <1>2 DEF Request
<1> HIDE DEF r
<1>8. /\ request' \in [Handlers -> Request] /\ request'[h] = r
      /\ \A g \in Handlers \ {h} : request'[g] = request[g]
  BY <1>5, <1>7, SetFields DEF Inv
<1>9. Held'
  <2>1. {h} \in SUBSET Handlers /\ TypeOK /\ Held
    BY DEF Inv, AccountsOK
  <2>2. \A g \in {h} : RequestOK(request[g])'
    BY <1>6, <1>7, <1>8 DEF RequestOK, AllTables, Tables
  <2> QED
    BY <1>6, <1>8, <2>1, <2>2, HeldFrame
<1>10. Answered'
  BY <1>1, <1>6, AnsweredFrame DEF Inv, AccountsOK
<1>11. LinksOK'
  <2>1. {h} \in SUBSET Handlers /\ LinksOK /\ mailed \subseteq mailed'
        /\ \A g \in Handlers \ {h} : request'[g].user = request[g].user /\ request'[g].token = request[g].token
    BY <1>1, <1>8 DEF Inv, AccountsOK
  <2>2. Confirmable(u)'
    BY <1>1, <1>4, <1>6, <1>7, <1>8 DEF Confirmable, Linked
  <2>3. \A v \in DOMAIN users' :
          \/ Confirmable(v)'
          \/ /\ v \in DOMAIN users /\ users'[v].token = users[v].token
             /\ users'[v].approved = users[v].approved /\ (v \in cut => v \in cut')
             /\ \A g \in {h} : ~(request[g].user = v /\ request[g].token = users[v].token)
    BY <1>1, <1>2, <1>6, <2>2
  <2> QED
    BY <2>1, <2>3, LinksFrame
<1>12. NoticesOK'
  BY <1>1, <1>6, NoticesFrame DEF Inv
<1>13. TypeOK'
  BY <1>1, <1>6, <1>8 DEF Inv, TypeOK, AccountsTypeOK, noticeVars
<1>14. Renamed'
  BY <1>1, <1>4, <1>6 DEF Inv, AccountsOK, Renamed
<1> QED
  BY <1>9, <1>10, <1>11, <1>12, <1>13, <1>14 DEF Inv, AccountsOK

LEMMA WriteDeletedKeeps ==
  ASSUME Inv, NEW h \in Handlers, WriteDeleted(h), UNCHANGED noticeVars
  PROVE  Inv'
<1> DEFINE p == request[h]
           email == [p.email EXCEPT !.suffixes = @ + 1]
           row == [users[p.user] EXCEPT !.email = email]
<1>1. /\ p \in Request /\ p.pc = "rename" /\ p.user \in DOMAIN users /\ p.token = 0 /\ p.email \in Email
      /\ UNCHANGED <<alerts, jobs, mailed, answered, excused, cut, tokens, requests, faults>>
      /\ email.suffixes <= MaxSuffixes /\ Settle(h)
  BY RequestTyped DEF WriteDeleted, At, RequestOK, bounds
<1>2. PICK u \in DOMAIN users : u = p.user
  BY <1>1
<1>3. users[u] \in User
  BY UserTyped DEF Inv
<1>4. request' \in [Handlers -> Request] /\ request'[h] = Idle /\ \A g \in Handlers \ {h} : request'[g] = request[g]
  BY <1>1, IdleTyped, SetFields DEF Inv, Settle
<1>5. \A g \in {h} : RequestOK(request[g])'
  BY <1>4, IdleTyped DEF RequestOK, AllTables, Tables
<1>6. users[u].token = 0 => users[u].approved
  BY DEF Inv, AccountsOK, LinksOK
<1>7. CASE UNCHANGED <<users, deleted>>
  <2>1. \A v \in DOMAIN users : p.user = v /\ p.token = users[v].token => users[v].approved
    BY <1>1, <1>2, <1>6
  <2>2. LinksOK'
    BY <1>1, <1>7, <2>1, IdleTyped, NoTokenLost DEF Settle
  <2> QED
    BY <1>1, <1>5, <1>7, <2>2, IdleTyped, RequestMoves DEF Settle, Inv, TypeOK, AccountsTypeOK
<1>8. CASE users' = [users EXCEPT ![p.user].email = email] /\ deleted' = deleted \cup {p.user}
  <2>1. email \in Email /\ email.suffixes > 0
    BY <1>1, AccountsAssumption DEF Email, AccountsAssumption
  <2>2. row \in User /\ row.role = users[u].role /\ row.tables = users[u].tables
        /\ row.token = users[u].token /\ row.approved = users[u].approved /\ row.email = email
    BY <1>2, <1>3, <2>1 DEF User
  <2>3. users' = [users EXCEPT ![u] = row]
    BY <1>2, <1>8
  <2> HIDE DEF row, email
  <2>4. /\ users' \in Seq(User) /\ Len(users') <= MaxUsers /\ DOMAIN users' = DOMAIN users
        /\ users'[u] = row /\ \A v \in DOMAIN users : v # u => users'[v] = users[v]
        /\ Grows
    <3>1. excused \subseteq excused'
      BY <1>1
    <3>2. \A t \in AllTables : HasOrExcused(u, t) => t \in row.tables \/ <<u, t>> \in excused'
      BY <1>1, <2>2 DEF HasOrExcused
    <3>3. Found(u) => (row.role = "TUTOR" => "Subscription" \in row.tables)
      BY <2>2 DEF Found
    <3> QED
      BY <2>2, <2>3, <3>1, <3>2, <3>3, RowWritten DEF Inv
  <2>5. Held'
    <3>1. {h} \in SUBSET Handlers /\ TypeOK /\ Held
      BY DEF Inv, AccountsOK
    <3> QED
      BY <1>4, <1>5, <2>4, <3>1, HeldFrame
  <2>6. Answered'
    BY <1>1, <2>4, AnsweredFrame DEF Inv, AccountsOK
  <2>7. LinksOK'
    <3>1. {h} \in SUBSET Handlers /\ LinksOK /\ mailed \subseteq mailed'
          /\ \A g \in Handlers \ {h} : request'[g].user = request[g].user /\ request'[g].token = request[g].token
      BY <1>1, <1>4 DEF Inv, AccountsOK
    <3>2. users'[u].approved => Confirmable(u)'
      BY DEF Confirmable, Linked
    <3>3. \A v \in DOMAIN users' :
            \/ Confirmable(v)'
            \/ /\ v \in DOMAIN users /\ users'[v].token = users[v].token
               /\ users'[v].approved = users[v].approved /\ (v \in cut => v \in cut')
               /\ \A g \in {h} : ~(request[g].user = v /\ request[g].token = users[v].token)
      BY <1>1, <1>2, <1>6, <2>2, <2>4, <3>2
    <3> QED
      BY <3>1, <3>3, LinksFrame
  <2>8. NoticesOK'
    BY <1>1, <2>4, NoticesFrame DEF Inv
  <2>9. u \in Ids /\ deleted' = deleted \cup {u}
    BY <1>2, <1>8, UserTyped DEF Inv
  <2>10. TypeOK'
    BY <1>1, <1>4, <2>4, <2>9 DEF Inv, TypeOK, AccountsTypeOK, noticeVars
  <2>11. Renamed'
    BY <2>1, <2>2, <2>4, <2>9 DEF Inv, AccountsOK, Renamed
  <2> QED
    BY <2>5, <2>6, <2>7, <2>8, <2>10, <2>11 DEF Inv, AccountsOK
<1> QED
  BY <1>7, <1>8 DEF WriteDeleted

\* Confirmations, changes, and the rows that are made or removed later.
LEMMA RowStepsKeep ==
  ASSUME Inv, UNCHANGED noticeVars,
         \/ \E m \in mailed : ConfirmEmail(m)
         \/ \E u \in DOMAIN users :
              \/ MakeRecord(u) \/ FillIn(u) \/ RemoveDetail(u) \/ UpdatePicture(u)
              \/ \E a \in Addresses : Update(u, a)
  PROVE  Inv'
<1>1. Counted => requests' \in 0..MaxRequests
  BY AccountsAssumption DEF Counted, Inv, TypeOK, AccountsTypeOK, AccountsAssumption
<1>2. /\ alerts \subseteq {"registered", "updated"} \X Ids /\ excused \subseteq Ids \X AllTables
      /\ requests \in 0..MaxRequests /\ faults \in 0..MaxFaults /\ Renamed
  BY DEF Inv, TypeOK, AccountsTypeOK, AccountsOK
<1>3. ASSUME NEW m \in mailed, ConfirmEmail(m)
      PROVE  Inv'
  <2>1. PICK u \in DOMAIN users : users' = [users EXCEPT ![u].token = 0, ![u].approved = TRUE]
    BY <1>3 DEF ConfirmEmail
  <2> DEFINE row == [users[u] EXCEPT !.token = 0, !.approved = TRUE]
  <2>2. users[u] \in User
    BY UserTyped DEF Inv
  <2>3. /\ row \in User /\ row.role = users[u].role /\ row.tables = users[u].tables
        /\ row.approved /\ row.email = users[u].email
    <3>1. 0 \in 0..MaxTokens
      BY AccountsAssumption DEF AccountsAssumption
    <3>2. row \in User /\ row.role = users[u].role /\ row.tables = users[u].tables /\ row.email = users[u].email
      BY <2>2, <3>1 DEF User
    <3>3. row.approved
      BY <2>2 DEF User
    <3> QED
      BY <3>2, <3>3
  <2>4. users' = [users EXCEPT ![u] = row]
    BY <2>1
  <2> HIDE DEF row
  <2>5. UNCHANGED <<jobs, mailed, request, answered, cut, tokens, deleted, excused, alerts, requests, faults>>
    BY <1>3 DEF ConfirmEmail, history, bounds
  <2>6. /\ \A t \in AllTables : HasOrExcused(u, t) => t \in row.tables \/ <<u, t>> \in excused'
        /\ Found(u) => (row.role = "TUTOR" => "Subscription" \in row.tables)
        /\ u \in deleted' => row.email.suffixes > 0
    BY <1>2, <2>3, <2>5 DEF HasOrExcused, Found, Renamed
  <2> QED
    BY <1>2, <2>3, <2>4, <2>5, <2>6, RowStep
<1>4. ASSUME NEW u \in DOMAIN users, MakeRecord(u)
      PROVE  Inv'
  <2> DEFINE row == [users[u] EXCEPT !.tables = @ \cup {"Subscription"}]
  <2>1. users[u] \in User /\ "Subscription" \in AllTables
    BY UserTyped DEF Inv, AllTables, Tables
  <2>2. /\ row \in User /\ row.role = users[u].role /\ row.tables = users[u].tables \cup {"Subscription"}
        /\ row.approved = users[u].approved /\ row.token = users[u].token /\ row.email = users[u].email
    BY <2>1 DEF User
  <2>3. users' = [users EXCEPT ![u] = row]
    BY <1>4 DEF MakeRecord
  <2> HIDE DEF row
  <2>4. UNCHANGED <<jobs, mailed, request, answered, cut, tokens, deleted, excused, alerts, faults>>
    BY <1>4 DEF MakeRecord, history
  <2>5. requests' \in 0..MaxRequests
    BY <1>1, <1>4 DEF MakeRecord
  <2>6. /\ \A t \in AllTables : HasOrExcused(u, t) => t \in row.tables \/ <<u, t>> \in excused'
        /\ Found(u) => (row.role = "TUTOR" => "Subscription" \in row.tables)
        /\ u \in deleted' => row.email.suffixes > 0
    BY <1>2, <2>2, <2>4 DEF HasOrExcused, Found, Renamed
  <2> QED
    BY <1>2, <2>2, <2>3, <2>4, <2>5, <2>6, RowStep
<1>5. ASSUME NEW u \in DOMAIN users, FillIn(u)
      PROVE  Inv'
  <2> DEFINE row == [users[u] EXCEPT !.filled = TRUE]
  <2>1. users[u] \in User
    BY UserTyped DEF Inv
  <2>2. /\ row \in User /\ row.role = users[u].role /\ row.tables = users[u].tables
        /\ row.approved = users[u].approved /\ row.token = users[u].token /\ row.email = users[u].email
    BY <2>1 DEF User
  <2>3. users' = [users EXCEPT ![u] = row]
    BY <1>5, Zenon DEF FillIn
  <2> HIDE DEF row
  <2>4. UNCHANGED <<jobs, mailed, request, answered, cut, tokens, deleted, excused, alerts, faults>>
    BY <1>5 DEF FillIn, history
  <2>5. requests' \in 0..MaxRequests
    BY <1>1, <1>5 DEF FillIn
  <2>6. /\ \A t \in AllTables : HasOrExcused(u, t) => t \in row.tables \/ <<u, t>> \in excused'
        /\ Found(u) => (row.role = "TUTOR" => "Subscription" \in row.tables)
        /\ u \in deleted' => row.email.suffixes > 0
    BY <1>2, <2>2, <2>4 DEF HasOrExcused, Found, Renamed
  <2> QED
    BY <1>2, <2>2, <2>3, <2>4, <2>5, <2>6, RowStep
<1>6. ASSUME NEW u \in DOMAIN users, RemoveDetail(u)
      PROVE  Inv'
  <2> DEFINE row == [users[u] EXCEPT !.tables = @ \ {"TutoringDetail"}]
  <2>1. users[u] \in User /\ u \in Ids /\ "TutoringDetail" \in AllTables
    BY UserTyped DEF Inv, AllTables, Tables
  <2>2. /\ row \in User /\ row.role = users[u].role /\ row.tables = users[u].tables \ {"TutoringDetail"}
        /\ row.approved = users[u].approved /\ row.token = users[u].token /\ row.email = users[u].email
    BY <2>1 DEF User
  <2>3. users' = [users EXCEPT ![u] = row]
    BY <1>6 DEF RemoveDetail
  <2> HIDE DEF row
  <2>4. UNCHANGED <<jobs, mailed, request, answered, cut, tokens, deleted, alerts, faults>>
        /\ excused' = excused \cup {<<u, "TutoringDetail">>}
    BY <1>6 DEF RemoveDetail
  <2>5. requests' \in 0..MaxRequests /\ excused' \subseteq Ids \X AllTables /\ excused \subseteq excused'
    BY <1>1, <1>2, <1>6, <2>1, <2>4 DEF RemoveDetail
  <2>6. /\ \A t \in AllTables : HasOrExcused(u, t) => t \in row.tables \/ <<u, t>> \in excused'
        /\ Found(u) => (row.role = "TUTOR" => "Subscription" \in row.tables)
        /\ u \in deleted' => row.email.suffixes > 0
    BY <1>2, <2>2, <2>4 DEF HasOrExcused, Found, Renamed
  <2> QED
    BY <1>2, <2>2, <2>3, <2>4, <2>5, <2>6, RowStep
<1>7. ASSUME NEW u \in DOMAIN users, NEW a \in Addresses, Update(u, a)
      PROVE  Inv'
  <2> DEFINE row == [users[u] EXCEPT !.email = Plain(a)]
  <2>1. users[u] \in User /\ u \in Ids /\ Plain(a) \in Email
    BY UserTyped, AccountsAssumption DEF Inv, Plain, Email, AccountsAssumption
  <2>2. /\ row \in User /\ row.role = users[u].role /\ row.tables = users[u].tables
        /\ row.approved = users[u].approved /\ row.token = users[u].token
    BY <2>1 DEF User
  <2>3. users' = [users EXCEPT ![u] = row]
    BY <1>7 DEF Update
  <2> HIDE DEF row
  <2>4. UNCHANGED <<jobs, mailed, request, answered, cut, tokens, excused, faults>>
        /\ deleted' = deleted \ {u} /\ alerts' = alerts \cup {Updated(u)}
    BY <1>7 DEF Update, Raise
  <2>5. requests' \in 0..MaxRequests /\ alerts' \subseteq {"registered", "updated"} \X Ids
    BY <1>1, <1>2, <1>7, <2>1, <2>4 DEF Update, Updated
  <2>6. /\ \A t \in AllTables : HasOrExcused(u, t) => t \in row.tables \/ <<u, t>> \in excused'
        /\ Found(u) => (row.role = "TUTOR" => "Subscription" \in row.tables)
        /\ u \notin deleted'
    BY <2>2, <2>4 DEF HasOrExcused, Found
  <2> QED
    BY <1>2, <2>2, <2>3, <2>4, <2>5, <2>6, RowStep
<1>8. ASSUME NEW u \in DOMAIN users, UpdatePicture(u)
      PROVE  Inv'
  <2> DEFINE row == users[u]
  <2>1. row \in User /\ u \in Ids
    BY UserTyped DEF Inv
  <2>2. users' = [users EXCEPT ![u] = row]
    BY <1>8 DEF UpdatePicture, Inv, TypeOK, AccountsTypeOK
  <2>3. UNCHANGED <<jobs, mailed, request, answered, cut, tokens, deleted, excused, faults>>
        /\ alerts' = alerts \cup {Updated(u)}
    BY <1>8 DEF UpdatePicture, Raise, history
  <2>4. requests' \in 0..MaxRequests /\ alerts' \subseteq {"registered", "updated"} \X Ids
    BY <1>1, <1>2, <1>8, <2>1, <2>3 DEF UpdatePicture, Updated
  <2>5. /\ \A t \in AllTables : HasOrExcused(u, t) => t \in row.tables \/ <<u, t>> \in excused'
        /\ Found(u) => (row.role = "TUTOR" => "Subscription" \in row.tables)
        /\ u \in deleted' => row.email.suffixes > 0
    BY <1>2, <2>3 DEF HasOrExcused, Found, Renamed
  <2> HIDE DEF row
  <2>6. row = users[u]
    BY DEF row
  <2> QED
    BY <1>2, <2>1, <2>2, <2>3, <2>4, <2>5, <2>6, RowStep
<1> QED
  BY <1>3, <1>4, <1>5, <1>6, <1>7, <1>8

\* A step of no account.
LEMMA AccountsStay ==
  ASSUME Inv, UNCHANGED <<accountRows, request, history, tokens>>, mailed \subseteq mailed',
         jobs' \subseteq [user : Ids, to : Email, started : BOOLEAN],
         requests' \in 0..MaxRequests, faults' \in 0..MaxFaults
  PROVE  AccountsTypeOK' /\ AccountsOK' /\ Grows
<1>1. UNCHANGED <<users, alerts, request, answered, deleted, excused, cut, tokens>>
  BY DEF accountRows, history
<1>2. Grows
  BY <1>1 DEF Grows, HasOrExcused, Found
<1>3. AccountsTypeOK'
  BY <1>1 DEF Inv, TypeOK, AccountsTypeOK
<1>4. Held' /\ Answered' /\ Renamed'
  BY <1>1 DEF Inv, AccountsOK, Held, RequestOK, Whole, HasOrExcused, Answered, AnsweredWhole, Renamed
<1>5. LinksOK'
  BY <1>1 DEF Inv, AccountsOK, LinksOK, LinkWorks
<1> QED
  BY <1>2, <1>3, <1>4, <1>5 DEF AccountsOK

LEMMA JobStepsKeep ==
  ASSUME Inv, UNCHANGED noticeVars, NEW j \in jobs, StartJob(j) \/ RunJob(j)
  PROVE  Inv'
<1>1. j \in [user : Ids, to : Email, started : BOOLEAN]
  BY DEF Inv, TypeOK, AccountsTypeOK
<1>2. UNCHANGED <<accountRows, request, history, tokens, requests, faults>>
  BY DEF StartJob, RunJob, bounds, HandOver
<1>3. jobs' \subseteq [user : Ids, to : Email, started : BOOLEAN]
  <2> DEFINE k == [j EXCEPT !.started = TRUE]
  <2>1. k \in [user : Ids, to : Email, started : BOOLEAN]
    BY <1>1
  <2>2. jobs' \subseteq jobs \cup {k}
    BY Zenon DEF StartJob, RunJob, HandOver
  <2> HIDE DEF k
  <2> QED
    BY <2>1, <2>2 DEF Inv, TypeOK, AccountsTypeOK
<1>4. mailed \subseteq mailed' /\ \A m \in mailed' \ mailed : m.kind \notin {"notice", "link"}
  BY DEF StartJob, RunJob, Remind, HandOver
<1>5. AccountsTypeOK' /\ AccountsOK' /\ Grows
  BY <1>2, <1>3, <1>4, AccountsStay DEF Inv, TypeOK, AccountsTypeOK
<1>6. NoticesOK'
  BY <1>4, <1>5, NoticesFrame DEF Inv
<1> QED
  BY <1>5, <1>6 DEF Inv, TypeOK, noticeVars

-----------------------------------------------------------------------------
(* Steps of the notices and of the mailing list                            *)

LEMMA ReadersRead ==
  ASSUME NEW n \in DOMAIN notices, NEW u \in Readers(n)
  PROVE  u \in DOMAIN users /\ n \in GetArchived \cup PageOf(u)
BY DEF Readers, FindAll, FindOne, GetArchived, PageOf, GetGlobal, GetUser

LEMMA PostingTyped ==
  ASSUME Inv, NEW p \in Posters
  PROVE  posting[p] \in Posting
BY DEF Inv, TypeOK

LEMMA SetPosting ==
  ASSUME Inv, NEW p \in Posters, NEW r \in Posting, posting' = [posting EXCEPT ![p] = r]
  PROVE  /\ posting' \in [Posters -> Posting] /\ posting'[p] = r
         /\ \A q \in Posters : q # p => posting'[q] = posting[q]
BY DEF Inv, TypeOK

LEMMA WaitingTyped == Waiting \in Posting /\ Waiting.pc = "idle"
BY NoticesAssumption DEF NoticesAssumption, Waiting, Posting

LEMMA CountedTyped ==
  ASSUME Inv, Counted
  PROVE  requests' \in 0..MaxRequests
BY AccountsAssumption DEF Counted, Inv, TypeOK, AccountsTypeOK, AccountsAssumption

LEMMA InsertKeeps ==
  ASSUME Inv, NEW p \in Posters, NEW row \in Row, NEW readers,
         readers \subseteq IF row.target = 0 THEN FindAll(row.role) ELSE FindOne(row.target),
         Insert(p, row, readers)
  PROVE  Inv'
<1> DEFINE r == [posting[p] EXCEPT !.pc = "notify", !.id = Len(notices) + 1]
<1>1. /\ posting[p].pc = "idle" /\ Len(notices) < MaxNotices
      /\ notices' = Append(notices, row) /\ audience' = Append(audience, readers)
      /\ posting' = [posting EXCEPT ![p] = r]
      /\ UNCHANGED <<accountRows, jobs, mailed, request, history, tokens, faults, list, missed>>
      /\ requests' \in 0..MaxRequests
  BY CountedTyped DEF Insert
<1>2. AccountsTypeOK' /\ AccountsOK' /\ Grows
  BY <1>1, AccountsStay DEF Inv, TypeOK, AccountsTypeOK
<1>3. UNCHANGED <<users, mailed, list, missed>>
  BY <1>1 DEF accountRows
<1>4. PICK n \in Nat : n = Len(notices) + 1
  BY DEF Inv, TypeOK
<1>5. /\ notices \in Seq(Row) /\ audience \in Seq(SUBSET Ids) /\ DOMAIN audience = DOMAIN notices
      /\ n \in 0..MaxNotices
  BY <1>1, <1>4, NoticesAssumption DEF NoticesAssumption, Inv, TypeOK, NoticesOK, AudiencesOK
<1>6. readers \in SUBSET Ids
  BY UserTyped DEF FindAll, FindOne, Inv
<1>7. /\ notices' \in Seq(Row) /\ DOMAIN notices' = DOMAIN notices \cup {n} /\ n \notin DOMAIN notices
      /\ notices'[n] = row /\ \A i \in DOMAIN notices : notices'[i] = notices[i]
      /\ Len(notices') <= MaxNotices
  BY <1>1, <1>4, <1>5
<1>8. /\ audience' \in Seq(SUBSET Ids) /\ DOMAIN audience' = DOMAIN notices'
      /\ audience'[n] = readers /\ \A i \in DOMAIN notices : audience'[i] = audience[i]
  <2>1. Len(audience) = Len(notices)
    BY <1>5
  <2> QED
    BY <1>1, <1>4, <1>5, <1>6, <1>7, <2>1
<1>9. r \in Posting /\ r.pc = "notify" /\ r.id = n
  BY <1>4, <1>5, PostingTyped DEF Posting
<1> HIDE DEF r
<1>10. /\ posting' \in [Posters -> Posting] /\ posting'[p] = r
       /\ \A q \in Posters : q # p => posting'[q] = posting[q]
  BY <1>1, <1>9, SetPosting
<1>11. AudiencesOK'
  BY <1>3, <1>7, <1>8 DEF Inv, NoticesOK, AudiencesOK, Readers, FindAll, FindOne, Found
<1>12. PostingsOK'
  BY <1>7, <1>9, <1>10 DEF Inv, NoticesOK, PostingsOK
<1>13. MailsOK'
  BY <1>3 DEF Inv, NoticesOK, MailsOK
<1>14. NoticesAgree'
  <2>1. \A u \in DOMAIN users : PageOf(u)' \subseteq PageOf(u) \cup {n} /\ PageOf(u) \subseteq PageOf(u)'
    BY <1>3, <1>7 DEF PageOf, GetGlobal, GetUser
  <2>2. GetArchived \subseteq GetArchived'
    BY <1>7 DEF GetArchived
  <2>3. ASSUME NEW u \in DOMAIN users', NEW i \in PageOf(u)'
        PROVE  \/ u \notin audience'[i]
               \/ \E q \in Posters : posting'[q].pc = "notify" /\ posting'[q].id = i
               \/ \E m \in mailed' : m.kind = "notice" /\ m.user = u /\ m.about = i
    <3>1. CASE i = n
      BY <1>9, <1>10, <3>1
    <3>2. CASE i # n
      <4>1. i \in PageOf(u) /\ i \in DOMAIN notices
        BY <1>3, <2>1, <2>3, <3>2 DEF PageOf, GetGlobal, GetUser
      <4>2. \/ u \notin audience[i]
            \/ \E q \in Posters : posting[q].pc = "notify" /\ posting[q].id = i
            \/ \E m \in mailed : m.kind = "notice" /\ m.user = u /\ m.about = i
        BY <1>3, <4>1 DEF Inv, NoticesOK, NoticesAgree
      <4> QED
        BY <1>1, <1>3, <1>8, <1>10, <4>1, <4>2
    <3> QED
      BY <3>1, <3>2
  <2>4. ASSUME NEW m \in mailed', m.kind = "notice"
        PROVE  m.about \in GetArchived' \cup PageOf(m.user)'
    <3>1. m.user \in DOMAIN users /\ m.about \in GetArchived \cup PageOf(m.user)
      BY <1>3, <2>4 DEF Inv, NoticesOK, MailsOK, NoticesAgree
    <3>2. PICK u \in DOMAIN users : u = m.user
      BY <3>1
    <3>3. m.about \in GetArchived' \cup PageOf(u)'
      BY <2>1, <2>2, <3>1, <3>2
    <3> QED
      BY <3>2, <3>3
  <2>5. ASSUME NEW m \in mailed', m.kind = "link"
        PROVE  \/ m.to.address \in list' \cup missed'
               \/ \E q \in Posters : posting'[q].pc \in {"find", "subscribe"} /\ posting'[q].to = m.to.address
    BY <1>1, <1>3, <1>10, <2>5 DEF Inv, NoticesOK, NoticesAgree
  <2> QED
    BY <2>3, <2>4, <2>5 DEF NoticesAgree
<1> QED
  BY <1>1, <1>2, <1>7, <1>8, <1>10, <1>11, <1>12, <1>13, <1>14 DEF Inv, TypeOK, NoticesOK

LEMMA PostsKeep ==
  ASSUME Inv, NEW p \in Posters,
         \/ \E role \in NoticeRoles : CreateNewGlobal(p, role)
         \/ \E u \in DOMAIN users : CreateNewUser(p, u)
  PROVE  Inv'
<1>1. ASSUME NEW role \in NoticeRoles, CreateNewGlobal(p, role)
      PROVE  Inv'
  <2> DEFINE row == [target |-> 0, role |-> role, archived |-> FALSE]
  <2>1. row \in Row /\ row.target = 0 /\ row.role = role
    BY AccountsAssumption DEF AccountsAssumption, Row
  <2> HIDE DEF row
  <2>2. Insert(p, row, FindAll(role))
    BY <1>1 DEF CreateNewGlobal, row
  <2> QED
    BY <2>1, <2>2, InsertKeeps
<1>2. ASSUME NEW u \in DOMAIN users, CreateNewUser(p, u)
      PROVE  Inv'
  <2> DEFINE row == [target |-> u, role |-> "ALL", archived |-> FALSE]
  <2>1. row \in Row /\ row.target = u /\ u # 0
    BY UserTyped DEF Inv, Row, NoticeRoles, Ids
  <2> HIDE DEF row
  <2>2. Insert(p, row, FindOne(u))
    BY <1>2 DEF CreateNewUser, row
  <2> QED
    BY <2>1, <2>2, InsertKeeps
<1> QED
  BY <1>1, <1>2

LEMMA NotifyReadersKeeps ==
  ASSUME Inv, NEW p \in Posters, NotifyReaders(p)
  PROVE  Inv'
<1>1. /\ posting[p].pc = "notify" /\ posting' = [posting EXCEPT ![p] = Waiting]
      /\ UNCHANGED <<accountRows, jobs, request, history, tokens, requests, faults>>
      /\ UNCHANGED <<notices, list, audience, missed>>
  BY DEF NotifyReaders, Wait, bounds, HandOver
<1>2. PICK n \in DOMAIN notices : n = posting[p].id
  BY <1>1 DEF Inv, NoticesOK, PostingsOK
<1>3. mailed' = mailed \cup {Notify(u, users[u].email, n) : u \in Readers(n)}
  BY <1>2 DEF NotifyReaders, HandOver
<1>4. AccountsTypeOK' /\ AccountsOK' /\ Grows
  BY <1>1, <1>3, AccountsStay DEF Inv, TypeOK, AccountsTypeOK
<1>5. UNCHANGED users
  BY <1>1 DEF accountRows
<1>6. /\ posting' \in [Posters -> Posting] /\ posting'[p].pc = "idle"
      /\ \A q \in Posters : q # p => posting'[q] = posting[q]
  BY <1>1, WaitingTyped, SetPosting
<1>7. \A m \in mailed' : m \in mailed \/ \E u \in Readers(n) : m.kind = "notice" /\ m.user = u /\ m.about = n
  <2> SUFFICES ASSUME NEW m \in mailed', m \notin mailed
               PROVE  \E u \in Readers(n) : m.kind = "notice" /\ m.user = u /\ m.about = n
    OBVIOUS
  <2>1. PICK u \in Readers(n) : m = Notify(u, users[u].email, n)
    BY <1>3
  <2> QED
    BY <2>1 DEF Notify
<1>8. \A u \in Readers(n) : \E m \in mailed' : m.kind = "notice" /\ m.user = u /\ m.about = n
  <2> SUFFICES ASSUME NEW u \in Readers(n)
               PROVE  \E m \in mailed' : m.kind = "notice" /\ m.user = u /\ m.about = n
    OBVIOUS
  <2>1. Notify(u, users[u].email, n) \in mailed'
    BY <1>3
  <2>2. PICK m \in mailed' : m = Notify(u, users[u].email, n)
    BY <2>1
  <2> QED
    BY <2>2 DEF Notify
<1>9. AudiencesOK' /\ PostingsOK'
  BY <1>1, <1>5, <1>6 DEF Inv, NoticesOK, AudiencesOK, PostingsOK, Readers, FindAll, FindOne, Found
<1>10. MailsOK'
  BY <1>5, <1>7, ReadersRead DEF Inv, NoticesOK, MailsOK
<1>11. NoticesAgree'
  <2>1. \A u \in DOMAIN users : PageOf(u)' = PageOf(u)
    BY <1>1, <1>5 DEF PageOf, GetGlobal, GetUser
  <2>2. GetArchived' = GetArchived
    BY <1>1 DEF GetArchived
  <2>3. ASSUME NEW u \in DOMAIN users', NEW i \in PageOf(u)'
        PROVE  \/ u \notin audience'[i]
               \/ \E q \in Posters : posting'[q].pc = "notify" /\ posting'[q].id = i
               \/ \E m \in mailed' : m.kind = "notice" /\ m.user = u /\ m.about = i
    <3>1. /\ i \in PageOf(u) /\ u \in DOMAIN users
          /\ \/ u \notin audience[i]
             \/ \E q \in Posters : posting[q].pc = "notify" /\ posting[q].id = i
             \/ \E m \in mailed : m.kind = "notice" /\ m.user = u /\ m.about = i
      BY <1>5, <2>1, <2>3 DEF Inv, NoticesOK, NoticesAgree
    <3>2. CASE i = n
      <4>1. audience[n] \subseteq Readers(n)
        BY DEF Inv, NoticesOK, AudiencesOK
      <4> QED
        BY <1>1, <1>8, <3>2, <4>1
    <3>3. CASE i # n
      BY <1>1, <1>2, <1>3, <1>6, <3>1, <3>3
    <3> QED
      BY <3>2, <3>3
  <2>4. ASSUME NEW m \in mailed', m.kind = "notice"
        PROVE  m.about \in GetArchived' \cup PageOf(m.user)'
    <3>1. m.user \in DOMAIN users /\ m.about \in GetArchived \cup PageOf(m.user)
      BY <1>7, <2>4, ReadersRead DEF Inv, NoticesOK, MailsOK, NoticesAgree
    <3>2. PICK u \in DOMAIN users : u = m.user
      BY <3>1
    <3>3. m.about \in GetArchived' \cup PageOf(u)'
      BY <2>1, <2>2, <3>1, <3>2
    <3> QED
      BY <3>2, <3>3
  <2>5. ASSUME NEW m \in mailed', m.kind = "link"
        PROVE  \/ m.to.address \in list' \cup missed'
               \/ \E q \in Posters : posting'[q].pc \in {"find", "subscribe"} /\ posting'[q].to = m.to.address
    <3>1. m \in mailed
      BY <1>7, <2>5
    <3>2. \/ m.to.address \in list \cup missed
          \/ \E q \in Posters : posting[q].pc \in {"find", "subscribe"} /\ posting[q].to = m.to.address
      BY <2>5, <3>1 DEF Inv, NoticesOK, NoticesAgree
    <3> QED
      BY <1>1, <1>6, <3>2
  <2> QED
    BY <2>3, <2>4, <2>5 DEF NoticesAgree
<1> QED
  BY <1>1, <1>4, <1>6, <1>9, <1>10, <1>11 DEF Inv, TypeOK, NoticesOK

LEMMA DeleteNotificationKeeps ==
  ASSUME Inv, NEW n \in DOMAIN notices, DeleteNotification(n)
  PROVE  Inv'
<1> DEFINE row == [notices[n] EXCEPT !.archived = TRUE]
<1>1. /\ UNCHANGED <<accountRows, jobs, mailed, request, history, tokens, requests, faults>>
      /\ UNCHANGED <<list, posting, audience, missed>> /\ notices' = [notices EXCEPT ![n] = row]
  BY Zenon DEF DeleteNotification, accountVars, bounds
<1>2. AccountsTypeOK' /\ AccountsOK' /\ Grows
  BY <1>1, AccountsStay DEF Inv, TypeOK, AccountsTypeOK
<1>3. UNCHANGED users
  BY <1>1 DEF accountRows
<1>4. notices \in Seq(Row) /\ notices[n] \in Row
  BY DEF Inv, TypeOK
<1>5. row \in Row /\ row.target = notices[n].target /\ row.role = notices[n].role
  BY <1>4 DEF Row
<1>6. row.archived
  BY <1>4 DEF Row
<1> HIDE DEF row
<1>7. /\ notices' \in Seq(Row) /\ Len(notices') = Len(notices) /\ DOMAIN notices' = DOMAIN notices
      /\ notices'[n] = row /\ \A i \in DOMAIN notices : i # n => notices'[i] = notices[i]
  BY <1>1, <1>4, <1>5, ExceptSeq
<1>8. \A i \in DOMAIN notices : notices'[i].target = notices[i].target /\ notices'[i].role = notices[i].role
  BY <1>5, <1>7
<1>9. AudiencesOK' /\ PostingsOK' /\ MailsOK'
  BY <1>1, <1>3, <1>7, <1>8
     DEF Inv, NoticesOK, AudiencesOK, PostingsOK, MailsOK, Readers, FindAll, FindOne, Found
<1>10. NoticesAgree'
  <2>1. \A u \in DOMAIN users : PageOf(u)' \subseteq PageOf(u) /\ PageOf(u) \subseteq PageOf(u)' \cup {n}
    <3>1. \A u \in DOMAIN users : PageOf(u)' \subseteq PageOf(u)
      BY <1>3, <1>6, <1>7, <1>8 DEF PageOf, GetGlobal, GetUser
    <3>2. \A u \in DOMAIN users : PageOf(u) \subseteq PageOf(u)' \cup {n}
      BY <1>3, <1>7, <1>8 DEF PageOf, GetGlobal, GetUser
    <3> QED
      BY <3>1, <3>2
  <2>2. GetArchived \cup {n} \subseteq GetArchived'
    BY <1>6, <1>7 DEF GetArchived
  <2>3. ASSUME NEW u \in DOMAIN users', NEW i \in PageOf(u)'
        PROVE  \/ u \notin audience'[i]
               \/ \E q \in Posters : posting'[q].pc = "notify" /\ posting'[q].id = i
               \/ \E m \in mailed' : m.kind = "notice" /\ m.user = u /\ m.about = i
    BY <1>1, <1>3, <2>1, <2>3 DEF Inv, NoticesOK, NoticesAgree
  <2>4. ASSUME NEW m \in mailed', m.kind = "notice"
        PROVE  m.about \in GetArchived' \cup PageOf(m.user)'
    <3>1. m.user \in DOMAIN users /\ m.about \in GetArchived \cup PageOf(m.user)
      BY <1>1, <2>4 DEF Inv, NoticesOK, MailsOK, NoticesAgree
    <3>2. PICK u \in DOMAIN users : u = m.user
      BY <3>1
    <3>3. m.about \in GetArchived' \cup PageOf(u)'
      BY <2>1, <2>2, <3>1, <3>2
    <3> QED
      BY <3>2, <3>3
  <2>5. ASSUME NEW m \in mailed', m.kind = "link"
        PROVE  \/ m.to.address \in list' \cup missed'
               \/ \E q \in Posters : posting'[q].pc \in {"find", "subscribe"} /\ posting'[q].to = m.to.address
    BY <1>1, <2>5 DEF Inv, NoticesOK, NoticesAgree
  <2> QED
    BY <2>3, <2>4, <2>5 DEF NoticesAgree
<1> QED
  BY <1>1, <1>2, <1>7, <1>9, <1>10 DEF Inv, TypeOK, NoticesOK

\* A step of the mailing list: the notices, and who posts them, stay.
LEMMA ListStep ==
  ASSUME Inv, NEW p \in Posters, NEW r \in Posting, posting' = [posting EXCEPT ![p] = r],
         posting[p].pc # "notify", r.pc # "notify", r.pc \in {"find", "subscribe"} => r.to \in Addresses,
         UNCHANGED <<accountRows, jobs, request, history, tokens, faults, notices, audience, missed>>,
         requests' \in 0..MaxRequests, list \subseteq list', list' \subseteq Addresses,
         mailed \subseteq mailed', \A m \in mailed' \ mailed : m.kind # "notice",
         \A m \in mailed' : m.kind = "link" =>
           \/ m.to.address \in list' \cup missed'
           \/ \E q \in Posters : posting'[q].pc \in {"find", "subscribe"} /\ posting'[q].to = m.to.address
  PROVE  Inv'
<1>1. AccountsTypeOK' /\ AccountsOK' /\ Grows
  BY AccountsStay DEF Inv, TypeOK, AccountsTypeOK
<1>2. UNCHANGED <<users, notices, audience, missed>>
  BY DEF accountRows
<1>3. /\ posting' \in [Posters -> Posting] /\ posting'[p] = r
      /\ \A q \in Posters : q # p => posting'[q] = posting[q]
  BY SetPosting
<1>4. AudiencesOK' /\ PostingsOK' /\ MailsOK'
  BY <1>2, <1>3 DEF Inv, NoticesOK, AudiencesOK, PostingsOK, MailsOK, Readers, FindAll, FindOne, Found
<1>5. NoticesAgree'
  <2>1. \A u \in DOMAIN users : PageOf(u)' = PageOf(u)
    BY <1>2 DEF PageOf, GetGlobal, GetUser
  <2>2. GetArchived' = GetArchived
    BY <1>2 DEF GetArchived
  <2>3. ASSUME NEW u \in DOMAIN users', NEW i \in PageOf(u)'
        PROVE  \/ u \notin audience'[i]
               \/ \E q \in Posters : posting'[q].pc = "notify" /\ posting'[q].id = i
               \/ \E m \in mailed' : m.kind = "notice" /\ m.user = u /\ m.about = i
    <3>1. /\ i \in PageOf(u) /\ u \in DOMAIN users
          /\ \/ u \notin audience[i]
             \/ \E q \in Posters : posting[q].pc = "notify" /\ posting[q].id = i
             \/ \E m \in mailed : m.kind = "notice" /\ m.user = u /\ m.about = i
      BY <1>2, <2>1, <2>3 DEF Inv, NoticesOK, NoticesAgree
    <3> QED
      BY <1>2, <1>3, <3>1
  <2>4. ASSUME NEW m \in mailed', m.kind = "notice"
        PROVE  m.about \in GetArchived' \cup PageOf(m.user)'
    <3>1. m.user \in DOMAIN users /\ m.about \in GetArchived \cup PageOf(m.user)
      BY <2>4 DEF Inv, NoticesOK, MailsOK, NoticesAgree
    <3>2. PICK u \in DOMAIN users : u = m.user
      BY <3>1
    <3>3. m.about \in GetArchived' \cup PageOf(u)'
      BY <2>1, <2>2, <3>1, <3>2
    <3> QED
      BY <3>2, <3>3
  <2> QED
    BY <2>3, <2>4 DEF NoticesAgree
<1> QED
  BY <1>1, <1>2, <1>3, <1>4, <1>5 DEF Inv, TypeOK, NoticesOK

LEMMA ListStepsKeep ==
  ASSUME Inv, NEW p \in Posters,
         (\E a \in Addresses : SendLinkToEmail(p, a)) \/ FindSubscription(p) \/ Subscribe(p)
  PROVE  Inv'
<1>1. list \subseteq Addresses /\ requests \in 0..MaxRequests
  BY DEF Inv, TypeOK, AccountsTypeOK
<1>2. \A m \in mailed : m.kind = "link" =>
        \/ m.to.address \in list \cup missed
        \/ \E q \in Posters : posting[q].pc \in {"find", "subscribe"} /\ posting[q].to = m.to.address
  BY DEF Inv, NoticesOK, NoticesAgree
<1>3. posting[p] \in Posting /\ (posting[p].pc \in {"find", "subscribe"} => posting[p].to \in Addresses)
  BY PostingTyped DEF Inv, NoticesOK, PostingsOK
<1>4. ASSUME NEW a \in Addresses, SendLinkToEmail(p, a)
      PROVE  Inv'
  <2> DEFINE r == [posting[p] EXCEPT !.pc = "find", !.to = a]
  <2>1. /\ posting[p].pc = "idle" /\ posting' = [posting EXCEPT ![p] = r]
        /\ UNCHANGED <<accountRows, jobs, request, history, tokens, faults, notices, list, audience, missed>>
        /\ mailed' = mailed \cup {ResourceLink(a)} /\ requests' \in 0..MaxRequests
    BY <1>4, CountedTyped DEF SendLinkToEmail, HandOver
  <2>2. r \in Posting /\ r.pc = "find" /\ r.to = a
    BY <1>3 DEF Posting
  <2> HIDE DEF r
  <2>3. /\ posting'[p] = r /\ \A q \in Posters : q # p => posting'[q] = posting[q]
    BY <2>1, <2>2, SetPosting
  <2>4. ResourceLink(a).kind = "link" /\ ResourceLink(a).to.address = a
    BY DEF ResourceLink, Plain
  <2>5. \A m \in mailed' : m.kind = "link" =>
           \/ m.to.address \in list' \cup missed'
           \/ \E q \in Posters : posting'[q].pc \in {"find", "subscribe"} /\ posting'[q].to = m.to.address
    BY <1>2, <2>1, <2>2, <2>3, <2>4
  <2>6. \A m \in mailed' \ mailed : m.kind # "notice"
    BY <2>1, <2>4
  <2>7. list \subseteq list' /\ list' \subseteq Addresses /\ mailed \subseteq mailed'
    BY <1>1, <2>1
  <2> QED
    BY <2>1, <2>2, <2>5, <2>6, <2>7, ListStep
<1>5. CASE FindSubscription(p)
  <2> DEFINE s == [posting[p] EXCEPT !.pc = "subscribe"]
  <2>1. /\ posting[p].pc = "find"
        /\ UNCHANGED <<accountRows, jobs, mailed, request, history, tokens, requests, faults, notices, list, audience, missed>>
    BY <1>5 DEF FindSubscription, accountVars, bounds
  <2>2. s \in Posting /\ s.pc = "subscribe" /\ s.to = posting[p].to
    BY <1>3 DEF Posting
  <2>3. PICK r \in Posting : /\ posting' = [posting EXCEPT ![p] = r]
                             /\ r = s \/ (r = Waiting /\ posting[p].to \in list)
    BY <1>5, <2>2, WaitingTyped DEF FindSubscription, Wait
  <2>4. r.pc \in {"idle", "subscribe"} /\ (r.pc = "subscribe" => r.to = posting[p].to)
        /\ (r.pc = "idle" => posting[p].to \in list)
    BY <2>2, <2>3, WaitingTyped
  <2>5. /\ posting'[p] = r /\ \A q \in Posters : q # p => posting'[q] = posting[q]
    BY <2>3, SetPosting
  <2>6. \A m \in mailed' : m.kind = "link" =>
           \/ m.to.address \in list' \cup missed'
           \/ \E q \in Posters : posting'[q].pc \in {"find", "subscribe"} /\ posting'[q].to = m.to.address
    BY <1>2, <2>1, <2>4, <2>5
  <2>7. requests' \in 0..MaxRequests /\ list \subseteq list' /\ list' \subseteq Addresses
        /\ mailed \subseteq mailed' /\ (\A m \in mailed' \ mailed : m.kind # "notice")
        /\ r.pc # "notify" /\ (r.pc \in {"find", "subscribe"} => r.to \in Addresses)
    BY <1>1, <1>3, <2>1, <2>4
  <2> QED
    BY <2>1, <2>3, <2>6, <2>7, ListStep
<1>6. CASE Subscribe(p)
  <2>1. /\ posting[p].pc = "subscribe" /\ posting' = [posting EXCEPT ![p] = Waiting]
        /\ UNCHANGED <<accountRows, jobs, mailed, request, history, tokens, requests, faults, notices, audience, missed>>
        /\ list' = list \cup {posting[p].to}
    BY <1>6 DEF Subscribe, Wait, accountVars, bounds
  <2>2. /\ posting'[p] = Waiting /\ \A q \in Posters : q # p => posting'[q] = posting[q]
    BY <2>1, WaitingTyped, SetPosting
  <2>3. \A m \in mailed' : m.kind = "link" =>
           \/ m.to.address \in list' \cup missed'
           \/ \E q \in Posters : posting'[q].pc \in {"find", "subscribe"} /\ posting'[q].to = m.to.address
    BY <1>2, <2>1, <2>2
  <2>4. requests' \in 0..MaxRequests /\ list \subseteq list' /\ list' \subseteq Addresses
        /\ mailed \subseteq mailed' /\ (\A m \in mailed' \ mailed : m.kind # "notice")
    BY <1>1, <1>3, <2>1
  <2> QED
    BY <2>1, <2>3, <2>4, WaitingTyped, ListStep
<1> QED
  BY <1>4, <1>5, <1>6

\* The requests in P are lost.
LEMMA LoseKeeps ==
  ASSUME Inv, NEW P \in SUBSET Posters, Lose(P), UNCHANGED <<users, mailed>>
  PROVE  /\ NoticesOK' /\ posting' \in [Posters -> Posting] /\ missed' \subseteq Addresses
         /\ DOMAIN audience' = DOMAIN notices' /\ UNCHANGED <<notices, list>>
<1> DEFINE lost == {posting[p].id : p \in {q \in P : posting[q].pc = "notify"}}
<1>1. /\ audience' = [n \in DOMAIN audience |-> IF n \in lost THEN {} ELSE audience[n]]
      /\ missed' = missed \cup {posting[p].to : p \in {q \in P : posting[q].pc \in {"find", "subscribe"}}}
      /\ posting' = [p \in Posters |-> IF p \in P THEN Waiting ELSE posting[p]]
      /\ UNCHANGED <<notices, list>>
  BY DEF Lose
<1> HIDE DEF lost
<1>2. /\ audience \in Seq(SUBSET Ids) /\ DOMAIN audience = DOMAIN notices
      /\ posting \in [Posters -> Posting] /\ missed \subseteq Addresses
  BY DEF Inv, TypeOK, NoticesOK, AudiencesOK
<1>3. /\ DOMAIN audience' = DOMAIN audience /\ \A n \in DOMAIN audience : audience'[n] \subseteq audience[n]
      /\ \A n \in lost : n \in DOMAIN audience => audience'[n] = {}
  BY <1>1
<1>4. audience' \in Seq(SUBSET Ids)
  <2>1. Len(audience) \in Nat /\ DOMAIN audience = 1..Len(audience)
        /\ \A n \in 1..Len(audience) : audience[n] \in SUBSET Ids
    BY <1>2
  <2>2. audience' = [n \in 1..Len(audience) |-> IF n \in lost THEN {} ELSE audience[n]]
    BY <1>1, <2>1
  <2>3. \A n \in 1..Len(audience) : (IF n \in lost THEN {} ELSE audience[n]) \in SUBSET Ids
    BY <2>1
  <2>4. audience' \in [1..Len(audience) -> SUBSET Ids]
    BY <2>2, <2>3
  <2> QED
    BY <2>1, <2>4, SeqDef
<1>5. /\ posting' \in [Posters -> Posting]
      /\ \A q \in Posters : IF q \in P THEN posting'[q] = Waiting ELSE posting'[q] = posting[q]
  BY <1>1, <1>2, WaitingTyped
<1>6. \A q \in P : /\ posting[q].pc = "notify" => posting[q].id \in lost
                   /\ posting[q].pc \in {"find", "subscribe"} => posting[q].to \in missed'
  BY <1>1 DEF lost
<1>7. missed' \subseteq Addresses /\ missed \subseteq missed'
  BY <1>1, <1>2 DEF Inv, NoticesOK, PostingsOK
<1>8. AudiencesOK' /\ PostingsOK' /\ MailsOK'
  BY <1>1, <1>2, <1>3, <1>4, <1>5, WaitingTyped
     DEF Inv, NoticesOK, AudiencesOK, PostingsOK, MailsOK, Readers, FindAll, FindOne, Found
<1>9. NoticesAgree'
  <2>1. \A u \in DOMAIN users : PageOf(u)' = PageOf(u)
    BY <1>1 DEF PageOf, GetGlobal, GetUser
  <2>2. GetArchived' = GetArchived
    BY <1>1 DEF GetArchived
  <2>3. ASSUME NEW u \in DOMAIN users', NEW i \in PageOf(u)'
        PROVE  \/ u \notin audience'[i]
               \/ \E q \in Posters : posting'[q].pc = "notify" /\ posting'[q].id = i
               \/ \E m \in mailed' : m.kind = "notice" /\ m.user = u /\ m.about = i
    <3>1. i \in PageOf(u) /\ i \in DOMAIN audience
      BY <1>2, <2>1, <2>3 DEF PageOf, GetGlobal, GetUser
    <3>2. \/ u \notin audience[i]
          \/ \E q \in Posters : posting[q].pc = "notify" /\ posting[q].id = i
          \/ \E m \in mailed : m.kind = "notice" /\ m.user = u /\ m.about = i
      BY <2>3, <3>1 DEF Inv, NoticesOK, NoticesAgree
    <3>3. ASSUME NEW q \in Posters, posting[q].pc = "notify", posting[q].id = i
          PROVE  u \notin audience'[i] \/ \E g \in Posters : posting'[g].pc = "notify" /\ posting'[g].id = i
      BY <1>3, <1>5, <1>6, <3>1, <3>3
    <3> QED
      BY <1>3, <3>1, <3>2, <3>3
  <2>4. ASSUME NEW m \in mailed', m.kind = "notice"
        PROVE  m.about \in GetArchived' \cup PageOf(m.user)'
    <3>1. m.user \in DOMAIN users /\ m.about \in GetArchived \cup PageOf(m.user)
      BY <2>4 DEF Inv, NoticesOK, MailsOK, NoticesAgree
    <3>2. PICK u \in DOMAIN users : u = m.user
      BY <3>1
    <3>3. m.about \in GetArchived' \cup PageOf(u)'
      BY <2>1, <2>2, <3>1, <3>2
    <3> QED
      BY <3>2, <3>3
  <2>5. ASSUME NEW m \in mailed', m.kind = "link"
        PROVE  \/ m.to.address \in list' \cup missed'
               \/ \E q \in Posters : posting'[q].pc \in {"find", "subscribe"} /\ posting'[q].to = m.to.address
    <3>1. \/ m.to.address \in list \cup missed
          \/ \E q \in Posters : posting[q].pc \in {"find", "subscribe"} /\ posting[q].to = m.to.address
      BY <2>5 DEF Inv, NoticesOK, NoticesAgree
    <3>2. ASSUME NEW q \in Posters, posting[q].pc \in {"find", "subscribe"}, posting[q].to = m.to.address
          PROVE  \/ m.to.address \in missed'
                 \/ \E g \in Posters : posting'[g].pc \in {"find", "subscribe"} /\ posting'[g].to = m.to.address
      BY <1>5, <1>6, <3>2
    <3> QED
      BY <1>1, <1>7, <3>1, <3>2
  <2> QED
    BY <2>3, <2>4, <2>5 DEF NoticesAgree
<1> QED
  BY <1>1, <1>2, <1>3, <1>5, <1>7, <1>8, <1>9 DEF NoticesOK

LEMMA FaultTyped ==
  ASSUME Inv, faults < MaxFaults, faults' = faults + 1
  PROVE  faults' \in 0..MaxFaults
BY AccountsAssumption DEF Inv, TypeOK, AccountsTypeOK, AccountsAssumption

LEMMA PostingFailsKeeps ==
  ASSUME Inv, NEW p \in Posters, PostingFails(p)
  PROVE  Inv'
<1>1. /\ UNCHANGED <<accountRows, jobs, mailed, request, history, tokens, requests>>
      /\ Lose({p}) /\ faults' \in 0..MaxFaults
  BY FaultTyped DEF PostingFails
<1>2. AccountsTypeOK' /\ AccountsOK'
  BY <1>1, AccountsStay DEF Inv, TypeOK, AccountsTypeOK
<1>3. UNCHANGED <<users, mailed>> /\ {p} \in SUBSET Posters
  BY <1>1 DEF accountRows
<1>4. /\ NoticesOK' /\ posting' \in [Posters -> Posting] /\ missed' \subseteq Addresses
      /\ DOMAIN audience' = DOMAIN notices' /\ UNCHANGED <<notices, list>>
  BY <1>1, <1>3, LoseKeeps
<1> QED
  BY <1>2, <1>4 DEF Inv, TypeOK

LEMMA RestartKeeps ==
  ASSUME Inv, Restart
  PROVE  Inv'
<1>1. /\ UNCHANGED <<users, alerts, mailed, answered, deleted, excused, tokens, requests>>
      /\ Lose(Posters) /\ faults' \in 0..MaxFaults /\ jobs' = {}
      /\ cut' = cut \cup ({request[h].user : h \in Handlers} \ {0})
      /\ request' = [h \in Handlers |-> Idle]
  BY FaultTyped DEF Restart, AccountsRestart, accountRows
<1>2. /\ NoticesOK' /\ posting' \in [Posters -> Posting] /\ missed' \subseteq Addresses
      /\ DOMAIN audience' = DOMAIN notices' /\ UNCHANGED <<notices, list>>
  <2>1. Posters \in SUBSET Posters
    OBVIOUS
  <2> QED
    BY <1>1, <2>1, LoseKeeps
<1>3. request' \in [Handlers -> Request] /\ \A h \in Handlers : request'[h] = Idle
  BY <1>1, IdleTyped
<1>4. \A h \in Handlers : request[h].user \in Ids \cup {0}
  BY AccountsAssumption DEF Inv, TypeOK, AccountsTypeOK, Request, Ids, AccountsAssumption
<1>5. cut' \subseteq Ids /\ \A h \in Handlers : request[h].user # 0 => request[h].user \in cut'
  BY <1>1, <1>4 DEF Inv, TypeOK, AccountsTypeOK
<1>6. TypeOK'
  BY <1>1, <1>2, <1>3, <1>5 DEF Inv, TypeOK, AccountsTypeOK
<1>7. Held'
  BY <1>3, IdleTyped DEF Held, RequestOK, AllTables, Tables
<1>8. Answered' /\ Renamed'
  BY <1>1 DEF Inv, AccountsOK, Answered, AnsweredWhole, Renamed
<1>9. LinksOK'
  <2>1. \A u \in DOMAIN users : u # 0
    BY UserTyped DEF Inv
  <2> QED
    BY <1>1, <1>5, <2>1 DEF Inv, AccountsOK, LinksOK, LinkWorks
<1> QED
  BY <1>2, <1>6, <1>7, <1>8, <1>9 DEF Inv, AccountsOK

-----------------------------------------------------------------------------
(* The theorems                                                            *)

LEMMA InitOK == Init => Inv
<1> SUFFICES ASSUME Init
             PROVE  Inv
  OBVIOUS
<1>1. AccountsAssumption /\ NoticesAssumption
  BY AccountsAssumption, NoticesAssumption
<1>2. /\ users = <<>> /\ jobs = {} /\ alerts = {} /\ mailed = {}
      /\ request = [h \in Handlers |-> Idle]
      /\ answered = {} /\ deleted = {} /\ excused = {} /\ cut = {}
      /\ tokens = 0 /\ requests = 0 /\ faults = 0
      /\ notices = <<>> /\ list = {} /\ posting = [p \in Posters |-> Waiting]
      /\ audience = <<>> /\ missed = {}
  BY DEF Init, AccountsInit
<1>3. AccountsTypeOK
  BY <1>1, <1>2, IdleTyped DEF AccountsTypeOK, AccountsAssumption
<1>4. TypeOK
  BY <1>1, <1>2, <1>3, WaitingTyped DEF TypeOK, NoticesAssumption
<1>5. Held /\ Answered /\ LinksOK /\ Renamed
  BY <1>2, IdleTyped DEF Held, RequestOK, AllTables, Tables, Answered, AnsweredWhole, LinksOK, LinkWorks, Renamed
<1>6. NoticesOK
  BY <1>2, WaitingTyped DEF NoticesOK, AudiencesOK, PostingsOK, MailsOK, NoticesAgree
<1> QED
  BY <1>4, <1>5, <1>6 DEF Inv, AccountsOK

LEMMA NextKeeps == Inv /\ [Next]_vars => Inv'
<1> SUFFICES ASSUME Inv, [Next]_vars
             PROVE  Inv'
  OBVIOUS
<1>1. CASE UNCHANGED vars
  <2>1. /\ UNCHANGED <<accountRows, jobs, mailed, request, history, tokens, requests, faults>>
        /\ UNCHANGED noticeVars
    BY <1>1 DEF vars, accountVars, bounds
  <2>2. AccountsTypeOK' /\ AccountsOK' /\ Grows
    BY <2>1, AccountsStay DEF Inv, TypeOK, AccountsTypeOK
  <2>3. NoticesOK'
    BY <2>1, <2>2, NoticesFrame DEF Inv
  <2> QED
    BY <2>1, <2>2, <2>3 DEF Inv, TypeOK, noticeVars
<1>2. CASE AccountsNext /\ UNCHANGED noticeVars
  BY <1>2, BeginningsKeep, FindUserKeeps, InsertUserKeeps, CreateRowKeeps, MailLinkKeeps, CallFailsKeeps,
     LookForResendKeeps, WriteTokenKeeps, WriteDeletedKeeps, RowStepsKeep, JobStepsKeep DEF AccountsNext
<1>3. ASSUME NEW p \in Posters,
             \/ \E role \in NoticeRoles : CreateNewGlobal(p, role)
             \/ \E u \in DOMAIN users : CreateNewUser(p, u)
             \/ \E a \in Addresses : SendLinkToEmail(p, a)
             \/ NotifyReaders(p) \/ FindSubscription(p) \/ Subscribe(p) \/ PostingFails(p)
      PROVE  Inv'
  BY <1>3, PostsKeep, ListStepsKeep, NotifyReadersKeeps, PostingFailsKeeps
<1>4. CASE \E n \in DOMAIN notices : DeleteNotification(n)
  BY <1>4, DeleteNotificationKeeps
<1>5. CASE Restart
  BY <1>5, RestartKeeps
<1> QED
  BY <1>1, <1>2, <1>3, <1>4, <1>5 DEF Next

LEMMA Invariance == Spec => []Inv
BY InitOK, NextKeeps, PTL DEF Spec

\* Accounts, requests, notices and the mailing list keep their types.
THEOREM TypeCorrect == Spec => []TypeOK
<1>1. Inv => TypeOK
  BY DEF Inv
<1> QED
  BY <1>1, Invariance, PTL

\* However many statements of a registration are refused, and whatever else runs
\* between two of them, one that was answered has left every row of its role, but for
\* the subscription's record, whose refusal is swallowed (UsersService.createUser).
THEOREM RegistrationsWhole == Spec => []AnsweredWhole
<1>1. Inv => AnsweredWhole
  BY DEF Inv, AccountsOK, Answered
<1> QED
  BY <1>1, Invariance, PTL

\* Registrations, resent links and confirmations in any order leave every user a link
\* that works, unless the request that mails it goes on or was cut short.
THEOREM LinksWork == Spec => []LinkWorks
<1>1. Inv => LinkWorks
  BY DEF Inv, AccountsOK, LinksOK
<1> QED
  BY <1>1, Invariance, PTL

\* Pages, mails and the mailing list agree, whoever comes, leaves or posts meanwhile
\* (NotificationsService, ResourcesService).
THEOREM NoticesReach == Spec => []NoticesAgree
<1>1. Inv => NoticesAgree
  BY DEF Inv, NoticesOK
<1> QED
  BY <1>1, Invariance, PTL

\* A mail to a deleted account that a request on the link did not hand over goes to
\* the renamed address: the lists of readers are read when the account has its suffix.
LEMMA NextLeavesDeleted ==
  ASSUME Inv, [Next]_vars, NEW m \in mailed' \ mailed, m.user \in deleted, m.kind # "remind"
  PROVE  \/ m.to.suffixes > 0
         \/ \E h \in Handlers : request[h].pc \in {"mail", "remail"} /\ request[h].user = m.user
<1>1. mailed' # mailed
  OBVIOUS
<1>2. \A u \in deleted : u # 0 /\ u \in DOMAIN users /\ users[u].email.suffixes > 0
  BY UserTyped DEF Inv, AccountsOK, Renamed
<1>3. CASE \E h \in Handlers : MailLink(h)
  <2>1. PICK h \in Handlers : MailLink(h)
    BY <1>3
  <2>2. /\ request[h].pc \in {"mail", "remail"}
        /\ mailed' = mailed \cup {Confirm(request[h].user, request[h].email, request[h].token)}
    BY <2>1 DEF MailLink, HandOver
  <2>3. m = Confirm(request[h].user, request[h].email, request[h].token)
    BY <2>2
  <2>4. m.user = request[h].user
    BY <2>3 DEF Confirm
  <2> QED
    BY <2>2, <2>4
<1>4. CASE \E j \in jobs : RunJob(j)
  <2>1. PICK j \in jobs : m = Remind(j.user, j.to)
    BY <1>4 DEF RunJob, HandOver
  <2> QED
    BY <2>1 DEF Remind
<1>5. CASE \E p \in Posters : NotifyReaders(p)
  <2>1. PICK p \in Posters : NotifyReaders(p)
    BY <1>5
  <2>2. PICK n : mailed' = mailed \cup {Notify(u, users[u].email, n) : u \in Readers(n)}
    BY <2>1 DEF NotifyReaders, HandOver
  <2>3. PICK u \in Readers(n) : m = Notify(u, users[u].email, n)
    BY <2>2
  <2>4. m.user = u /\ m.to = users[u].email
    BY <2>3 DEF Notify
  <2> QED
    BY <1>2, <2>4
<1>6. CASE \E p \in Posters, a \in Addresses : SendLinkToEmail(p, a)
  <2>1. PICK a \in Addresses : m = ResourceLink(a)
    BY <1>6 DEF SendLinkToEmail, HandOver
  <2>2. m.user = 0
    BY <2>1 DEF ResourceLink
  <2> QED
    BY <1>2, <2>2
<1>7. CASE UNCHANGED vars
  BY <1>1, <1>7 DEF vars, accountVars
<1>8. CASE AccountsNext
  <2>1. \A h \in Handlers : FindUser(h) \/ InsertUser(h) \/ CreateRow(h) \/ CallFails(h) \/ LookForResend(h)
                            \/ WriteToken(h) \/ WriteDeleted(h) => mailed' = mailed
    BY DEF FindUser, InsertUser, CreateRow, CallFails, LookForResend, WriteToken, WriteDeleted
  <2>2. \A h \in Handlers : \A r : Begin(h, r) => mailed' = mailed
    BY DEF Begin
  <2>3. /\ \A h \in Handlers, a \in Addresses, role \in Roles : Create(h, a, role) => mailed' = mailed
        /\ \A h \in Handlers, u \in DOMAIN users :
             Resend(h, u) \/ Remove(h, u) \/ DeleteByAdmin(h, u) => mailed' = mailed
    BY <2>2 DEF Create, Resend, Remove, DeleteByAdmin
  <2>4. /\ \A c \in mailed : ConfirmEmail(c) => mailed' = mailed
        /\ \A u \in DOMAIN users : 
             MakeRecord(u) \/ FillIn(u) \/ RemoveDetail(u) \/ UpdatePicture(u) => mailed' = mailed
        /\ \A u \in DOMAIN users, a \in Addresses : Update(u, a) => mailed' = mailed
        /\ \A j \in jobs : StartJob(j) => mailed' = mailed
    BY DEF ConfirmEmail, MakeRecord, FillIn, RemoveDetail, UpdatePicture, Update, StartJob
  <2> QED
    BY <1>1, <1>3, <1>4, <1>8, <2>1, <2>3, <2>4 DEF AccountsNext
<1>9. ASSUME NEW p \in Posters,
             \/ \E role \in NoticeRoles : CreateNewGlobal(p, role)
             \/ \E u \in DOMAIN users : CreateNewUser(p, u)
             \/ \E a \in Addresses : SendLinkToEmail(p, a)
             \/ NotifyReaders(p) \/ FindSubscription(p) \/ Subscribe(p) \/ PostingFails(p)
      PROVE  \/ m.to.suffixes > 0
             \/ \E h \in Handlers : request[h].pc \in {"mail", "remail"} /\ request[h].user = m.user
  <2>1. \A row, readers : Insert(p, row, readers) => mailed' = mailed
    BY DEF Insert
  <2>2. /\ \A role \in NoticeRoles : CreateNewGlobal(p, role) => mailed' = mailed
        /\ \A u \in DOMAIN users : CreateNewUser(p, u) => mailed' = mailed
    BY <2>1 DEF CreateNewGlobal, CreateNewUser
  <2>3. FindSubscription(p) \/ Subscribe(p) \/ PostingFails(p) => mailed' = mailed
    BY DEF FindSubscription, Subscribe, PostingFails, accountVars
  <2> QED
    BY <1>1, <1>5, <1>6, <1>9, <2>2, <2>3
<1>10. CASE \E n \in DOMAIN notices : DeleteNotification(n)
  BY <1>1, <1>10 DEF DeleteNotification, accountVars
<1>11. CASE Restart
  BY <1>1, <1>11 DEF Restart, AccountsRestart
<1> QED
  BY <1>7, <1>8, <1>9, <1>10, <1>11 DEF Next

\* Whoever was told that the account is deleted is mailed at the old address no more,
\* except by the daily job and by a link that was under way, whatever overlaps with
\* the deletion (UsersController.remove, NotificationsService, the scheduler).
THEOREM DeletedAlone == Spec => DeletedLeftAlone
<1>1. Inv /\ [Next]_vars =>
        [\A m \in mailed' \ mailed : m.user \in deleted /\ m.kind # "remind" =>
           \/ m.to.suffixes > 0
           \/ \E h \in Handlers : request[h].pc \in {"mail", "remail"} /\ request[h].user = m.user]_accountVars
  BY NextLeavesDeleted
<1> QED
  BY <1>1, Invariance, PTL DEF Spec, DeletedLeftAlone

===============================================================================

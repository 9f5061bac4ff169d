--------------------------------- MODULE Notices ---------------------------------
(***************************************************************************)
(* Notices of the admins to the accounts of module Accounts, and the       *)
(* mailing list that an address joins when a resource's link is mailed.    *)
(* The row of a notice is inserted first, its readers are then looked up   *)
(* and mailed; the poster is answered even if that fails.                  *)
(***************************************************************************)
EXTENDS Accounts

CONSTANTS
  Posters,     \* slots for the requests of this module in flight
  MaxNotices   \* bound on rows of table Notification

ASSUME NoticesAssumption == MaxNotices \in Nat

VARIABLES
  notices,   \* table Notification, by id: target 0 is global
  list,      \* table Subscriptions: the mailing list
  posting,   \* local state of the request in each slot
  audience,  \* history: who was to be mailed each notice when it was posted
  missed     \* history: addresses whose insert was refused or cut short

noticeVars == <<notices, list, posting, audience, missed>>
vars == <<accountVars, noticeVars>>

NoticeRoles == Roles \cup {"ALL"}
Row == [target : 0..MaxUsers, role : NoticeRoles, archived : BOOLEAN]
Posting == [pc : {"idle", "notify", "find", "subscribe"}, id : 0..MaxNotices, to : Addresses \cup {NoAddress}]
Waiting == [pc |-> "idle", id |-> 0, to |-> NoAddress]

\* A global notice is mailed as an announcement, that is by another template.
Notify(u, to, n) == [kind |-> "notice", user |-> u, to |-> to, about |-> n]
ResourceLink(a) == [kind |-> "link", user |-> 0, to |-> Plain(a), about |-> 0]

Init ==
  /\ AccountsInit
  /\ notices = <<>> /\ list = {}
  /\ posting = [p \in Posters |-> Waiting]
  /\ audience = <<>> /\ missed = {}

-----------------------------------------------------------------------------
(* Notices                                                                 *)

Wait(p) == posting' = [posting EXCEPT ![p] = Waiting]

\* findAll: deleted and blocked accounts are found as well.
FindAll(role) == {u \in DOMAIN users : role = "ALL" \/ users[u].role = role}
FindOne(u) == {v \in DOMAIN users : v = u /\ Found(v)}
Readers(n) ==
  IF notices[n].target = 0 THEN FindAll(notices[n].role) ELSE FindOne(notices[n].target)

Insert(p, row, readers) ==
  /\ posting[p].pc = "idle" /\ Len(notices) < MaxNotices
  /\ Counted
  /\ notices' = Append(notices, row)
  /\ audience' = Append(audience, readers)
  /\ posting' = [posting EXCEPT ![p] = [@ EXCEPT !.pc = "notify", !.id = Len(notices) + 1]]
  /\ UNCHANGED <<accountRows, jobs, mailed, request, history, tokens, faults, list, missed>>

CreateNewGlobal(p, role) ==
  Insert(p, [target |-> 0, role |-> role, archived |-> FALSE], FindAll(role))

\* The page that posts a notice to a user sends no role.
CreateNewUser(p, u) ==
  Insert(p, [target |-> u, role |-> "ALL", archived |-> FALSE], FindOne(u))

\* Mutant: only who has confirmed an address is mailed.
NotifyConfirmed(p) ==
  LET n == posting[p].id
  IN /\ posting[p].pc = "notify"
     /\ mailed' = mailed \cup {Notify(u, users[u].email, n) :
                                 u \in {v \in Readers(n) : users[v].approved}}
     /\ Wait(p)
     /\ UNCHANGED <<accountRows, jobs, request, history, bounds, notices, list, audience, missed>>

NotifyReaders(p) ==
  LET n == posting[p].id
  IN /\ posting[p].pc = "notify"
     /\ HandOver({Notify(u, users[u].email, n) : u \in Readers(n)})
     /\ Wait(p)
     /\ UNCHANGED <<accountRows, jobs, request, history, bounds, notices, list, audience, missed>>

\* Mutant: the row is removed.
DeleteRow(n) ==
  /\ notices' = SubSeq(notices, 1, n - 1) \o SubSeq(notices, n + 1, Len(notices))
  /\ UNCHANGED <<accountVars, list, posting, audience, missed>>

DeleteNotification(n) ==
  /\ notices' = [notices EXCEPT ![n].archived = TRUE]
  /\ UNCHANGED <<accountVars, list, posting, audience, missed>>

-----------------------------------------------------------------------------
(* The mailing list                                                        *)

\* Anyone asks for a resource's link for any address; the mail comes first.
SendLinkToEmail(p, a) ==
  /\ posting[p].pc = "idle"
  /\ Counted
  /\ HandOver({ResourceLink(a)})
  /\ posting' = [posting EXCEPT ![p] = [@ EXCEPT !.pc = "find", !.to = a]]
  /\ UNCHANGED <<accountRows, jobs, request, history, tokens, faults, notices, list, audience, missed>>

FindSubscription(p) ==
  /\ posting[p].pc = "find"
  /\ IF posting[p].to \in list THEN Wait(p) ELSE posting' = [posting EXCEPT ![p].pc = "subscribe"]
  /\ UNCHANGED <<accountVars, notices, list, audience, missed>>

\* The address is unique: if another request was first, the answer says that the
\* address is not subscribed.
Subscribe(p) ==
  /\ posting[p].pc = "subscribe"
  /\ list' = list \cup {posting[p].to}
  /\ Wait(p)
  /\ UNCHANGED <<accountVars, notices, audience, missed>>

-----------------------------------------------------------------------------
(* Faults                                                                  *)

\* What is lost with the requests in slots P.
Lose(P) ==
  LET lost == {posting[p].id : p \in {q \in P : posting[q].pc = "notify"}}
  IN /\ audience' = [n \in DOMAIN audience |-> IF n \in lost THEN {} ELSE audience[n]]
     /\ missed' = missed \cup {posting[p].to : p \in {q \in P : posting[q].pc \in {"find", "subscribe"}}}
     /\ posting' = [p \in Posters |-> IF p \in P THEN Waiting ELSE posting[p]]
     /\ UNCHANGED <<notices, list>>

\* A rejected call ends the request; it is answered as if it were done.
PostingFails(p) ==
  /\ posting[p].pc # "idle"
  /\ faults < MaxFaults /\ faults' = faults + 1
  /\ Lose({p})
  /\ UNCHANGED <<accountRows, jobs, mailed, request, history, tokens, requests>>

Restart == AccountsRestart /\ Lose(Posters)

-----------------------------------------------------------------------------
Next ==
  \/ AccountsNext /\ UNCHANGED noticeVars
  \/ \E p \in Posters :
       \/ \E role \in NoticeRoles : CreateNewGlobal(p, role)
       \/ \E u \in DOMAIN users : CreateNewUser(p, u)
       \/ \E a \in Addresses : SendLinkToEmail(p, a)
       \/ NotifyReaders(p) \/ FindSubscription(p) \/ Subscribe(p) \/ PostingFails(p)
  \/ \E n \in DOMAIN notices : DeleteNotification(n)
  \/ Restart

Spec == Init /\ [][Next]_vars

-----------------------------------------------------------------------------
(* What the pages show                                                     *)

GetGlobal(role) ==
  {n \in DOMAIN notices : notices[n].target = 0 /\ ~notices[n].archived
                          /\ notices[n].role \in {role, "ALL"}}
GetUser(u) == {n \in DOMAIN notices : notices[n].target = u /\ ~notices[n].archived}
PageOf(u) == GetGlobal(users[u].role) \cup GetUser(u)
GetArchived == {n \in DOMAIN notices : notices[n].archived}

-----------------------------------------------------------------------------
(* Properties                                                              *)

\* Types; a notice keeps its id.
TypeOK ==
  /\ AccountsTypeOK
  /\ notices \in Seq(Row) /\ Len(notices) <= MaxNotices
  /\ DOMAIN audience = DOMAIN notices
  /\ posting \in [Posters -> Posting]
  /\ list \subseteq Addresses /\ missed \subseteq Addresses

\* Pages and mails agree: what a user's pages show from the time after the user came
\* was mailed to that user, once its request is done; a mail is about a notice that
\* is on the pages or archived; and who was mailed a resource's link is on the list.
NoticesAgree ==
  /\ \A u \in DOMAIN users : \A n \in PageOf(u) :
       \/ u \notin audience[n]
       \/ \E p \in Posters : posting[p].pc = "notify" /\ posting[p].id = n
       \/ \E m \in mailed : m.kind = "notice" /\ m.user = u /\ m.about = n
  /\ \A m \in mailed : m.kind = "notice" =>
       m.about \in GetArchived \cup PageOf(m.user)
  /\ \A m \in mailed : m.kind = "link" =>
       \/ m.to.address \in list \cup missed
       \/ \E p \in Posters : posting[p].pc \in {"find", "subscribe"} /\ posting[p].to = m.to.address
================================================================================

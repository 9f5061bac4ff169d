--------------------------------- MODULE Chat ---------------------------------
(***************************************************************************)
(* Chat: messages between students and tutors over sockets, the            *)
(* conversation a student's first message opens, the gate on messages with *)
(* contact details, the daily reminder of a tutor who has not replied, the *)
(* list of messages a socket is sent when it connects, and the messages a  *)
(* reader marks as seen.                                                   *)
(*                                                                         *)
(* The conversation, chat, flagged message, subscription and purchase      *)
(* tables are in the database; the reminder jobs and the table of          *)
(* connections are in the memory of the process.  A database statement and *)
(* the code that resumes with its result are two steps wherever that code  *)
(* changes memory: statements of others fall in between.                   *)
(***************************************************************************)
EXTENDS Integers, Sequences, FiniteSets

CONSTANTS
  Students, Tutors,
  Sockets,      \* connections, each opened and closed once
  Owner,        \* the user who opens a socket
  Handlers,     \* slots for the messages in flight
  TableId,      \* the id in table Tutor of a tutor, whose user id is the tutor
  Nobody,
  MaxMessages,  \* bound on messages saved
  MaxApprovals, \* bound on approvals
  MaxChanges,   \* bound on changes of subscriptions and purchases, on archived
                \* messages and on 'seenMsg'
  MaxFaults     \* bound on rejected database calls and restarts of the process

Users == Students \cup Tutors
Pairs == Students \X Tutors

ASSUME ChatAssumption ==
  /\ Students \cap Tutors = {} /\ Nobody \notin Users
  /\ Owner \in [Sockets -> Users]
  /\ DOMAIN TableId = Tutors
  /\ \A t, u \in Tutors : TableId[t] = TableId[u] => t = u
  /\ {MaxMessages, MaxApprovals, MaxChanges, MaxFaults} \subseteq Nat

VARIABLES
  conversations, \* rows of Conversation, in the order of their ids
  chats,         \* rows of Chats, in the order of their ids
  flagged,       \* FlaggedMessage: sender, receiver, archived?
  seen,          \* the rows of Chats that are marked as seen
  subscribed,    \* tutors whose subscription is ACTIVE
  purchased,     \* pairs with an Active purchase
  jobs,          \* scheduler registry: conversations with a reminder job
  table,         \* connectionTable: per user, the sockets to emit to
  socket,        \* state of each socket
  snapshot,      \* the rows of Chats that getChat of a socket has read
  ticked,        \* those of them that were marked as seen
  view,          \* the messages a client has been sent over its socket
  ticks,         \* the messages a client has been sent as seen
  request,       \* local state of the message in each slot
  seeing,        \* a 'seenMsg' in flight: the messages to mark, those marked,
                 \* and the first of them
  told,          \* history: messages whose sender a 'seenMsg' has told
  approved,      \* history: conversations whose tutor was told 'Student approved'
  open,          \* history: slots whose pair has had access since the message came
  paid,          \* history: messages whose pair had access while they were handled
  before,        \* history: conversations created before the last restart
  early,         \* history: conversations replied to before their reminder began
  failed,        \* history: conversations a reply to which a failed call has lost
  approvals, changes, faults

access == <<subscribed, purchased, open, paid>>
rows == <<conversations, chats, flagged>>
marks == <<seen, seeing, told>>
connections == <<table, socket, snapshot, ticked, view, ticks>>
environment == <<approved, before, early, failed, approvals, changes, faults>>
vars == <<rows, access, jobs, connections, request, marks, environment>>

Conversation == [student : Students, tutor : Tutors,
                 status : {"PENDING", "APPROVED"}, tutorReply : BOOLEAN]
Chats == [from : Users, to : Users, clean : BOOLEAN]

PCs == {"idle", "sub", "purchased", "flag", "find", "create", "remind", "mark",
        "stop", "save", "broadcast"}

(***************************************************************************)
(* A message in flight.  clean says that is_valid_msg accepts it, active   *)
(* what its handler read of the subscription; conv and msg are the ids of  *)
(* the rows it found or created.                                           *)
(***************************************************************************)
Request == [pc : PCs, from : Users \cup {Nobody}, to : Users \cup {Nobody},
            clean : BOOLEAN, active : BOOLEAN, conv : Nat, msg : Nat]

Unseeing == [left |-> {}, done |-> {}, first |-> 0]

Idle == [pc |-> "idle", from |-> Nobody, to |-> Nobody,
         clean |-> TRUE, active |-> FALSE, conv |-> 0, msg |-> 0]

Init ==
  /\ conversations = <<>> /\ chats = <<>> /\ flagged = {}
  /\ subscribed \in SUBSET Tutors /\ purchased = {} /\ open = {} /\ paid = {}
  /\ jobs = {}
  /\ table = [u \in Users |-> {}]
  /\ socket = [k \in Sockets |-> "new"]
  /\ snapshot = [k \in Sockets |-> {}]
  /\ ticked = [k \in Sockets |-> {}]
  /\ view = [k \in Sockets |-> {}]
  /\ ticks = [k \in Sockets |-> {}]
  /\ request = [h \in Handlers |-> Idle]
  /\ seen = {} /\ seeing = Unseeing /\ told = {}
  /\ approved = {} /\ before = 0 /\ early = {} /\ failed = {}
  /\ approvals = 0 /\ changes = 0 /\ faults = 0

-----------------------------------------------------------------------------
(* Helpers                                                                 *)

At(h, pc) == request[h].pc = pc
Set(h, r) == request' = [request EXCEPT ![h] = r]
Goto(h, pc) == Set(h, [request[h] EXCEPT !.pc = pc])
Settle(h) == Set(h, Idle)
Busy == {h \in Handlers : ~At(h, "idle")}

\* The student and the tutor of a message.
Pair(m) == IF m.from \in Students THEN <<m.from, m.to>> ELSE <<m.to, m.from>>
Of(p) == {c \in DOMAIN conversations :
            p = <<conversations[c].student, conversations[c].tutor>>}
\* A pair that may exchange contact details.
Access(p) == p[2] \in subscribed \/ p \in purchased
OfStudent(s) == {c \in DOMAIN conversations : conversations[c].student = s}

-----------------------------------------------------------------------------
(* Slips that the properties catch, each in place of the action it is named *)
(* after.                                                                   *)

PassTutorsFree(h, bought) ==
  LET r == request[h]
  IN Goto(h, IF r.clean \/ r.from \in Tutors \/ r.active \/ bought THEN "find" ELSE "flag")

FindNoneRemindFirst(h) ==
  /\ At(h, "find")
  /\ Of(Pair(request[h])) = {}
  /\ IF request[h].from \in Students THEN Goto(h, "remind") ELSE Settle(h)
  /\ UNCHANGED <<marks, rows, access, jobs, connections, environment>>

FindNoneAnyone(h) ==
  /\ At(h, "find")
  /\ Of(Pair(request[h])) = {}
  /\ IF request[h].from \in Students THEN Goto(h, "create") ELSE Goto(h, "save")
  /\ UNCHANGED <<marks, rows, access, jobs, connections, environment>>

MarkRepliedNot(h) ==
  /\ At(h, "mark")
  /\ Goto(h, "stop")
  /\ UNCHANGED <<marks, rows, access, jobs, connections, environment>>

StopReminderNot(h) ==
  /\ At(h, "stop")
  /\ Goto(h, "save")
  /\ UNCHANGED <<marks, rows, access, jobs, connections, environment>>

BroadcastToSender(h) ==
  LET r == request[h]
  IN /\ At(h, "broadcast")
     /\ view' = [k \in Sockets |->
                   IF k \in table[r.from] /\ socket[k] # "closed"
                   THEN view[k] \cup {r.msg} ELSE view[k]]
     /\ Settle(h)
     /\ UNCHANGED <<marks, rows, access, jobs, table, socket, snapshot, ticked, ticks, environment>>

-----------------------------------------------------------------------------
(* sendMsgFromStudent, sendMsgFromTutor                                    *)

\* A message is counted against the bound while it is in flight.
Room == Len(chats) + Cardinality({h \in Busy : ~At(h, "broadcast")}) < MaxMessages

Start(h, from, to, clean) ==
  /\ At(h, "idle") /\ Room
  /\ Set(h, [Idle EXCEPT !.pc = "sub", !.from = from, !.to = to, !.clean = clean])
  /\ LET r == [Idle EXCEPT !.from = from, !.to = to]
     IN open' = IF Access(Pair(r)) THEN open \cup {h} ELSE open \ {h}
  /\ UNCHANGED <<marks, rows, subscribed, purchased, paid, jobs, connections, environment>>

MsgFromStudent(h, s, t, clean) == Start(h, s, t, clean)
MsgFromTutor(h, t, s, clean) == Start(h, t, s, clean)

\* The other event of a student.  In the role of a tutor it is refused after the
\* same reads: no conversation has a student for its tutor.
SendMsg(h, s, t, clean) == Start(h, s, t, clean)

ReadSubscription(h) ==
  /\ At(h, "sub")
  /\ Set(h, [request[h] EXCEPT !.pc = "purchased",
                               !.active = Pair(request[h])[2] \in subscribed])
  /\ UNCHANGED <<marks, rows, access, jobs, connections, environment>>

\* The gate on contact details.
Pass(h, bought) ==
  LET r == request[h]
  IN Goto(h, IF r.clean \/ r.active \/ bought THEN "find" ELSE "flag")

ReadPurchase(h) ==
  /\ At(h, "purchased")
  /\ Pass(h, Pair(request[h]) \in purchased)
  /\ UNCHANGED <<marks, rows, access, jobs, connections, environment>>

\* hasPurchasedTutor takes a rejected call for a purchase that is not there.
ReadPurchaseFails(h) ==
  /\ At(h, "purchased")
  /\ faults < MaxFaults
  /\ faults' = faults + 1
  /\ Pass(h, FALSE)
  /\ UNCHANGED <<marks, rows, access, jobs, connections, approved, before, early, failed,
                 approvals, changes>>

\* The refusal is not kept waiting for the row.
FlagMessage(h) ==
  /\ At(h, "flag")
  /\ flagged' = flagged \cup {<<request[h].from, request[h].to, FALSE>>}
  /\ Settle(h)
  /\ UNCHANGED <<marks, conversations, chats, access, jobs, connections, environment>>

\* Without a conversation a student's message opens one, a tutor's is refused.
FindNone(h) ==
  /\ At(h, "find")
  /\ Of(Pair(request[h])) = {}
  /\ IF request[h].from \in Students THEN Goto(h, "create") ELSE Settle(h)
  /\ UNCHANGED <<marks, rows, access, jobs, connections, environment>>

\* findFirst has no order: any of the pair's conversations.
FindFirst(h) ==
  /\ At(h, "find")
  /\ \E c \in Of(Pair(request[h])) :
       LET first == request[h].from \in Tutors /\ ~conversations[c].tutorReply
       IN Set(h, [request[h] EXCEPT !.pc = IF first THEN "mark" ELSE "save",
                                    !.conv = c])
  /\ UNCHANGED <<marks, rows, access, jobs, connections, environment>>

\* The tutor has been mailed; no constraint keeps a pair to one conversation.
CreateConversation(h) ==
  LET p == Pair(request[h])
  IN /\ At(h, "create")
     /\ conversations' = Append(conversations,
          [student |-> p[1], tutor |-> p[2], status |-> "PENDING", tutorReply |-> FALSE])
     /\ Set(h, [request[h] EXCEPT !.pc = "remind", !.conv = Len(conversations) + 1])
     /\ UNCHANGED <<marks, chats, flagged, access, jobs, connections, environment>>

StartReminder(h) ==
  /\ At(h, "remind")
  /\ jobs' = jobs \cup {request[h].conv}
  /\ Goto(h, "save")
  /\ UNCHANGED <<marks, rows, access, connections, environment>>

MarkReplied(h) ==
  /\ At(h, "mark")
  /\ conversations' = [conversations EXCEPT ![request[h].conv].tutorReply = TRUE]
  /\ Goto(h, "stop")
  /\ UNCHANGED <<marks, chats, flagged, access, jobs, connections, environment>>

\* The row of a conversation is there, and its job is about to start.
Unstarted(c) == \E g \in Handlers : At(g, "remind") /\ request[g].conv = c

\* Without a job deleteCronJob throws, and the reply is not saved.
StopReminder(h) ==
  LET c == request[h].conv
  IN /\ At(h, "stop")
     /\ IF c \in jobs THEN Goto(h, "save") ELSE Settle(h)
     /\ jobs' = jobs \ {c}
     /\ early' = IF c \notin jobs /\ Unstarted(c) THEN early \cup {c} ELSE early
     /\ UNCHANGED <<marks, rows, access, connections, approved, before, failed, approvals,
                    changes, faults>>

SaveMessage(h) ==
  LET r == request[h]
  IN /\ At(h, "save")
     /\ chats' = Append(chats, [from |-> r.from, to |-> r.to, clean |-> r.clean])
     /\ Set(h, [r EXCEPT !.pc = "broadcast", !.msg = Len(chats) + 1])
     /\ paid' = IF h \in open THEN paid \cup {Len(chats) + 1} ELSE paid
     /\ UNCHANGED <<marks, conversations, flagged, subscribed, purchased, open, jobs, connections,
                    environment>>

\* Emitting to a socket that is closed does nothing.
Broadcast(h) ==
  LET r == request[h]
  IN /\ At(h, "broadcast")
     /\ view' = [k \in Sockets |->
                   IF k \in table[r.to] /\ socket[k] # "closed"
                   THEN view[k] \cup {r.msg} ELSE view[k]]
     /\ Settle(h)
     /\ UNCHANGED <<marks, rows, access, jobs, table, socket, snapshot, ticked, ticks, environment>>

\* A database call is rejected: the handler throws, with createChat too, whose
\* caller reads the id of what it returns.
CallFails(h) ==
  /\ request[h].pc \notin {"idle", "purchased", "remind", "stop", "broadcast"}
  /\ faults < MaxFaults
  /\ faults' = faults + 1
  /\ failed' = IF At(h, "save") /\ request[h].from \in Tutors THEN failed \cup {request[h].conv} ELSE failed
  /\ Settle(h)
  /\ UNCHANGED <<marks, rows, access, jobs, connections, approved, before, early, approvals,
                 changes>>

-----------------------------------------------------------------------------
(* Sockets                                                                 *)

\* The cookie is verified, then the socket is registered and getChat begins.
HandleConnection(k) ==
  /\ socket[k] = "new"
  /\ socket' = [socket EXCEPT ![k] = "registered"]
  /\ table' = [table EXCEPT ![Owner[k]] = @ \cup {k}]
  /\ UNCHANGED <<marks, rows, access, jobs, snapshot, ticked, view, ticks, request, environment>>

ReadChats(k) ==
  /\ socket[k] = "registered"
  /\ socket' = [socket EXCEPT ![k] = "read"]
  /\ snapshot' = [snapshot EXCEPT ![k] =
       {m \in DOMAIN chats : Owner[k] \in {chats[m].from, chats[m].to}}]
  /\ ticked' = [ticked EXCEPT ![k] = seen]
  /\ UNCHANGED <<marks, rows, access, jobs, table, view, ticks, request, environment>>

\* getChat looks up a conversation between the two users of every message; it
\* throws without one, and the list is never sent.
InConversation(m) ==
  \E c \in DOMAIN conversations :
     /\ conversations[c].student \in {chats[m].from, chats[m].to}
     /\ conversations[c].tutor \in {chats[m].from, chats[m].to}

\* Slip: the list comes after what was broadcast to the socket in the meantime.
EmitChatsReplaces(k) ==
  /\ socket[k] = "read"
  /\ \A m \in snapshot[k] : InConversation(m)
  /\ socket' = [socket EXCEPT ![k] = "ready"]
  /\ view' = [view EXCEPT ![k] = snapshot[k]]
  /\ ticks' = [ticks EXCEPT ![k] = @ \cup (ticked[k] \cap snapshot[k])]
  /\ UNCHANGED <<marks, rows, access, jobs, table, snapshot, ticked, request, environment>>

EmitChats(k) ==
  /\ socket[k] = "read"
  /\ \A m \in snapshot[k] : InConversation(m)
  /\ socket' = [socket EXCEPT ![k] = "ready"]
  /\ view' = [view EXCEPT ![k] = @ \cup snapshot[k]]
  /\ ticks' = [ticks EXCEPT ![k] = @ \cup (ticked[k] \cap snapshot[k])]
  /\ UNCHANGED <<marks, rows, access, jobs, table, snapshot, ticked, request, environment>>

\* getChat throws: the socket stays registered and is not sent the list.
GetChatFails(k) ==
  /\ \/ socket[k] \in {"registered", "read"} /\ faults < MaxFaults /\ faults' = faults + 1
     \/ /\ socket[k] = "read" /\ \E m \in snapshot[k] : ~InConversation(m)
        /\ UNCHANGED faults
  /\ socket' = [socket EXCEPT ![k] = "unlisted"]
  /\ UNCHANGED <<marks, rows, access, jobs, table, snapshot, ticked, view, ticks, request,
                 approved, before, early, failed, approvals, changes>>

\* The connection table keeps the socket's id.
HandleDisconnect(k) ==
  /\ socket[k] \notin {"new", "closed"}
  /\ socket' = [socket EXCEPT ![k] = "closed"]
  /\ UNCHANGED <<marks, rows, access, jobs, table, snapshot, ticked, view, ticks, request,
                 environment>>

-----------------------------------------------------------------------------
(* seenMsg                                                                 *)

\* A reader names any messages, whoever wrote them.
SeenMsg(ids) ==
  /\ changes < MaxChanges
  /\ seeing = Unseeing
  /\ ids # {}
  /\ changes' = changes + 1
  /\ seeing' = [Unseeing EXCEPT !.left = ids]
  /\ UNCHANGED <<rows, access, jobs, connections, request, seen, told, approved, before, early,
                 failed, approvals, faults>>

\* One statement for each message, in the order in which they are named.
MarkSeen(m) ==
  /\ m \in seeing.left
  /\ seen' = seen \cup {m}
  /\ seeing' = [left |-> seeing.left \ {m}, done |-> seeing.done \cup {m},
                first |-> IF seeing.done = {} THEN m ELSE seeing.first]
  /\ UNCHANGED <<rows, access, jobs, connections, request, told, environment>>

\* The sockets of u are sent the rows that were marked.
Tell(u) ==
  /\ seeing.left = {} /\ seeing.done # {}
  /\ ticks' = [k \in Sockets |-> IF k \in table[u] /\ socket[k] # "closed"
                                 THEN ticks[k] \cup seeing.done ELSE ticks[k]]
  /\ told' = told \cup {m \in seeing.done : chats[m].from = chats[seeing.first].from}
  /\ seeing' = Unseeing
  /\ UNCHANGED <<rows, access, jobs, table, socket, snapshot, ticked, view, request, seen,
                 environment>>

\* Slip: the reader is sent them.
TellSeenReader == Tell(chats[seeing.first].to)

\* Only the sender of the first of them is told.
TellSeen == Tell(chats[seeing.first].from)

\* A rejected update: what is marked stays marked, seenMsg returns nothing, and
\* the gateway, which takes it apart, throws before it tells anybody.
SeenFails ==
  /\ seeing.left # {}
  /\ faults < MaxFaults
  /\ faults' = faults + 1
  /\ seeing' = Unseeing
  /\ UNCHANGED <<rows, access, jobs, connections, request, seen, told, approved, before, early,
                 failed, approvals, changes>>

-----------------------------------------------------------------------------
(* The rest of the system                                                  *)

\* PATCH /tutors/approve-student: the conversations of the tutor's id in table
\* Tutor, where a conversation holds the tutor's user id.
ApproveStudent(t, s) ==
  /\ approvals < MaxApprovals
  /\ approvals' = approvals + 1
  /\ conversations' = [c \in DOMAIN conversations |->
       IF conversations[c].student = s /\ conversations[c].tutor = TableId[t]
       THEN [conversations[c] EXCEPT !.status = "APPROVED"] ELSE conversations[c]]
  /\ approved' = approved \cup Of(<<s, t>>)
  /\ UNCHANGED <<marks, chats, flagged, access, jobs, connections, request, before, early, failed,
                 changes, faults>>

\* The admin's page of refused messages: those that are not archived.
FlaggedPage == {f \in flagged : ~f[3]}

\* The admin archives one of the page; others of the same two users may stay.
ArchiveFlagged(f) ==
  /\ changes < MaxChanges
  /\ changes' = changes + 1
  /\ f \in FlaggedPage
  /\ \E rest \in {flagged, flagged \ {f}} : flagged' = rest \cup {<<f[1], f[2], TRUE>>}
  /\ UNCHANGED <<marks, conversations, chats, access, jobs, connections, request, approved,
                 before, early, failed, approvals, faults>>

\* Access changes, also for the messages in flight.
Unlock(S, P) ==
  /\ changes < MaxChanges
  /\ changes' = changes + 1
  /\ subscribed' = S /\ purchased' = P
  /\ open' = open \cup {h \in Busy : Pair(request[h])[2] \in S \/ Pair(request[h]) \in P}
  /\ UNCHANGED <<marks, rows, paid, jobs, connections, request, approved, before, early, failed,
                 approvals, faults>>

\* Stripe's webhooks set the subscription of a tutor.
SubscriptionChanges(t) ==
  Unlock(IF t \in subscribed THEN subscribed \ {t} ELSE subscribed \cup {t}, purchased)

\* A purchase becomes Active, or Refunded.
PurchaseChanges(p) ==
  Unlock(subscribed, IF p \in purchased THEN purchased \ {p} ELSE purchased \cup {p})

\* Handlers, jobs and connections are lost; clients reconnect with new sockets.
Restart ==
  /\ faults < MaxFaults
  /\ faults' = faults + 1
  /\ request' = [h \in Handlers |-> Idle]
  /\ jobs' = {}
  /\ table' = [u \in Users |-> {}]
  /\ socket' = [k \in Sockets |-> IF socket[k] = "new" THEN "new" ELSE "closed"]
  /\ before' = Len(conversations)
  /\ seeing' = Unseeing
  /\ UNCHANGED <<rows, access, seen, told, snapshot, ticked, view, ticks, approved, early, failed,
                 approvals, changes>>

\* No message is in flight, and nobody does anything.
Rest == Busy = {} /\ UNCHANGED vars

-----------------------------------------------------------------------------
\* The steps of a handler that the event loop takes by itself.
Continue(h) ==
  \/ ReadSubscription(h) \/ ReadPurchase(h) \/ FlagMessage(h)
  \/ FindNone(h) \/ FindFirst(h) \/ CreateConversation(h) \/ StartReminder(h)
  \/ MarkReplied(h) \/ StopReminder(h) \/ SaveMessage(h) \/ Broadcast(h)

Next ==
  \/ \E h \in Handlers, s \in Students, t \in Tutors, clean \in BOOLEAN :
       \/ MsgFromStudent(h, s, t, clean) \/ SendMsg(h, s, t, clean)
       \/ MsgFromTutor(h, t, s, clean)
  \/ \E h \in Handlers : Continue(h) \/ ReadPurchaseFails(h) \/ CallFails(h)
  \/ \E k \in Sockets :
       \/ HandleConnection(k) \/ ReadChats(k) \/ EmitChats(k)
       \/ GetChatFails(k) \/ HandleDisconnect(k)
  \/ \E s \in Students, t \in Tutors : ApproveStudent(t, s) \/ PurchaseChanges(<<s, t>>)
  \/ \E t \in Tutors : SubscriptionChanges(t)
  \/ \E f \in flagged : ArchiveFlagged(f)
  \/ \E ids \in SUBSET DOMAIN chats : SeenMsg(ids)
  \/ \E m \in seeing.left : MarkSeen(m)
  \/ TellSeen \/ SeenFails
  \/ Restart
  \/ Rest

Spec == Init /\ [][Next]_vars

\* Every handler goes on: its statements are answered and the loop runs on.
FairSpec == Spec /\ \A h \in Handlers : WF_vars(Continue(h))

-----------------------------------------------------------------------------
(* Pages                                                                   *)

\* The students of a tutor, whatever the status of their conversations.
GetTutorStudents(t) == {s \in Students : Of(<<s, t>>) # {}}

\* The pending ones are looked for by the tutor's id in table Tutor.
GetPendingStudents(t) ==
  {conversations[c].student : c \in {d \in DOMAIN conversations :
     conversations[d].tutor = TableId[t] /\ conversations[d].status = "PENDING"}}

\* The student's three conversations of last, each with its last message.
FindChatTutors(s) ==
  LET mine == OfStudent(s)
      recent == {c \in mine : Cardinality({d \in mine : d > c}) < 3}
      tutors == {conversations[c].tutor : c \in recent}
      between(t) == {m \in DOMAIN chats : Pair(chats[m]) = <<s, t>>}
  IN {last \in tutors \X DOMAIN chats :
        last[2] \in between(last[1]) /\ \A m \in between(last[1]) : m <= last[2]}

-----------------------------------------------------------------------------
(* Properties                                                              *)

\* Type invariant, with the ids in a request: they refer to rows that exist.
TypeOK ==
  /\ conversations \in Seq(Conversation) /\ chats \in Seq(Chats)
  /\ flagged \subseteq Users \X Users \X BOOLEAN
  /\ subscribed \subseteq Tutors /\ purchased \subseteq Pairs
  /\ open \subseteq Handlers /\ paid \subseteq DOMAIN chats
  /\ jobs \subseteq DOMAIN conversations
  /\ table \in [Users -> SUBSET Sockets]
  /\ socket \in [Sockets -> {"new", "registered", "read", "ready", "unlisted", "closed"}]
  /\ snapshot \in [Sockets -> SUBSET DOMAIN chats]
  /\ ticked \in [Sockets -> SUBSET seen]
  /\ view \in [Sockets -> SUBSET DOMAIN chats]
  /\ ticks \in [Sockets -> SUBSET seen]
  /\ request \in [Handlers -> Request]
  /\ \A h \in Handlers :
       /\ request[h].conv \in DOMAIN conversations \cup {0}
       /\ request[h].msg \in DOMAIN chats \cup {0}
  /\ seeing \in [left : SUBSET DOMAIN chats, done : SUBSET seen, first : Nat]
  /\ seeing.done # {} => seeing.first \in seeing.done
  /\ told \subseteq seen /\ seen \subseteq DOMAIN chats
  /\ approved \cup early \cup failed \subseteq DOMAIN conversations
  /\ {before, approvals, changes, faults} \subseteq Nat

\* getChat never throws for want of a conversation: whatever overlaps or is
\* lost in a restart, a message's conversation is there before the message, and
\* the pages of both sides list the other, the student's as long as the student
\* has no more conversations than it lists; where the ids of the tables agree, a
\* student is pending exactly until the approval of every conversation there is.
ChatHasConversation ==
  /\ \A m \in DOMAIN chats :
       LET p == Pair(chats[m])
       IN /\ InConversation(m) /\ p[1] \in GetTutorStudents(p[2])
          /\ Cardinality(OfStudent(p[1])) <= 3 =>
               \E n \in m..Len(chats) : <<p[2], n>> \in FindChatTutors(p[1])
  /\ \A t \in Tutors : TableId[t] = t =>
       GetPendingStudents(t) = {s \in Students : ~(Of(<<s, t>>) \subseteq approved)}

\* A client with its list shows as seen every message of its user that 'seenMsg' has
\* marked and told the sender about: no mark falls between the rows that getChat read
\* and the 'msgSeen' that reaches the socket, whatever order they come in.  (Messages
\* of others than the sender of the first, and those of a request that was cut short,
\* stay marked without a word until the list is read again.)
SeenShown ==
  \A k \in Sockets, m \in told :
     socket[k] = "ready" /\ chats[m].from = Owner[k] => m \in ticks[k]

\* A client with its list has every message to its user, but for those whose
\* handler is still to broadcast: no message falls between the list that
\* getChat read and the broadcasts that reach the socket.
NoMissedMessage ==
  \A k \in Sockets, m \in DOMAIN chats :
     socket[k] = "ready" /\ chats[m].to = Owner[k] =>
       m \in view[k] \/ \E h \in Handlers : At(h, "broadcast") /\ request[h].msg = m

\* 'Please pay to share contact details': a message with contact details is saved only
\* if its pair had a subscription or a purchase at some time between the arrival of the
\* message and its save.  Access that ended before it came is no use to it; access that
\* ends while it is handled is, for what was read is not read again.
ContactGate == \A m \in DOMAIN chats : chats[m].clean \/ m \in paid

\* The tutor of a conversation without a reply is reminded, unless a restart
\* has lost the job: replies and their failures leave other reminders alone.
ReminderKept ==
  \A c \in DOMAIN conversations :
     \/ conversations[c].tutorReply \/ c \in jobs \/ c <= before
     \/ \E h \in Handlers : At(h, "remind") /\ request[h].conv = c

\* Part of ReplySettles: the tutor is not reminded of a conversation that is marked as
\* replied, once the handler that marked it has stopped the job; all but the reply that
\* came before the job had started, which nothing will stop.
ReminderStops ==
  \A c \in jobs \ early :
     conversations[c].tutorReply => \E h \in Handlers : At(h, "stop") /\ request[h].conv = c

\* A reply in flight that will be saved: its reminder is stopped, or there to be stopped.
Replying(h, c) ==
  /\ request[h].from \in Tutors /\ request[h].conv = c
  /\ At(h, "save") \/ (At(h, "stop") /\ (c \in jobs \/ Unstarted(c)))

Replied(c) == \E m \in DOMAIN chats : chats[m].from \in Tutors /\ c \in Of(Pair(chats[m]))

\* Part of ReplySettles: a conversation marked as replied has a reply, or one that will
\* be saved.  Of several first replies that overlap one gets through, the others find
\* the job gone and are lost; all are lost only if the reply came before the job had
\* started, if its save failed, or if a restart had ended the job or the handler.
ReplySaved ==
  \A c \in DOMAIN conversations :
     conversations[c].tutorReply =>
       \/ Replied(c) \/ \E h \in Handlers : Replying(h, c)
       \/ c \in early \cup failed \/ c <= before

\* A reply and its reminder settle together.
ReplySettles == ReminderStops /\ ReplySaved

\* A saved message reaches every listed socket of its receiver that stays open.
MessageArrives ==
  \A k \in Sockets, m \in 1..MaxMessages :
     (m \in DOMAIN chats /\ socket[k] = "ready" /\ chats[m].to = Owner[k])
       ~> (m \in view[k] \/ socket[k] = "closed")
===============================================================================

------------------------------ MODULE ChatProofs ------------------------------
(***************************************************************************)
(* Proofs about chat, for any users, sockets and handlers, whatever        *)
(* overlaps, fails, or is lost in a restart.                               *)
(***************************************************************************)
EXTENDS Chat, SequenceTheorems, FiniteSetTheorems, WellFoundedInduction, TLAPS

(***************************************************************************)
(* The inductive invariant: what a handler has found or decided stays true *)
(* until it has used it.  A request that broadcasts has saved its message; *)
(* a request that stops a reminder has marked its conversation.            *)
(***************************************************************************)
Between(r) == \/ r.from \in Students /\ r.to \in Tutors
              \/ r.from \in Tutors /\ r.to \in Students

RequestOK(r) ==
  /\ r.pc # "idle" => Between(r)
  /\ r.pc \in {"remind", "mark", "stop", "save"} => r.conv \in DOMAIN conversations
  /\ r.pc = "stop" => conversations[r.conv].tutorReply
  /\ r.pc = "broadcast" => r.msg \in DOMAIN chats /\ chats[r.msg].to = r.to

\* A message has come to a socket, with the list or a broadcast, or will.
Reached(k, m) ==
  \/ m \in view[k]
  \/ socket[k] = "read" /\ m \in snapshot[k]
  \/ \E h \in Handlers : At(h, "broadcast") /\ request[h].msg = m

SocketOK(k) ==
  /\ socket[k] \notin {"new", "closed"} => k \in table[Owner[k]]
  /\ socket[k] \in {"read", "ready"} =>
       \A m \in DOMAIN chats : chats[m].to = Owner[k] => Reached(k, m)

IInv ==
  /\ TypeOK
  /\ \A h \in Handlers : RequestOK(request[h])
  /\ \A k \in Sockets : SocketOK(k)
  /\ ReminderKept

\* A slot without a message satisfies what is asked of requests.
LEMMA IdleOK == Idle \in Request /\ RequestOK(Idle)
BY DEF Idle, Request, PCs, RequestOK

LEMMA PairTyped ==
  ASSUME NEW r, Between(r), ChatAssumption
  PROVE  /\ r.from \in Users /\ r.to \in Users
         /\ Pair(r) \in Pairs
BY DEF Between, Pair, Pairs, Users, ChatAssumption

LEMMA SetKeeps ==
  ASSUME TypeOK, NEW h \in Handlers, NEW r \in Request, Set(h, r)
  PROVE  /\ request' \in [Handlers -> Request]
         /\ request'[h] = r
         /\ \A g \in Handlers \ {h} : request'[g] = request[g]
BY DEF Set, TypeOK

\* A step that only moves a request on.
LEMMA Moves ==
  ASSUME IInv, NEW h \in Handlers, NEW r \in Request, RequestOK(r), Set(h, r),
         UNCHANGED <<rows, subscribed, purchased, paid, jobs, connections, marks, approved, before,
                     early>>,
         open' \subseteq Handlers, failed' \subseteq DOMAIN conversations,
         {approvals, changes, faults}' \subseteq Nat,
         r.conv \in DOMAIN conversations \cup {0}, r.msg \in DOMAIN chats \cup {0},
         ~At(h, "broadcast"), ~At(h, "remind")
  PROVE  IInv'
<1>1. /\ request' \in [Handlers -> Request]
      /\ request'[h] = r
      /\ \A g \in Handlers \ {h} : request'[g] = request[g]
  BY SetKeeps DEF IInv
<1>2. TypeOK'
  BY <1>1 DEF IInv, TypeOK, rows, access, connections, marks
<1>3. ASSUME NEW g \in Handlers PROVE RequestOK(request[g])'
  BY <1>1 DEF IInv, RequestOK, rows, access, Between, Pair
<1>4. ASSUME NEW k \in Sockets PROVE SocketOK(k)'
  BY <1>1 DEF IInv, SocketOK, Reached, At, rows, connections
<1>6. ReminderKept'
  BY <1>1 DEF IInv, ReminderKept, At, rows
<1> QED
  BY <1>2, <1>3, <1>4, <1>6 DEF IInv

-----------------------------------------------------------------------------
(* Handlers of messages: the steps that only move the request              *)

LEMMA StartKeeps ==
  ASSUME ChatAssumption, IInv, NEW h \in Handlers, NEW from, NEW to, NEW clean \in BOOLEAN,
         \/ from \in Students /\ to \in Tutors
         \/ from \in Tutors /\ to \in Students,
         Start(h, from, to, clean)
  PROVE  IInv'
<1> DEFINE r == [Idle EXCEPT !.pc = "sub", !.from = from, !.to = to, !.clean = clean]
<1>1. r \in Request /\ RequestOK(r) /\ r.conv = 0 /\ r.msg = 0
  BY DEF Idle, Request, PCs, Users, RequestOK, Between
<1>2. Set(h, r) /\ ~At(h, "broadcast") /\ ~At(h, "remind")
  BY DEF Start, At
<1>3. /\ {approvals, changes, faults}' \subseteq Nat
      /\ open' \subseteq Handlers /\ failed' \subseteq DOMAIN conversations
  BY DEF Start, environment, IInv, TypeOK
<1> QED
  BY <1>1, <1>2, <1>3, Moves DEF Start, environment

LEMMA ReadSubscriptionKeeps ==
  ASSUME ChatAssumption, IInv, NEW h \in Handlers, ReadSubscription(h)
  PROVE  IInv'
<1>1. PICK active \in BOOLEAN : active = (Pair(request[h])[2] \in subscribed)
  <2> WITNESS (Pair(request[h])[2] \in subscribed) \in BOOLEAN
  <2> QED
    OBVIOUS
<1> DEFINE r == [request[h] EXCEPT !.pc = "purchased", !.active = active]
<1>2. Set(h, r)
  BY <1>1, Zenon DEF ReadSubscription
<1>3. request[h] \in Request /\ RequestOK(request[h]) /\ At(h, "sub")
  BY DEF IInv, TypeOK, ReadSubscription
<1>4. Between(request[h]) /\ Pair(request[h]) \in Pairs
  BY <1>3, PairTyped DEF RequestOK, At
<1>5. r \in Request /\ Pair(r) = Pair(request[h]) /\ Between(r)
  BY <1>3, <1>4 DEF Request, PCs, Pair, Between
<1>6. RequestOK(r)
  BY <1>1, <1>3, <1>4, <1>5 DEF RequestOK, IInv, Request
<1>7. /\ {approvals, changes, faults}' \subseteq Nat
      /\ open' \subseteq Handlers /\ failed' \subseteq DOMAIN conversations
      /\ r.conv \in DOMAIN conversations \cup {0} /\ r.msg \in DOMAIN chats \cup {0}
  BY <1>3 DEF ReadSubscription, environment, access, IInv, TypeOK, Request
<1> QED
  BY <1>2, <1>3, <1>5, <1>6, <1>7, Moves DEF ReadSubscription, environment, access, At

LEMMA PassKeeps ==
  ASSUME ChatAssumption, IInv, NEW h \in Handlers, NEW bought \in BOOLEAN, At(h, "purchased"),
         bought => Pair(request[h]) \in purchased,
         Pass(h, bought),
         UNCHANGED <<rows, access, jobs, connections, marks, approved, before, early, failed>>,
         {approvals, changes, faults}' \subseteq Nat
  PROVE  IInv'
<1> DEFINE p == request[h]
           r == [p EXCEPT !.pc = IF p.clean \/ p.active \/ bought THEN "find" ELSE "flag"]
<1>1. p \in Request /\ RequestOK(p) /\ Between(p) /\ Pair(p) \in Pairs
  BY PairTyped DEF IInv, TypeOK, RequestOK, At
<1>2. r \in Request /\ Pair(r) = Pair(p) /\ Between(r)
  BY <1>1 DEF Request, PCs, Pair, Between
<1>3. RequestOK(r)
  BY <1>1, <1>2 DEF RequestOK, IInv, Request, At
<1>4. /\ r.conv \in DOMAIN conversations \cup {0} /\ r.msg \in DOMAIN chats \cup {0}
      /\ open' \subseteq Handlers /\ failed' \subseteq DOMAIN conversations
  BY <1>1 DEF IInv, TypeOK, Request, access
<1>5. Set(h, r)
  BY DEF Pass, Goto
<1> QED
  BY <1>2, <1>3, <1>4, <1>5, Moves DEF At, access

LEMMA FindNoneKeeps ==
  ASSUME ChatAssumption, IInv, NEW h \in Handlers, FindNone(h)
  PROVE  IInv'
<1> DEFINE p == request[h]
           r == IF p.from \in Students THEN [p EXCEPT !.pc = "create"] ELSE Idle
<1>1. p \in Request /\ RequestOK(p) /\ p.pc = "find"
  BY DEF IInv, TypeOK, FindNone, At
<1>2. r \in Request /\ RequestOK(r)
  BY <1>1, IdleOK DEF Request, PCs, RequestOK, Pair, Between
<1>3. Set(h, r)
  BY DEF FindNone, Goto, Settle
<1>4. /\ {approvals, changes, faults}' \subseteq Nat
      /\ open' \subseteq Handlers /\ failed' \subseteq DOMAIN conversations
      /\ r.conv \in DOMAIN conversations \cup {0} /\ r.msg \in DOMAIN chats \cup {0}
  BY <1>1 DEF FindNone, environment, access, IInv, TypeOK, Request, Idle
<1> QED
  BY <1>1, <1>2, <1>3, <1>4, Moves DEF FindNone, environment, access, At

LEMMA FindFirstKeeps ==
  ASSUME ChatAssumption, IInv, NEW h \in Handlers, FindFirst(h)
  PROVE  IInv'
<1> DEFINE p == request[h]
<1>1. p \in Request /\ RequestOK(p) /\ p.pc = "find"
  BY DEF IInv, TypeOK, FindFirst, At
<1>2. PICK c \in Of(Pair(p)), pc \in {"mark", "save"} : Set(h, [p EXCEPT !.pc = pc, !.conv = c])
  BY DEF FindFirst
<1> DEFINE r == [p EXCEPT !.pc = pc, !.conv = c]
<1>3. c \in DOMAIN conversations /\ c \in Nat
  BY DEF Of, IInv, TypeOK
<1>4. r \in Request /\ RequestOK(r)
  BY <1>1, <1>3 DEF Request, PCs, RequestOK, Pair, Between
<1>5. /\ {approvals, changes, faults}' \subseteq Nat
      /\ open' \subseteq Handlers /\ failed' \subseteq DOMAIN conversations
      /\ r.conv \in DOMAIN conversations \cup {0} /\ r.msg \in DOMAIN chats \cup {0}
  BY <1>1, <1>3 DEF FindFirst, environment, access, IInv, TypeOK, Request
<1> QED
  BY <1>1, <1>2, <1>4, <1>5, Moves DEF FindFirst, environment, access, At

LEMMA CallFailsKeeps ==
  ASSUME ChatAssumption, IInv, NEW h \in Handlers, CallFails(h)
  PROVE  IInv'
<1>1. Set(h, Idle) /\ ~At(h, "broadcast") /\ ~At(h, "remind")
  BY DEF CallFails, Settle, At
<1>2. {approvals, changes, faults}' \subseteq Nat /\ open' \subseteq Handlers
  BY DEF CallFails, IInv, TypeOK, access
<1>3. failed' \subseteq DOMAIN conversations
  <2>1. CASE At(h, "save") /\ request[h].from \in Tutors
    <3>1. RequestOK(request[h]) /\ failed' = failed \cup {request[h].conv}
      BY <2>1 DEF CallFails, IInv
    <3>2. request[h].conv \in DOMAIN conversations
      BY <2>1, <3>1 DEF RequestOK, At
    <3> QED
      BY <3>1, <3>2 DEF IInv, TypeOK
  <2>2. CASE ~(At(h, "save") /\ request[h].from \in Tutors)
    BY <2>2 DEF CallFails, IInv, TypeOK
  <2> QED
    BY <2>1, <2>2
<1> QED
  BY <1>1, <1>2, <1>3, IdleOK, Moves DEF CallFails, Idle, access

-----------------------------------------------------------------------------
(* Handlers of messages: the steps that write                              *)

\* What every step does to the rows: what a request has read stays true.
Grows ==
  /\ DOMAIN conversations \subseteq DOMAIN conversations'
  /\ \A c \in DOMAIN conversations :
       conversations[c].tutorReply => conversations'[c].tutorReply
  /\ DOMAIN chats \subseteq DOMAIN chats'
  /\ \A m \in DOMAIN chats : chats'[m] = chats[m]

LEMMA OthersKeep ==
  ASSUME NEW g \in Handlers, RequestOK(request[g]), request'[g] = request[g], Grows
  PROVE  RequestOK(request[g])'
BY DEF RequestOK, Grows, Between, Pair

LEMMA IdleKeeps ==
  ASSUME NEW g \in Handlers, request'[g] = Idle
  PROVE  RequestOK(request[g])'
BY DEF RequestOK, Idle

\* What every step below does to the requests.
LEMMA Turn ==
  ASSUME IInv, NEW h \in Handlers, NEW r \in Request, Set(h, r)
  PROVE  /\ request[h] \in Request /\ RequestOK(request[h])
         /\ request' \in [Handlers -> Request] /\ request'[h] = r
         /\ \A g \in Handlers \ {h} : request'[g] = request[g]
         /\ \A g \in Handlers : RequestOK(request[g])
BY SetKeeps DEF IInv, TypeOK

\* The ids in requests after a step that sets those of one.
LEMMA IdsKeep ==
  ASSUME IInv, Grows, NEW h \in Handlers, NEW r \in Request, Set(h, r),
         r.conv \in DOMAIN conversations' \cup {0}, r.msg \in DOMAIN chats' \cup {0}
  PROVE  \A g \in Handlers : /\ request'[g].conv \in DOMAIN conversations' \cup {0}
                             /\ request'[g].msg \in DOMAIN chats' \cup {0}
BY Turn DEF IInv, TypeOK, Grows

LEMMA FlagTyped ==
  ASSUME NEW u \in Users, NEW v \in Users
  PROVE  <<u, v, FALSE>> \in Users \X Users \X BOOLEAN /\ <<u, v, TRUE>> \in Users \X Users \X BOOLEAN
BY Zenon

LEMMA FlagMessageKeeps ==
  ASSUME ChatAssumption, IInv, NEW h \in Handlers, FlagMessage(h)
  PROVE  IInv'
<1>1. Set(h, Idle) /\ At(h, "flag")
  BY DEF FlagMessage, Settle
<1>2. /\ request[h] \in Request /\ RequestOK(request[h])
      /\ request' \in [Handlers -> Request] /\ request'[h] = Idle
      /\ \A g \in Handlers \ {h} : request'[g] = request[g]
      /\ \A g \in Handlers : RequestOK(request[g])
  BY <1>1, IdleOK, Turn
<1>3. Grows
  BY DEF FlagMessage, Grows, access
<1>4. TypeOK'
  <2>1. request[h].from \in Users /\ request[h].to \in Users
    BY <1>1, <1>2, PairTyped DEF RequestOK, At
  <2>2. <<request[h].from, request[h].to, FALSE>> \in Users \X Users \X BOOLEAN
    BY <2>1, FlagTyped
  <2>3. flagged' \subseteq Users \X Users \X BOOLEAN
    BY <2>2 DEF FlagMessage, IInv, TypeOK
  <2>4. \A g \in Handlers : /\ request'[g].conv \in DOMAIN conversations' \cup {0}
                            /\ request'[g].msg \in DOMAIN chats' \cup {0}
    BY <1>1, <1>3, IdleOK, IdsKeep DEF Idle
  <2> QED
    BY <1>2, <2>3, <2>4 DEF FlagMessage, IInv, TypeOK, access, connections, marks, environment
<1>5. ASSUME NEW g \in Handlers PROVE RequestOK(request[g])'
  BY <1>2, <1>3, IdleKeeps, OthersKeep
<1>6. ASSUME NEW k \in Sockets PROVE SocketOK(k)'
  BY <1>1, <1>2 DEF FlagMessage, IInv, SocketOK, Reached, At, connections
<1>8. ReminderKept'
  BY <1>1, <1>2 DEF FlagMessage, IInv, ReminderKept, At, environment
<1> QED
  BY <1>4, <1>5, <1>6, <1>8 DEF IInv

LEMMA CreateConversationKeeps ==
  ASSUME ChatAssumption, IInv, NEW h \in Handlers, CreateConversation(h)
  PROVE  IInv'
<1> DEFINE p == Pair(request[h])
           n == Len(conversations) + 1
           r == [request[h] EXCEPT !.pc = "remind", !.conv = n]
           row == [student |-> p[1], tutor |-> p[2], status |-> "PENDING", tutorReply |-> FALSE]
<1>1. /\ Set(h, r) /\ At(h, "create") /\ conversations' = Append(conversations, row)
      /\ request[h] \in Request /\ RequestOK(request[h]) /\ conversations \in Seq(Conversation)
  BY DEF CreateConversation, IInv, TypeOK
<1>2. p \in Pairs /\ row \in Conversation
  <2>1. p \in Pairs
    BY <1>1, PairTyped DEF RequestOK, At
  <2> QED
    BY <2>1 DEF Pairs, Conversation
<1>3. /\ n \in Nat /\ conversations' \in Seq(Conversation)
      /\ DOMAIN conversations = 1..(n - 1) /\ DOMAIN conversations' = 1..n
      /\ \A c \in DOMAIN conversations : conversations'[c] = conversations[c]
  <2> HIDE DEF row
  <2> QED
    BY <1>1, <1>2
<1>4. r \in Request
  <2> HIDE DEF n
  <2> QED
    BY <1>1, <1>3 DEF Request, PCs
<1> HIDE DEF n, r, p
<1>5. /\ request' \in [Handlers -> Request] /\ request'[h] = r
      /\ \A g \in Handlers \ {h} : request'[g] = request[g]
      /\ \A g \in Handlers : RequestOK(request[g])
  BY <1>1, <1>4, Turn
<1>6. /\ r.pc = "remind" /\ r.conv = n /\ n \in DOMAIN conversations'
      /\ r.msg \in DOMAIN chats \cup {0}
  BY <1>1, <1>3 DEF r, Request, IInv, TypeOK
<1>7. Grows
  BY <1>3 DEF CreateConversation, Grows, access
<1>8. TypeOK'
  <2>1. \A g \in Handlers : /\ request'[g].conv \in DOMAIN conversations' \cup {0}
                            /\ request'[g].msg \in DOMAIN chats' \cup {0}
    BY <1>1, <1>4, <1>6, <1>7, IdsKeep DEF CreateConversation
  <2>2. /\ jobs' \subseteq DOMAIN conversations'
        /\ (approved \cup early \cup failed)' \subseteq DOMAIN conversations'
    BY <1>7 DEF CreateConversation, Grows, IInv, TypeOK, environment
  <2> QED
    BY <1>3, <1>5, <2>1, <2>2 DEF CreateConversation, IInv, TypeOK, access, connections, marks, environment
<1>9. RequestOK(request[h])'
  BY <1>1, <1>3, <1>5, <1>6 DEF r, CreateConversation, RequestOK, access, Between, Pair, At, Request
<1>10. ASSUME NEW g \in Handlers PROVE RequestOK(request[g])'
  BY <1>5, <1>7, <1>9, OthersKeep
<1>11. ASSUME NEW k \in Sockets PROVE SocketOK(k)'
  BY <1>1, <1>5 DEF CreateConversation, IInv, SocketOK, Reached, At, connections
<1>13. ReminderKept'
  <2> SUFFICES ASSUME NEW c \in DOMAIN conversations',
                      ~conversations'[c].tutorReply, c \notin jobs', ~(c <= before')
               PROVE  \E g \in Handlers : At(g, "remind")' /\ request'[g].conv = c
    BY DEF ReminderKept
  <2>1. CASE c = n
    BY <2>1, <1>5, <1>6 DEF At
  <2>2. CASE c \in DOMAIN conversations
    <3>1. PICK g \in Handlers : At(g, "remind") /\ request[g].conv = c
      BY <2>2, <1>3 DEF IInv, ReminderKept, CreateConversation, environment
    <3> QED
      BY <3>1, <1>1, <1>5 DEF At
  <2> QED
    BY <2>1, <2>2, <1>3
<1> QED
  BY <1>8, <1>10, <1>11, <1>13 DEF IInv

LEMMA StartReminderKeeps ==
  ASSUME ChatAssumption, IInv, NEW h \in Handlers, StartReminder(h)
  PROVE  IInv'
<1> DEFINE r == [request[h] EXCEPT !.pc = "save"]
<1>1. Set(h, r) /\ At(h, "remind") /\ request[h] \in Request /\ RequestOK(request[h])
  BY DEF StartReminder, Goto, IInv, TypeOK
<1>2. r \in Request
  BY <1>1 DEF Request, PCs
<1>3. /\ request' \in [Handlers -> Request] /\ request'[h] = r
      /\ \A g \in Handlers \ {h} : request'[g] = request[g]
      /\ \A g \in Handlers : RequestOK(request[g])
  BY <1>1, <1>2, Turn
<1>4. Grows
  BY DEF StartReminder, Grows, access, rows
<1>5. TypeOK'
  <2>1. r.conv \in DOMAIN conversations /\ r.msg \in DOMAIN chats \cup {0}
    BY <1>1 DEF IInv, TypeOK, Request, RequestOK, At
  <2>2. \A g \in Handlers : /\ request'[g].conv \in DOMAIN conversations' \cup {0}
                            /\ request'[g].msg \in DOMAIN chats' \cup {0}
    BY <1>1, <1>2, <1>4, <2>1, IdsKeep DEF StartReminder, rows
  <2>3. jobs' \subseteq DOMAIN conversations'
    BY <1>1 DEF StartReminder, RequestOK, At, rows, IInv, TypeOK
  <2> QED
    BY <1>3, <2>2, <2>3 DEF StartReminder, IInv, TypeOK, rows, access, connections, marks, environment
<1>6. RequestOK(request[h])'
  BY <1>1, <1>3 DEF StartReminder, RequestOK, rows, access, Between, Pair, At, Request
<1>7. ASSUME NEW g \in Handlers PROVE RequestOK(request[g])'
  BY <1>3, <1>4, <1>6, OthersKeep
<1>8. ASSUME NEW k \in Sockets PROVE SocketOK(k)'
  BY <1>1, <1>3 DEF StartReminder, IInv, SocketOK, Reached, At, rows, connections
<1>10. ReminderKept'
  BY <1>1, <1>3 DEF StartReminder, IInv, ReminderKept, At, rows, environment
<1> QED
  BY <1>5, <1>7, <1>8, <1>10 DEF IInv

LEMMA MarkRepliedKeeps ==
  ASSUME ChatAssumption, IInv, NEW h \in Handlers, MarkReplied(h)
  PROVE  IInv'
<1> DEFINE n == request[h].conv
           r == [request[h] EXCEPT !.pc = "stop"]
           row == [conversations[n] EXCEPT !.tutorReply = TRUE]
<1>1. Set(h, r) /\ At(h, "mark") /\ request[h] \in Request /\ RequestOK(request[h])
  BY DEF MarkReplied, Goto, IInv, TypeOK
<1>2. r \in Request
  BY <1>1 DEF Request, PCs
<1>3. /\ request' \in [Handlers -> Request] /\ request'[h] = r
      /\ \A g \in Handlers \ {h} : request'[g] = request[g]
      /\ \A g \in Handlers : RequestOK(request[g])
  BY <1>1, <1>2, Turn
<1>4. /\ n \in DOMAIN conversations
      /\ conversations' = [conversations EXCEPT ![n] = row]
  BY <1>1 DEF MarkReplied, RequestOK, At
<1>5. /\ conversations' \in Seq(Conversation)
      /\ DOMAIN conversations' = DOMAIN conversations
      /\ conversations'[n].tutorReply
      /\ \A c \in DOMAIN conversations \ {n} : conversations'[c] = conversations[c]
  <2>1. conversations \in Seq(Conversation)
    BY DEF IInv, TypeOK
  <2>2. row \in Conversation /\ row.tutorReply
    <3> HIDE DEF n
    <3>1. conversations[n] \in Conversation
      BY <1>4, <2>1
    <3> QED
      BY <3>1 DEF Conversation
  <2> HIDE DEF n, row
  <2> QED
    BY <1>4, <2>1, <2>2, ExceptSeq
<1> HIDE DEF n
<1>6. Grows
  BY <1>5 DEF MarkReplied, Grows, access
<1>7. TypeOK'
  <2>1. r.conv = n /\ r.msg \in DOMAIN chats \cup {0}
    BY <1>1 DEF n, IInv, TypeOK, Request
  <2>2. \A g \in Handlers : /\ request'[g].conv \in DOMAIN conversations' \cup {0}
                            /\ request'[g].msg \in DOMAIN chats' \cup {0}
    BY <1>1, <1>2, <1>4, <1>5, <1>6, <2>1, IdsKeep DEF MarkReplied
  <2> QED
    BY <1>3, <1>5, <2>2 DEF MarkReplied, IInv, TypeOK, access, connections, marks, environment
<1>8. RequestOK(request[h])'
  BY <1>1, <1>3, <1>4, <1>5 DEF n, MarkReplied, RequestOK, access, Between, Pair, At, Request
<1>9. ASSUME NEW g \in Handlers PROVE RequestOK(request[g])'
  BY <1>3, <1>6, <1>8, OthersKeep
<1>10. ASSUME NEW k \in Sockets PROVE SocketOK(k)'
  BY <1>1, <1>3 DEF MarkReplied, IInv, SocketOK, Reached, At, connections
<1>12. ReminderKept'
  BY <1>1, <1>3, <1>5 DEF MarkReplied, IInv, ReminderKept, At, environment
<1> QED
  BY <1>7, <1>9, <1>10, <1>12 DEF IInv

LEMMA StopReminderKeeps ==
  ASSUME ChatAssumption, IInv, NEW h \in Handlers, StopReminder(h)
  PROVE  IInv'
<1> DEFINE n == request[h].conv
           r == IF n \in jobs THEN [request[h] EXCEPT !.pc = "save"] ELSE Idle
<1>1. Set(h, r) /\ At(h, "stop") /\ request[h] \in Request /\ RequestOK(request[h])
  BY DEF StopReminder, Goto, Settle, IInv, TypeOK
<1>2. r \in Request
  BY <1>1, IdleOK DEF Request, PCs
<1>3. /\ request' \in [Handlers -> Request] /\ request'[h] = r
      /\ \A g \in Handlers \ {h} : request'[g] = request[g]
      /\ \A g \in Handlers : RequestOK(request[g])
  BY <1>1, <1>2, Turn
<1>4. Grows
  BY DEF StopReminder, Grows, access, rows
<1>5. TypeOK'
  <2>1. r.conv \in DOMAIN conversations \cup {0} /\ r.msg \in DOMAIN chats \cup {0}
    BY <1>1 DEF Idle, IInv, TypeOK, Request
  <2>2. \A g \in Handlers : /\ request'[g].conv \in DOMAIN conversations' \cup {0}
                            /\ request'[g].msg \in DOMAIN chats' \cup {0}
    BY <1>1, <1>2, <1>4, <2>1, IdsKeep DEF StopReminder, rows
  <2>3. /\ jobs' \subseteq DOMAIN conversations'
        /\ (approved \cup early \cup failed)' \subseteq DOMAIN conversations'
    <3>1. n \in DOMAIN conversations
      BY <1>1 DEF RequestOK, At
    <3> QED
      BY <3>1 DEF StopReminder, rows, IInv, TypeOK
  <2> QED
    BY <1>3, <2>2, <2>3 DEF StopReminder, IInv, TypeOK, rows, access, connections, marks, environment
<1>6. RequestOK(request[h])'
  BY <1>1, <1>3, IdleOK DEF StopReminder, RequestOK, Idle, rows, access, Between, Pair, At, Request
<1>7. ASSUME NEW g \in Handlers PROVE RequestOK(request[g])'
  BY <1>3, <1>4, <1>6, OthersKeep
<1>8. r.pc \notin {"broadcast", "remind"}
  BY <1>1 DEF Idle, Request
<1>9. ASSUME NEW k \in Sockets PROVE SocketOK(k)'
  BY <1>1, <1>3, <1>8 DEF StopReminder, IInv, SocketOK, Reached, At, rows, connections
<1>11. ReminderKept'
  <2>1. conversations[n].tutorReply
    BY <1>1 DEF RequestOK, At
  <2> QED
    BY <1>1, <1>3, <1>8, <2>1 DEF StopReminder, IInv, ReminderKept, At, rows, environment
<1> QED
  BY <1>5, <1>7, <1>9, <1>11 DEF IInv

LEMMA SaveMessageKeeps ==
  ASSUME ChatAssumption, IInv, NEW h \in Handlers, SaveMessage(h)
  PROVE  IInv'
<1> DEFINE q == request[h]
           n == Len(chats) + 1
           r == [q EXCEPT !.pc = "broadcast", !.msg = n]
           row == [from |-> q.from, to |-> q.to, clean |-> q.clean]
<1>1. /\ Set(h, r) /\ At(h, "save") /\ chats' = Append(chats, row)
      /\ q \in Request /\ RequestOK(q) /\ chats \in Seq(Chats)
  BY DEF SaveMessage, IInv, TypeOK
<1>2. row \in Chats /\ row.to = q.to
  <2>1. q.from \in Users /\ q.to \in Users
    BY <1>1, PairTyped DEF RequestOK, At
  <2> QED
    BY <1>1, <2>1 DEF Chats, Request, RequestOK, Pair, At
<1>3. /\ n \in Nat /\ chats' \in Seq(Chats)
      /\ DOMAIN chats = 1..(n - 1) /\ DOMAIN chats' = 1..n /\ chats'[n] = row
      /\ \A m \in DOMAIN chats : chats'[m] = chats[m]
  <2> HIDE DEF row
  <2> QED
    BY <1>1, <1>2
<1>4. r \in Request
  <2> HIDE DEF n
  <2> QED
    BY <1>1, <1>3 DEF Request, PCs
<1> HIDE DEF n, r, row
<1>5. /\ request' \in [Handlers -> Request] /\ request'[h] = r
      /\ \A g \in Handlers \ {h} : request'[g] = request[g]
      /\ \A g \in Handlers : RequestOK(request[g])
  BY <1>1, <1>4, Turn
<1>6. /\ r.pc = "broadcast" /\ r.msg = n /\ n \in DOMAIN chats'
      /\ r.conv \in DOMAIN conversations \cup {0}
      /\ r.from = q.from /\ r.to = q.to /\ r.clean = q.clean /\ r.active = q.active
  BY <1>1, <1>3 DEF r, Request, IInv, TypeOK
<1>7. Grows
  BY <1>3 DEF SaveMessage, Grows, access
<1>8. TypeOK'
  <2>1. \A g \in Handlers : /\ request'[g].conv \in DOMAIN conversations' \cup {0}
                            /\ request'[g].msg \in DOMAIN chats' \cup {0}
    BY <1>1, <1>4, <1>6, <1>7, IdsKeep DEF SaveMessage
  <2>2. DOMAIN chats \subseteq DOMAIN chats'
    BY <1>7 DEF Grows
  <2> QED
    BY <1>3, <1>5, <2>1, <2>2 DEF SaveMessage, IInv, TypeOK, access, connections, marks, environment
<1>9. RequestOK(request[h])'
  BY <1>1, <1>2, <1>3, <1>5, <1>6 DEF SaveMessage, RequestOK, access, Between, Pair, At
<1>10. ASSUME NEW g \in Handlers PROVE RequestOK(request[g])'
  BY <1>5, <1>7, <1>9, OthersKeep
<1>11. ASSUME NEW k \in Sockets PROVE SocketOK(k)'
  <2> SUFFICES ASSUME socket[k] \in {"read", "ready"}, NEW m \in DOMAIN chats',
                      chats'[m].to = Owner[k]
               PROVE  Reached(k, m)'
    BY DEF SaveMessage, IInv, SocketOK, connections
  <2>1. CASE m = n
    BY <2>1, <1>5, <1>6 DEF Reached, At
  <2>2. CASE m \in DOMAIN chats
    <3>1. Reached(k, m)
      BY <2>2, <1>3 DEF IInv, SocketOK
    <3> QED
      BY <3>1, <1>1, <1>5 DEF SaveMessage, Reached, At, connections
  <2> QED
    BY <2>1, <2>2, <1>3
<1>14. ReminderKept'
  BY <1>1, <1>5 DEF SaveMessage, IInv, ReminderKept, At, environment
<1> QED
  BY <1>8, <1>10, <1>11, <1>14 DEF IInv

LEMMA BroadcastKeeps ==
  ASSUME ChatAssumption, IInv, NEW h \in Handlers, Broadcast(h)
  PROVE  IInv'
<1> DEFINE r == request[h]
<1>1. Set(h, Idle) /\ At(h, "broadcast")
  BY DEF Broadcast, Settle
<1>2. /\ r \in Request /\ RequestOK(r)
      /\ request' \in [Handlers -> Request] /\ request'[h] = Idle
      /\ \A g \in Handlers \ {h} : request'[g] = request[g]
      /\ \A g \in Handlers : RequestOK(request[g])
  BY <1>1, IdleOK, Turn
<1>3. Grows
  BY DEF Broadcast, Grows, access, rows
<1>4. r.msg \in DOMAIN chats /\ chats[r.msg].to = r.to
  BY <1>1, <1>2 DEF RequestOK, At
<1>5. /\ view' \in [Sockets -> SUBSET DOMAIN chats]
      /\ \A k \in Sockets : view[k] \subseteq view'[k]
      /\ \A k \in Sockets : k \in table[r.to] /\ socket[k] # "closed" => r.msg \in view'[k]
  BY <1>4 DEF Broadcast, IInv, TypeOK
<1>6. TypeOK'
  <2>1. \A g \in Handlers : /\ request'[g].conv \in DOMAIN conversations' \cup {0}
                            /\ request'[g].msg \in DOMAIN chats' \cup {0}
    BY <1>1, <1>3, IdleOK, IdsKeep DEF Idle
  <2> QED
    BY <1>2, <1>5, <2>1 DEF Broadcast, IInv, TypeOK, rows, access, marks, environment
<1>7. ASSUME NEW g \in Handlers PROVE RequestOK(request[g])'
  BY <1>2, <1>3, IdleKeeps, OthersKeep
<1>8. ASSUME NEW k \in Sockets PROVE SocketOK(k)'
  <2> SUFFICES ASSUME socket[k] \in {"read", "ready"}, NEW m \in DOMAIN chats,
                      chats[m].to = Owner[k]
               PROVE  Reached(k, m)'
    BY DEF Broadcast, IInv, SocketOK, rows
  <2>1. Reached(k, m) /\ k \in table[Owner[k]]
    BY DEF IInv, SocketOK
  <2>2. CASE m = r.msg
    BY <2>1, <2>2, <1>4, <1>5 DEF Reached
  <2>3. CASE m # r.msg
    BY <2>1, <2>3, <1>2, <1>5 DEF Broadcast, Reached, At
  <2> QED
    BY <2>2, <2>3
<1>10. ReminderKept'
  BY <1>1, <1>2 DEF Broadcast, IInv, ReminderKept, At, rows, environment
<1> QED
  BY <1>6, <1>7, <1>8, <1>10 DEF IInv

-----------------------------------------------------------------------------
(* Sockets                                                                 *)

\* A step of a socket leaves requests and rows alone.
LEMMA Connects ==
  ASSUME IInv, UNCHANGED <<rows, access, jobs, marks, request, approved, before, early, failed>>,
         table' \in [Users -> SUBSET Sockets],
         socket' \in [Sockets -> {"new", "registered", "read", "ready", "unlisted", "closed"}],
         snapshot' \in [Sockets -> SUBSET DOMAIN chats],
         view' \in [Sockets -> SUBSET DOMAIN chats],
         ticked' \in [Sockets -> SUBSET seen], ticks' \in [Sockets -> SUBSET seen],
         {approvals, changes, faults}' \subseteq Nat,
         \A k \in Sockets : SocketOK(k)'
  PROVE  IInv'
<1>1. TypeOK'
  BY DEF IInv, TypeOK, rows, access, marks
<1>2. ASSUME NEW g \in Handlers PROVE RequestOK(request[g])'
  BY DEF IInv, RequestOK, rows, access, Between, Pair
<1>4. ReminderKept'
  BY DEF IInv, ReminderKept, At, rows
<1> QED
  BY <1>1, <1>2, <1>4 DEF IInv

LEMMA HandleConnectionKeeps ==
  ASSUME ChatAssumption, IInv, NEW k \in Sockets, HandleConnection(k)
  PROVE  IInv'
<1>1. Owner[k] \in Users
  BY DEF ChatAssumption
<1>2. /\ table' \in [Users -> SUBSET Sockets]
      /\ k \in table'[Owner[k]] /\ \A u \in Users : table[u] \subseteq table'[u]
  BY <1>1 DEF HandleConnection, IInv, TypeOK
<1>3. /\ socket' \in [Sockets -> {"new", "registered", "read", "ready", "unlisted", "closed"}]
      /\ socket'[k] = "registered" /\ \A l \in Sockets \ {k} : socket'[l] = socket[l]
  BY DEF HandleConnection, IInv, TypeOK
<1>4. ASSUME NEW l \in Sockets PROVE SocketOK(l)'
  <2>1. Owner[l] \in Users
    BY DEF ChatAssumption
  <2> QED
    BY <1>2, <1>3, <2>1 DEF HandleConnection, IInv, SocketOK, Reached, At, rows
<1>5. /\ snapshot' \in [Sockets -> SUBSET DOMAIN chats]
      /\ view' \in [Sockets -> SUBSET DOMAIN chats]
      /\ ticked' \in [Sockets -> SUBSET seen] /\ ticks' \in [Sockets -> SUBSET seen]
      /\ {approvals, changes, faults}' \subseteq Nat
  BY DEF HandleConnection, IInv, TypeOK, environment
<1> QED
  BY <1>2, <1>3, <1>4, <1>5, Connects DEF HandleConnection, environment

\* The list that getChat reads has every message that is saved.
LEMMA ReadChatsKeeps ==
  ASSUME ChatAssumption, IInv, NEW k \in Sockets, ReadChats(k)
  PROVE  IInv'
<1>1. /\ snapshot' \in [Sockets -> SUBSET DOMAIN chats]
      /\ \A m \in DOMAIN chats : chats[m].to = Owner[k] => m \in snapshot'[k]
      /\ \A l \in Sockets \ {k} : snapshot'[l] = snapshot[l]
  BY DEF ReadChats, IInv, TypeOK
<1>2. /\ socket' \in [Sockets -> {"new", "registered", "read", "ready", "unlisted", "closed"}]
      /\ socket'[k] = "read" /\ \A l \in Sockets \ {k} : socket'[l] = socket[l]
      /\ socket[k] = "registered"
  BY DEF ReadChats, IInv, TypeOK
<1>3. ASSUME NEW l \in Sockets PROVE SocketOK(l)'
  BY <1>1, <1>2 DEF ReadChats, IInv, SocketOK, Reached, At, rows
<1>4. /\ table' \in [Users -> SUBSET Sockets]
      /\ view' \in [Sockets -> SUBSET DOMAIN chats]
      /\ ticked' \in [Sockets -> SUBSET seen] /\ ticks' \in [Sockets -> SUBSET seen]
      /\ {approvals, changes, faults}' \subseteq Nat
  BY DEF ReadChats, IInv, TypeOK, environment
<1> QED
  BY <1>1, <1>2, <1>3, <1>4, Connects DEF ReadChats, environment

\* What was broadcast since the list was read is in the view already.
LEMMA EmitChatsKeeps ==
  ASSUME ChatAssumption, IInv, NEW k \in Sockets, EmitChats(k)
  PROVE  IInv'
<1>1. /\ view' \in [Sockets -> SUBSET DOMAIN chats]
      /\ view'[k] = view[k] \cup snapshot[k]
      /\ \A l \in Sockets \ {k} : view'[l] = view[l]
  BY DEF EmitChats, IInv, TypeOK
<1>2. /\ socket' \in [Sockets -> {"new", "registered", "read", "ready", "unlisted", "closed"}]
      /\ socket'[k] = "ready" /\ \A l \in Sockets \ {k} : socket'[l] = socket[l]
      /\ socket[k] = "read"
  BY DEF EmitChats, IInv, TypeOK
<1>3. ASSUME NEW l \in Sockets PROVE SocketOK(l)'
  BY <1>1, <1>2 DEF EmitChats, IInv, SocketOK, Reached, At, rows
<1>4. /\ table' \in [Users -> SUBSET Sockets]
      /\ snapshot' \in [Sockets -> SUBSET DOMAIN chats]
      /\ ticked' \in [Sockets -> SUBSET seen] /\ ticks' \in [Sockets -> SUBSET seen]
      /\ {approvals, changes, faults}' \subseteq Nat
  BY DEF EmitChats, IInv, TypeOK, environment
<1> QED
  BY <1>1, <1>2, <1>3, <1>4, Connects DEF EmitChats, environment

\* A socket without a list, and a closed one, are promised nothing.
LEMMA GetChatFailsKeeps ==
  ASSUME ChatAssumption, IInv, NEW k \in Sockets, GetChatFails(k)
  PROVE  IInv'
<1>1. /\ socket' \in [Sockets -> {"new", "registered", "read", "ready", "unlisted", "closed"}]
      /\ socket'[k] = "unlisted" /\ \A l \in Sockets \ {k} : socket'[l] = socket[l]
      /\ socket[k] \in {"registered", "read"}
  BY DEF GetChatFails, IInv, TypeOK
<1>2. ASSUME NEW l \in Sockets PROVE SocketOK(l)'
  BY <1>1 DEF GetChatFails, IInv, SocketOK, Reached, At, rows
<1>3. /\ table' \in [Users -> SUBSET Sockets]
      /\ snapshot' \in [Sockets -> SUBSET DOMAIN chats]
      /\ view' \in [Sockets -> SUBSET DOMAIN chats]
      /\ ticked' \in [Sockets -> SUBSET seen] /\ ticks' \in [Sockets -> SUBSET seen]
      /\ {approvals, changes, faults}' \subseteq Nat
  BY DEF GetChatFails, IInv, TypeOK
<1> QED
  BY <1>1, <1>2, <1>3, Connects DEF GetChatFails

LEMMA HandleDisconnectKeeps ==
  ASSUME ChatAssumption, IInv, NEW k \in Sockets, HandleDisconnect(k)
  PROVE  IInv'
<1>1. /\ socket' \in [Sockets -> {"new", "registered", "read", "ready", "unlisted", "closed"}]
      /\ socket'[k] = "closed" /\ \A l \in Sockets \ {k} : socket'[l] = socket[l]
  BY DEF HandleDisconnect, IInv, TypeOK
<1>2. ASSUME NEW l \in Sockets PROVE SocketOK(l)'
  BY <1>1 DEF HandleDisconnect, IInv, SocketOK, Reached, At, rows
<1>3. /\ table' \in [Users -> SUBSET Sockets]
      /\ snapshot' \in [Sockets -> SUBSET DOMAIN chats]
      /\ view' \in [Sockets -> SUBSET DOMAIN chats]
      /\ ticked' \in [Sockets -> SUBSET seen] /\ ticks' \in [Sockets -> SUBSET seen]
      /\ {approvals, changes, faults}' \subseteq Nat
  BY DEF HandleDisconnect, IInv, TypeOK, environment
<1> QED
  BY <1>1, <1>2, <1>3, Connects DEF HandleDisconnect, environment

-----------------------------------------------------------------------------
(* The rest of the system                                                  *)

\* A step that leaves messages, requests and the table of connections alone.
LEMMA Aside ==
  ASSUME IInv, Grows, DOMAIN conversations' = DOMAIN conversations,
         UNCHANGED <<chats, jobs, table, socket, snapshot, view, request, before>>,
         TypeOK'
  PROVE  IInv'
<1>1. ASSUME NEW g \in Handlers PROVE RequestOK(request[g])'
  BY OthersKeep DEF IInv
<1>2. ASSUME NEW k \in Sockets PROVE SocketOK(k)'
  BY DEF IInv, SocketOK, Reached, At
<1>3. ReminderKept'
  BY DEF IInv, Grows, ReminderKept, At
<1> QED
  BY <1>1, <1>2, <1>3 DEF IInv

\* What is marked, and what sockets are told of it, is of the messages there are.
Marks == /\ seeing \in [left : SUBSET DOMAIN chats, done : SUBSET seen, first : Nat]
         /\ seeing.done # {} => seeing.first \in seeing.done
         /\ told \subseteq seen /\ seen \subseteq DOMAIN chats
         /\ ticked \in [Sockets -> SUBSET seen]
         /\ ticks \in [Sockets -> SUBSET seen]

LEMMA AsideMarks ==
  ASSUME IInv, Marks',
         UNCHANGED <<rows, access, jobs, table, socket, snapshot, view, request, approved, before,
                     early, failed>>,
         {approvals, changes, faults}' \subseteq Nat
  PROVE  IInv'
<1>1. Grows /\ DOMAIN conversations' = DOMAIN conversations
  BY DEF Grows, rows
<1>2. TypeOK'
  BY DEF Marks, IInv, TypeOK, rows, access
<1> QED
  BY <1>1, <1>2, Aside DEF rows

LEMMA UnseeingTyped ==
  ASSUME NEW S, NEW T
  PROVE  /\ Unseeing \in [left : SUBSET S, done : SUBSET T, first : Nat]
         /\ Unseeing.done = {} /\ Unseeing.left = {}
BY DEF Unseeing

LEMMA SeenMsgKeeps ==
  ASSUME IInv, NEW ids \in SUBSET DOMAIN chats, SeenMsg(ids)
  PROVE  IInv'
<1>1. seeing' = [left |-> ids, done |-> {}, first |-> 0]
  BY DEF SeenMsg, Unseeing
<1>2. Marks'
  BY <1>1 DEF SeenMsg, Marks, IInv, TypeOK, rows, connections
<1>3. /\ {approvals, changes, faults}' \subseteq Nat
      /\ UNCHANGED <<rows, access, jobs, table, socket, snapshot, view, request, approved, before,
                     early, failed>>
  BY DEF SeenMsg, connections, IInv, TypeOK
<1> QED
  BY <1>2, <1>3, AsideMarks

LEMMA MarkSeenKeeps ==
  ASSUME IInv, NEW m \in seeing.left, MarkSeen(m)
  PROVE  IInv'
<1>1. /\ seeing \in [left : SUBSET DOMAIN chats, done : SUBSET seen, first : Nat]
      /\ seen' = seen \cup {m} /\ m \in DOMAIN chats /\ m \in Nat /\ seen \subseteq DOMAIN chats
  BY DEF MarkSeen, IInv, TypeOK
<1>2. /\ seeing'.left = seeing.left \ {m} /\ seeing'.done = seeing.done \cup {m}
      /\ seeing'.first = IF seeing.done = {} THEN m ELSE seeing.first
      /\ seeing' \in [left : SUBSET DOMAIN chats, done : SUBSET seen', first : Nat]
  BY <1>1 DEF MarkSeen
<1>3. seeing'.first \in seeing'.done
  BY <1>2 DEF IInv, TypeOK
<1>4. Marks'
  BY <1>1, <1>2, <1>3 DEF MarkSeen, Marks, IInv, TypeOK, rows, connections
<1> QED
  BY <1>4, AsideMarks DEF MarkSeen, connections, environment, IInv, TypeOK

LEMMA TellSeenKeeps ==
  ASSUME IInv, TellSeen
  PROVE  IInv'
<1> DEFINE u == chats[seeing.first].from
<1>1. Tell(u)
  BY DEF TellSeen
<1> HIDE DEF u
<1>2. seeing.done \subseteq seen
  BY DEF IInv, TypeOK
<1>3. ticks' \in [Sockets -> SUBSET seen] /\ told' \subseteq seen
  BY <1>1, <1>2 DEF Tell, IInv, TypeOK
<1>4. Marks'
  BY <1>1, <1>3, UnseeingTyped DEF Tell, Marks, IInv, TypeOK, rows
<1> QED
  BY <1>1, <1>4, AsideMarks DEF Tell, environment, IInv, TypeOK

LEMMA SeenFailsKeeps ==
  ASSUME IInv, SeenFails
  PROVE  IInv'
<1>1. Marks'
  BY UnseeingTyped DEF SeenFails, Marks, IInv, TypeOK, rows, connections
<1>2. /\ {approvals, changes, faults}' \subseteq Nat
      /\ UNCHANGED <<rows, access, jobs, table, socket, snapshot, view, request, approved, before,
                     early, failed>>
  BY DEF SeenFails, connections, IInv, TypeOK
<1> QED
  BY <1>1, <1>2, AsideMarks

LEMMA ApproveStudentKeeps ==
  ASSUME IInv, NEW t \in Tutors, NEW s \in Students, ApproveStudent(t, s)
  PROVE  IInv'
<1> DEFINE row(c) == IF conversations[c].student = s /\ conversations[c].tutor = TableId[t]
                     THEN [conversations[c] EXCEPT !.status = "APPROVED"] ELSE conversations[c]
<1>1. conversations \in Seq(Conversation) /\ conversations' = [c \in DOMAIN conversations |-> row(c)]
  BY DEF ApproveStudent, IInv, TypeOK
<1>2. ASSUME NEW c \in DOMAIN conversations
      PROVE  row(c) \in Conversation /\ row(c).tutorReply = conversations[c].tutorReply
  <2>1. conversations[c] \in Conversation
    BY <1>1
  <2> QED
    BY <2>1 DEF Conversation
<1>3. conversations' \in Seq(Conversation) /\ DOMAIN conversations' = DOMAIN conversations
  <2>1. DOMAIN conversations = 1..Len(conversations) /\ Len(conversations) \in Nat
    BY <1>1
  <2> HIDE DEF row
  <2> QED
    BY <1>1, <1>2, <2>1
<1>4. Grows
  BY <1>1, <1>2, <1>3 DEF ApproveStudent, Grows, access
<1>5. TypeOK'
  BY <1>3 DEF ApproveStudent, Of, IInv, TypeOK, access, connections, marks
<1> QED
  BY <1>3, <1>4, <1>5, Aside DEF ApproveStudent, connections

LEMMA ArchiveFlaggedKeeps ==
  ASSUME IInv, NEW f \in flagged, ArchiveFlagged(f)
  PROVE  IInv'
<1>1. Grows /\ DOMAIN conversations' = DOMAIN conversations
  BY DEF ArchiveFlagged, Grows, access
<1>2. f \in Users \X Users \X BOOLEAN
  BY DEF IInv, TypeOK
<1>3. <<f[1], f[2], TRUE>> \in Users \X Users \X BOOLEAN
  BY <1>2, FlagTyped
<1>4. TypeOK'
  <2>1. flagged' \subseteq Users \X Users \X BOOLEAN
    <3> DEFINE T == Users \X Users \X BOOLEAN
               g == <<f[1], f[2], TRUE>>
    <3>1. flagged \subseteq T /\ g \in T
      BY <1>3 DEF IInv, TypeOK
    <3>2. flagged' \subseteq flagged \cup {g}
      BY DEF ArchiveFlagged
    <3> QED
      BY <3>1, <3>2, Zenon
  <2>2. /\ changes' = changes + 1
        /\ UNCHANGED <<marks, conversations, chats, access, jobs, connections, request, approved,
                       before, early, failed, approvals, faults>>
    BY Zenon DEF ArchiveFlagged
  <2> QED
    BY <2>1, <2>2 DEF IInv, TypeOK, access, connections, marks
<1> QED
  BY <1>1, <1>4, Aside DEF ArchiveFlagged, connections

LEMMA UnlockKeeps ==
  ASSUME IInv, NEW S \in SUBSET Tutors, NEW P \in SUBSET Pairs, Unlock(S, P)
  PROVE  IInv'
<1>1. Grows /\ DOMAIN conversations' = DOMAIN conversations
  BY DEF Unlock, Grows, rows
<1>2. TypeOK'
  <2>1. open' \subseteq Handlers
    BY DEF Unlock, Busy, IInv, TypeOK
  <2> QED
    BY <2>1 DEF Unlock, IInv, TypeOK, rows, connections, marks
<1> QED
  BY <1>1, <1>2, Aside DEF Unlock, rows, connections

\* A restart loses jobs, but 'before' counts the conversations that had them.
LEMMA RestartKeeps ==
  ASSUME IInv, Restart
  PROVE  IInv'
<1>1. request' \in [Handlers -> Request] /\ \A g \in Handlers : request'[g] = Idle
  BY IdleOK DEF Restart
<1>2. /\ table' \in [Users -> SUBSET Sockets]
      /\ socket' \in [Sockets -> {"new", "registered", "read", "ready", "unlisted", "closed"}]
      /\ \A k \in Sockets : socket'[k] \in {"new", "closed"}
  BY DEF Restart
<1>3. before' = Len(conversations) /\ Len(conversations) \in Nat
      /\ DOMAIN conversations = 1..Len(conversations)
  BY DEF Restart, IInv, TypeOK
<1>4. TypeOK'
  <2>1. \A g \in Handlers : request'[g].conv = 0 /\ request'[g].msg = 0
    BY <1>1 DEF Idle
  <2>2. /\ seeing' \in [left : SUBSET DOMAIN chats', done : SUBSET seen', first : Nat]
        /\ seeing'.done = {}
    BY UnseeingTyped DEF Restart
  <2>3. before' \in Nat /\ faults' \in Nat
    BY <1>3 DEF Restart, IInv, TypeOK
  <2> QED
    BY <1>1, <1>2, <2>1, <2>2, <2>3 DEF Restart, IInv, TypeOK, rows, access
<1>5. ASSUME NEW g \in Handlers PROVE RequestOK(request[g])'
  BY <1>1, IdleKeeps
<1>6. ASSUME NEW k \in Sockets PROVE SocketOK(k)'
  BY <1>2 DEF SocketOK
<1>8. ReminderKept'
  BY <1>3 DEF Restart, ReminderKept, rows
<1> QED
  BY <1>4, <1>5, <1>6, <1>8 DEF IInv

-----------------------------------------------------------------------------
(* The invariant                                                           *)

LEMMA InitIInv ==
  ASSUME ChatAssumption, Init
  PROVE  IInv
<1>1. request \in [Handlers -> Request] /\ \A g \in Handlers : request[g] = Idle
  BY IdleOK DEF Init
<1>2. conversations = <<>> /\ chats = <<>>
  BY DEF Init
<1>3. conversations \in Seq(Conversation) /\ chats \in Seq(Chats)
      /\ DOMAIN conversations = {} /\ DOMAIN chats = {}
  BY <1>2
<1>4. TypeOK
  <2>1. \A g \in Handlers : request[g].conv = 0 /\ request[g].msg = 0
    BY <1>1 DEF Idle
  <2>2. /\ seeing \in [left : SUBSET DOMAIN chats, done : SUBSET seen, first : Nat]
        /\ seeing.done = {}
    BY UnseeingTyped DEF Init
  <2>3. /\ table \in [Users -> SUBSET Sockets]
        /\ socket \in [Sockets -> {"new", "registered", "read", "ready", "unlisted", "closed"}]
        /\ snapshot \in [Sockets -> SUBSET DOMAIN chats]
        /\ view \in [Sockets -> SUBSET DOMAIN chats]
        /\ ticked \in [Sockets -> SUBSET seen] /\ ticks \in [Sockets -> SUBSET seen]
    BY DEF Init
  <2>4. flagged \subseteq Users \X Users \X BOOLEAN /\ purchased \subseteq Pairs
    BY DEF Init
  <2> QED
    BY <1>1, <1>3, <2>1, <2>2, <2>3, <2>4 DEF Init, TypeOK
<1>5. ASSUME NEW g \in Handlers PROVE RequestOK(request[g])
  BY <1>1, IdleOK
<1>6. \A k \in Sockets : SocketOK(k)
  BY DEF Init, SocketOK
<1>7. ReminderKept
  BY <1>3 DEF ReminderKept
<1> QED
  BY <1>4, <1>5, <1>6, <1>7 DEF IInv

LEMMA StutterIInv ==
  ASSUME IInv, UNCHANGED vars
  PROVE  IInv'
<1>1. Grows /\ DOMAIN conversations' = DOMAIN conversations
  BY DEF vars, rows, access, Grows
<1>2. TypeOK'
  BY DEF vars, rows, access, connections, marks, environment, IInv, TypeOK
<1> QED
  BY <1>1, <1>2, Aside DEF vars, rows, connections, environment

LEMMA HandlerIInv ==
  ASSUME ChatAssumption, IInv, NEW h \in Handlers,
         Continue(h) \/ ReadPurchaseFails(h) \/ CallFails(h)
  PROVE  IInv'
<1>1. CASE ReadPurchase(h)
  <2>1. PICK bought \in BOOLEAN : bought = (Pair(request[h]) \in purchased)
    <3> WITNESS (Pair(request[h]) \in purchased) \in BOOLEAN
    <3> QED
      OBVIOUS
  <2>2. Pass(h, bought)
    BY <1>1, <2>1, Zenon DEF ReadPurchase
  <2>3. /\ At(h, "purchased")
        /\ UNCHANGED <<rows, access, jobs, connections, marks, approved, before, early, failed>>
        /\ UNCHANGED <<approvals, changes, faults>>
    BY <1>1 DEF ReadPurchase, environment
  <2>4. {approvals, changes, faults}' \subseteq Nat
    BY <2>3 DEF IInv, TypeOK
  <2> QED
    BY <2>1, <2>2, <2>3, <2>4, PassKeeps
<1>2. CASE ReadPurchaseFails(h)
  <2>1. /\ Pass(h, FALSE) /\ At(h, "purchased")
        /\ faults' = faults + 1
        /\ UNCHANGED <<marks, rows, access, jobs, connections, approved, before, early, failed,
                       approvals, changes>>
    BY <1>2, Zenon DEF ReadPurchaseFails
  <2>2. PICK bought \in BOOLEAN : ~bought /\ Pass(h, bought)
    <3>1. FALSE \in BOOLEAN /\ ~FALSE
      OBVIOUS
    <3> QED
      BY <2>1, <3>1, Zenon
  <2>3. {approvals, changes, faults}' \subseteq Nat
    <3>1. {approvals, changes, faults} \subseteq Nat
      BY DEF IInv, TypeOK
    <3>2. approvals' = approvals /\ changes' = changes /\ faults' = faults + 1
      BY <2>1, Zenon
    <3> QED
      BY <3>1, <3>2
  <2> QED
    BY <2>1, <2>2, <2>3, PassKeeps, Zenon
<1>3. CASE ReadSubscription(h)
  BY <1>3, ReadSubscriptionKeeps
<1>4. CASE FlagMessage(h)
  BY <1>4, FlagMessageKeeps
<1>5. CASE FindNone(h)
  BY <1>5, FindNoneKeeps
<1>6. CASE FindFirst(h)
  BY <1>6, FindFirstKeeps
<1>7. CASE CreateConversation(h)
  BY <1>7, CreateConversationKeeps
<1>8. CASE StartReminder(h)
  BY <1>8, StartReminderKeeps
<1>9. CASE MarkReplied(h)
  BY <1>9, MarkRepliedKeeps
<1>10. CASE StopReminder(h)
  BY <1>10, StopReminderKeeps
<1>11. CASE SaveMessage(h)
  BY <1>11, SaveMessageKeeps
<1>12. CASE Broadcast(h)
  BY <1>12, BroadcastKeeps
<1>13. CASE CallFails(h)
  BY <1>13, CallFailsKeeps
<1> QED
  BY <1>1, <1>2, <1>3, <1>4, <1>5, <1>6, <1>7, <1>8, <1>9, <1>10, <1>11, <1>12, <1>13 DEF Continue

LEMMA NextIInv ==
  ASSUME ChatAssumption, IInv, [Next]_vars
  PROVE  IInv'
<1>1. ASSUME NEW h \in Handlers, NEW s \in Students, NEW t \in Tutors, NEW clean \in BOOLEAN,
             \/ MsgFromStudent(h, s, t, clean) \/ SendMsg(h, s, t, clean)
             \/ MsgFromTutor(h, t, s, clean)
      PROVE  IInv'
  BY <1>1, StartKeeps DEF MsgFromStudent, SendMsg, MsgFromTutor
<1>2. ASSUME NEW h \in Handlers, Continue(h) \/ ReadPurchaseFails(h) \/ CallFails(h)
      PROVE  IInv'
  BY <1>2, HandlerIInv
<1>3. ASSUME NEW k \in Sockets,
             \/ HandleConnection(k) \/ ReadChats(k) \/ EmitChats(k)
             \/ GetChatFails(k) \/ HandleDisconnect(k)
      PROVE  IInv'
  BY <1>3, HandleConnectionKeeps, ReadChatsKeeps, EmitChatsKeeps, GetChatFailsKeeps,
     HandleDisconnectKeeps
<1>4. ASSUME NEW s \in Students, NEW t \in Tutors, ApproveStudent(t, s)
      PROVE  IInv'
  BY <1>4, ApproveStudentKeeps
<1>5. ASSUME NEW s \in Students, NEW t \in Tutors, PurchaseChanges(<<s, t>>)
      PROVE  IInv'
  <2>1. <<s, t>> \in Pairs /\ subscribed \subseteq Tutors /\ purchased \subseteq Pairs
    BY DEF Pairs, IInv, TypeOK
  <2>2. PICK P \in SUBSET Pairs : Unlock(subscribed, P)
    BY <1>5, <2>1 DEF PurchaseChanges
  <2> QED
    BY <2>1, <2>2, UnlockKeeps
<1>6. ASSUME NEW t \in Tutors, SubscriptionChanges(t)
      PROVE  IInv'
  <2>1. subscribed \subseteq Tutors /\ purchased \subseteq Pairs
    BY DEF IInv, TypeOK
  <2>2. PICK S \in SUBSET Tutors : Unlock(S, purchased)
    BY <1>6, <2>1 DEF SubscriptionChanges
  <2> QED
    BY <2>1, <2>2, UnlockKeeps
<1>7. ASSUME NEW f \in flagged, ArchiveFlagged(f)
      PROVE  IInv'
  BY <1>7, ArchiveFlaggedKeeps
<1>8. ASSUME NEW ids \in SUBSET DOMAIN chats, SeenMsg(ids)
      PROVE  IInv'
  BY <1>8, SeenMsgKeeps
<1>9. ASSUME NEW m \in seeing.left, MarkSeen(m)
      PROVE  IInv'
  BY <1>9, MarkSeenKeeps
<1>10. CASE TellSeen
  BY <1>10, TellSeenKeeps
<1>11. CASE SeenFails
  BY <1>11, SeenFailsKeeps
<1>12. CASE Restart
  BY <1>12, RestartKeeps
<1>13. CASE UNCHANGED vars
  BY <1>13, StutterIInv
<1>14. CASE \/ \E s \in Students, t \in Tutors : ApproveStudent(t, s) \/ PurchaseChanges(<<s, t>>)
            \/ \E t \in Tutors : SubscriptionChanges(t)
            \/ \E f \in flagged : ArchiveFlagged(f)
            \/ \E ids \in SUBSET DOMAIN chats : SeenMsg(ids)
            \/ \E m \in seeing.left : MarkSeen(m)
  BY <1>4, <1>5, <1>6, <1>7, <1>8, <1>9, <1>14
<1>15. CASE Rest
  BY <1>13, <1>15 DEF Rest
<1> QED
  BY <1>1, <1>2, <1>3, <1>10, <1>11, <1>12, <1>13, <1>14, <1>15 DEF Next

LEMMA SpecIInv ==
  ASSUME ChatAssumption
  PROVE  Spec => []IInv
<1>1. Init => IInv
  BY InitIInv
<1>2. IInv /\ [Next]_vars => IInv'
  BY NextIInv
<1> QED
  BY <1>1, <1>2, PTL DEF Spec

-----------------------------------------------------------------------------
(* Theorems                                                                *)

\* Types, and the ids that a handler holds between two of its statements: the
\* conversation and the message that it read or created are still there.
THEOREM TypeCorrect == Spec => []TypeOK
<1>1. IInv => TypeOK
  BY DEF IInv
<1> QED
  BY <1>1, SpecIInv, ChatAssumption, PTL

\* However getChat of a socket interleaves with the handlers that save and
\* broadcast, no message falls between the list and the broadcasts.
THEOREM NoMessageMissed == Spec => []NoMissedMessage
<1>1. IInv => NoMissedMessage
  BY DEF IInv, SocketOK, Reached, NoMissedMessage
<1> QED
  BY <1>1, SpecIInv, ChatAssumption, PTL

\* Overlapping first messages, replies and their failures leave the reminders of
\* other conversations alone; only a restart loses one.
THEOREM RemindersKept == Spec => []ReminderKept
<1>1. IInv => ReminderKept
  BY DEF IInv
<1> QED
  BY <1>1, SpecIInv, ChatAssumption, PTL

-----------------------------------------------------------------------------
(* Conversations: the invariant that getChat and the pages rely on.        *)

Talks(r) == r.pc \in {"remind", "mark", "stop", "save"} => r.conv \in Of(Pair(r))

MessagesTalk == \A m \in DOMAIN chats : Between(chats[m]) /\ Of(Pair(chats[m])) # {}

\* Where the ids of the tables agree, an approval reaches the conversations it names.
ApprovalOK ==
  \A c \in DOMAIN conversations : TableId[conversations[c].tutor] = conversations[c].tutor =>
    (conversations[c].status = "PENDING" <=> c \notin approved)

TalkInv ==
  /\ MessagesTalk
  /\ \A h \in Handlers : Talks(request[h])
  /\ ApprovalOK

\* A step leaves the parties of every conversation as they are.
PartiesStay ==
  \A c \in DOMAIN conversations :
    /\ c \in DOMAIN conversations'
    /\ conversations'[c].student = conversations[c].student
    /\ conversations'[c].tutor = conversations[c].tutor

LEMMA OfGrows ==
  ASSUME PartiesStay, NEW p
  PROVE  Of(p) \subseteq Of(p)'
BY DEF PartiesStay, Of

LEMMA IdleTalks == Talks(Idle) /\ Talks(Idle)'
BY DEF Talks, Idle

\* A request that a step leaves alone.
LEMMA TalksOn ==
  ASSUME PartiesStay, NEW g \in Handlers, Talks(request[g]), request'[g] = request[g]
  PROVE  Talks(request[g])'
<1>1. PICK r : r = request[g]
  OBVIOUS
<1>2. Of(Pair(r)) \subseteq Of(Pair(r))'
  BY OfGrows
<1>3. Talks(r)'
  BY <1>1, <1>2 DEF Talks, Pair, Of
<1> QED
  BY <1>1, <1>3 DEF Talks, Pair, Of

LEMMA RequestsTalk ==
  ASSUME IInv, TalkInv, PartiesStay, NEW h \in Handlers, NEW r \in Request, Set(h, r), Talks(r)'
  PROVE  \A g \in Handlers : Talks(request[g])'
<1> TAKE g \in Handlers
<1>1. CASE g = h
  <2>1. request'[g] = r
    BY <1>1, SetKeeps DEF IInv
  <2> QED
    BY <2>1 DEF Talks, Pair, Of
<1>2. CASE g # h
  <2>1. request'[g] = request[g]
    BY <1>2, SetKeeps DEF IInv
  <2> QED
    BY <2>1, TalksOn DEF TalkInv
<1> QED
  BY <1>1, <1>2

LEMMA MessagesStay ==
  ASSUME MessagesTalk, PartiesStay, chats' = chats
  PROVE  MessagesTalk'
<1> SUFFICES ASSUME NEW m \in DOMAIN chats PROVE Between(chats[m]) /\ Of(Pair(chats[m]))' # {}
  BY DEF MessagesTalk, Between, Pair, Of
<1>1. PICK p : p = Pair(chats[m])
  OBVIOUS
<1>2. Of(p)' # {}
  BY <1>1, OfGrows DEF MessagesTalk
<1> QED
  BY <1>1, <1>2 DEF MessagesTalk, Pair, Of

\* A step that only moves a request.
LEMMA MoveTalks ==
  ASSUME IInv, TalkInv, NEW h \in Handlers, NEW r \in Request, Set(h, r), Talks(r),
         UNCHANGED <<conversations, chats, approved>>
  PROVE  TalkInv'
<1>1. PartiesStay /\ Talks(r)'
  BY DEF PartiesStay, Talks, Of
<1>2. ApprovalOK'
  BY DEF TalkInv, ApprovalOK
<1> QED
  BY <1>1, <1>2, RequestsTalk, MessagesStay DEF TalkInv

LEMMA AsideTalks ==
  ASSUME TalkInv, UNCHANGED <<conversations, chats, approved, request>>
  PROVE  TalkInv'
<1>1. PartiesStay /\ ApprovalOK'
  BY DEF PartiesStay, TalkInv, ApprovalOK
<1>2. \A g \in Handlers : Talks(request[g])'
  BY <1>1, TalksOn DEF TalkInv
<1> QED
  BY <1>1, <1>2, MessagesStay DEF TalkInv

LEMMA StartTalks ==
  ASSUME ChatAssumption, IInv, TalkInv, NEW h \in Handlers, NEW from, NEW to, NEW clean \in BOOLEAN,
         \/ from \in Students /\ to \in Tutors
         \/ from \in Tutors /\ to \in Students,
         Start(h, from, to, clean)
  PROVE  TalkInv'
<1> DEFINE r == [Idle EXCEPT !.pc = "sub", !.from = from, !.to = to, !.clean = clean]
<1>1. r \in Request /\ r.pc = "sub"
  BY DEF Idle, Request, PCs, Users
<1>2. Set(h, r)
  BY DEF Start
<1> HIDE DEF r
<1>3. Talks(r)
  BY <1>1 DEF Talks
<1> QED
  BY <1>1, <1>2, <1>3, MoveTalks DEF Start, rows, environment

\* Steps before a conversation is looked for, and the end of a request.
LEMMA EarlyTalks ==
  ASSUME IInv, TalkInv, NEW h \in Handlers,
         UNCHANGED <<conversations, chats, approved>>,
         \/ Set(h, Idle)
         \/ \E pc \in {"find", "flag", "create"} : Goto(h, pc)
  PROVE  TalkInv'
<1>1. CASE Set(h, Idle)
  BY <1>1, IdleOK, IdleTalks, MoveTalks
<1>2. ASSUME NEW pc \in {"find", "flag", "create"}, Goto(h, pc) PROVE TalkInv'
  <2> DEFINE r == [request[h] EXCEPT !.pc = pc]
  <2>1. r \in Request /\ r.pc = pc
    BY DEF IInv, TypeOK, Request, PCs
  <2>2. Set(h, r)
    BY <1>2 DEF Goto
  <2> HIDE DEF r
  <2>3. Talks(r)
    BY <2>1 DEF Talks
  <2> QED
    BY <2>1, <2>2, <2>3, MoveTalks
<1> QED
  BY <1>1, <1>2

LEMMA ReadSubscriptionTalks ==
  ASSUME IInv, TalkInv, NEW h \in Handlers, ReadSubscription(h)
  PROVE  TalkInv'
<1>1. PICK active \in BOOLEAN : active = (Pair(request[h])[2] \in subscribed)
  <2> WITNESS (Pair(request[h])[2] \in subscribed) \in BOOLEAN
  <2> QED
    OBVIOUS
<1> DEFINE r == [request[h] EXCEPT !.pc = "purchased", !.active = active]
<1>2. Set(h, r)
  BY <1>1, Zenon DEF ReadSubscription
<1>3. r \in Request /\ r.pc = "purchased"
  BY DEF IInv, TypeOK, Request, PCs
<1> HIDE DEF r
<1>4. Talks(r)
  BY <1>3 DEF Talks
<1> QED
  BY <1>2, <1>3, <1>4, MoveTalks DEF ReadSubscription, rows, environment

LEMMA FindFirstTalks ==
  ASSUME IInv, TalkInv, NEW h \in Handlers, FindFirst(h)
  PROVE  TalkInv'
<1> DEFINE q == request[h]
<1>1. PICK c \in Of(Pair(q)), pc \in {"mark", "save"} : Set(h, [q EXCEPT !.pc = pc, !.conv = c])
  BY DEF FindFirst
<1> DEFINE r == [q EXCEPT !.pc = pc, !.conv = c]
<1>2. q \in Request /\ c \in Nat
  BY DEF Of, IInv, TypeOK
<1>3. r \in Request /\ r.conv = c /\ Pair(r) = Pair(q)
  BY <1>2 DEF Request, PCs, Pair
<1> HIDE DEF r
<1>4. Talks(r)
  BY <1>3 DEF Talks
<1> QED
  BY <1>1, <1>3, <1>4, MoveTalks DEF FindFirst, rows, environment, r

\* What the insert of a conversation adds.
LEMMA CreateRows ==
  ASSUME ChatAssumption, IInv, NEW h \in Handlers, CreateConversation(h)
  PROVE  \E n \in Nat : \E row \in Conversation : \E r \in Request :
           /\ n \notin DOMAIN conversations
           /\ DOMAIN conversations' = DOMAIN conversations \cup {n}
           /\ \A c \in DOMAIN conversations : conversations'[c] = conversations[c]
           /\ conversations'[n] = row
           /\ Pair(request[h]) = <<row.student, row.tutor>> /\ Pair(request[h]) \in Pairs
           /\ row.status = "PENDING" /\ row.tutorReply = FALSE
           /\ Set(h, r) /\ r.pc = "remind" /\ r.conv = n
           /\ r.from = request[h].from /\ r.to = request[h].to
<1> DEFINE q == request[h]
<1>1. PICK s \in Students, t \in Tutors : Pair(q) = <<s, t>>
  BY PairTyped DEF CreateConversation, At, IInv, RequestOK, Pairs
<1>2. q \in Request
  BY DEF IInv, TypeOK
<1>3. PICK row \in Conversation : row = [student |-> s, tutor |-> t, status |-> "PENDING",
                                         tutorReply |-> FALSE]
  BY DEF Conversation
<1>4. PICK n \in Nat : n = Len(conversations) + 1 /\ n >= 1
  BY DEF IInv, TypeOK
<1>5. /\ DOMAIN conversations = 1..(n - 1) /\ DOMAIN conversations' = 1..n
      /\ conversations'[n] = row
      /\ \A c \in DOMAIN conversations : conversations'[c] = conversations[c]
  <2>1. conversations' = Append(conversations, row)
    BY <1>1, <1>3 DEF CreateConversation
  <2>2. conversations \in Seq(Conversation)
    BY DEF IInv, TypeOK
  <2> QED
    BY <1>3, <1>4, <2>1, <2>2, AppendProperties, LenProperties
<1>6. PICK r \in Request : r = [q EXCEPT !.pc = "remind", !.conv = n]
  BY <1>2 DEF Request, PCs
<1>7. Set(h, r)
  BY <1>4, <1>6 DEF CreateConversation
<1>8. r.pc = "remind" /\ r.conv = n /\ r.from = q.from /\ r.to = q.to
  BY <1>2, <1>6 DEF Request
<1>9. n \notin DOMAIN conversations /\ DOMAIN conversations' = DOMAIN conversations \cup {n}
  BY <1>4, <1>5
<1>10. /\ Pair(q) = <<row.student, row.tutor>> /\ Pair(q) \in Pairs
       /\ row.status = "PENDING" /\ row.tutorReply = FALSE
  BY <1>1, <1>3 DEF Pairs
<1> QED
  BY <1>5, <1>7, <1>8, <1>9, <1>10

LEMMA CreateTalks ==
  ASSUME ChatAssumption, IInv, TalkInv, NEW h \in Handlers, CreateConversation(h)
  PROVE  TalkInv'
<1>1. PICK n \in Nat, row \in Conversation, r \in Request :
           /\ n \notin DOMAIN conversations
           /\ DOMAIN conversations' = DOMAIN conversations \cup {n}
           /\ \A c \in DOMAIN conversations : conversations'[c] = conversations[c]
           /\ conversations'[n] = row
           /\ Pair(request[h]) = <<row.student, row.tutor>>
           /\ row.status = "PENDING"
           /\ Set(h, r) /\ r.pc = "remind" /\ r.conv = n
           /\ r.from = request[h].from /\ r.to = request[h].to
  BY CreateRows
<1>2. chats' = chats /\ approved' = approved
  BY DEF CreateConversation, environment
<1>3. PartiesStay
  BY <1>1 DEF PartiesStay
<1>4. n \in Of(<<row.student, row.tutor>>)'
  BY <1>1 DEF Of
<1>5. Pair(r) = <<row.student, row.tutor>>
  BY <1>1 DEF Pair
<1>6. Talks(r)'
  BY <1>1, <1>4, <1>5 DEF Talks, Pair, Of
<1>7. ApprovalOK'
  <2>1. n \notin approved
    BY <1>1 DEF IInv, TypeOK
  <2> QED
    BY <1>1, <1>2, <2>1 DEF TalkInv, ApprovalOK
<1>8. MessagesTalk'
  BY <1>2, <1>3, MessagesStay DEF TalkInv
<1>9. \A g \in Handlers : Talks(request[g])'
  BY <1>1, <1>3, <1>6, RequestsTalk
<1> QED
  BY <1>7, <1>8, <1>9 DEF TalkInv

\* A request goes on with the conversation that it has.
LEMMA GoesOnTalks ==
  ASSUME IInv, TalkInv, NEW h \in Handlers, request[h].pc \in {"remind", "mark", "stop"},
         NEW pc \in {"stop", "save"}, Goto(h, pc), PartiesStay
  PROVE  \A g \in Handlers : Talks(request[g])'
<1> DEFINE q == request[h]
<1>1. q \in Request /\ Talks(q)
  BY DEF IInv, TypeOK, TalkInv
<1>2. PICK r \in Request : r = [q EXCEPT !.pc = pc]
  BY <1>1 DEF Request, PCs
<1>3. Set(h, r) /\ r.conv = q.conv /\ Pair(r) = Pair(q)
  BY <1>1, <1>2 DEF Goto, Pair, Request
<1>4. r.conv \in Of(Pair(r))
  BY <1>1, <1>3 DEF Talks
<1>5. PICK p : p = Pair(r)
  OBVIOUS
<1>6. r.conv \in Of(p)'
  BY <1>4, <1>5, OfGrows
<1>7. Talks(r)'
  BY <1>5, <1>6 DEF Talks, Pair, Of
<1> QED
  BY <1>3, <1>7, RequestsTalk

LEMMA ReminderTalks ==
  ASSUME IInv, TalkInv, NEW h \in Handlers, StartReminder(h) \/ StopReminder(h)
  PROVE  TalkInv'
<1>1. UNCHANGED <<conversations, chats, approved>>
  BY DEF StartReminder, StopReminder, rows, environment
<1>2. PartiesStay /\ ApprovalOK' /\ MessagesTalk'
  BY <1>1, MessagesStay DEF PartiesStay, TalkInv, ApprovalOK
<1>3. CASE Settle(h)
  BY <1>1, <1>3, EarlyTalks DEF Settle
<1>4. CASE Goto(h, "save")
  <2>1. request[h].pc \in {"remind", "stop"}
    BY DEF StartReminder, StopReminder, At
  <2>2. \A g \in Handlers : Talks(request[g])'
    BY <1>2, <1>4, <2>1, GoesOnTalks
  <2> QED
    BY <1>2, <2>2 DEF TalkInv
<1> QED
  BY <1>3, <1>4 DEF StartReminder, StopReminder

\* What an update of a column does to the conversations.
LEMMA MarkRows ==
  ASSUME IInv, NEW h \in Handlers, MarkReplied(h)
  PROVE  /\ request[h].conv \in DOMAIN conversations
         /\ DOMAIN conversations' = DOMAIN conversations
         /\ \A c \in DOMAIN conversations :
              /\ conversations'[c].student = conversations[c].student
              /\ conversations'[c].tutor = conversations[c].tutor
              /\ conversations'[c].status = conversations[c].status
              /\ conversations'[c].tutorReply =
                   (conversations[c].tutorReply \/ c = request[h].conv)
<1>1. PICK n \in DOMAIN conversations : n = request[h].conv
  BY DEF MarkReplied, At, IInv, RequestOK
<1>2. conversations' = [conversations EXCEPT ![n] = [conversations[n] EXCEPT !.tutorReply = TRUE]]
  BY <1>1 DEF MarkReplied
<1>3. \A c \in DOMAIN conversations : conversations[c] \in Conversation
  BY DEF IInv, TypeOK
<1>4. DOMAIN conversations' = DOMAIN conversations
      /\ \A c \in DOMAIN conversations : c # n => conversations'[c] = conversations[c]
  BY <1>2
<1>5. /\ conversations'[n].student = conversations[n].student
      /\ conversations'[n].tutor = conversations[n].tutor
      /\ conversations'[n].status = conversations[n].status
      /\ conversations'[n].tutorReply = TRUE
  BY <1>2, <1>3 DEF Conversation
<1>6. ASSUME NEW c \in DOMAIN conversations
      PROVE  conversations'[c].tutorReply = (conversations[c].tutorReply \/ c = n)
  <2>1. conversations[c].tutorReply \in BOOLEAN
    BY <1>3 DEF Conversation
  <2>2. CASE c = n
    BY <1>5, <2>1, <2>2
  <2>3. CASE c # n
    BY <1>4, <2>1, <2>3
  <2> QED
    BY <2>2, <2>3
<1>7. ASSUME NEW c \in DOMAIN conversations
      PROVE  /\ conversations'[c].student = conversations[c].student
             /\ conversations'[c].tutor = conversations[c].tutor
             /\ conversations'[c].status = conversations[c].status
  BY <1>4, <1>5
<1> QED
  BY <1>1, <1>4, <1>6, <1>7

LEMMA ApproveRows ==
  ASSUME IInv, NEW t \in Tutors, NEW s \in Students, ApproveStudent(t, s)
  PROVE  /\ DOMAIN conversations' = DOMAIN conversations
         /\ \A c \in DOMAIN conversations :
              /\ conversations'[c].student = conversations[c].student
              /\ conversations'[c].tutor = conversations[c].tutor
              /\ conversations'[c].tutorReply = conversations[c].tutorReply
              /\ conversations'[c].status =
                   IF conversations[c].student = s /\ conversations[c].tutor = TableId[t]
                   THEN "APPROVED" ELSE conversations[c].status
<1>1. DOMAIN conversations' = DOMAIN conversations
      /\ \A c \in DOMAIN conversations : conversations'[c] =
           IF conversations[c].student = s /\ conversations[c].tutor = TableId[t]
           THEN [conversations[c] EXCEPT !.status = "APPROVED"] ELSE conversations[c]
  BY DEF ApproveStudent
<1>2. \A c \in DOMAIN conversations : conversations[c] \in Conversation
  BY DEF IInv, TypeOK
<1> QED
  BY <1>1, <1>2 DEF Conversation

LEMMA MarkTalks ==
  ASSUME IInv, TalkInv, NEW h \in Handlers, MarkReplied(h)
  PROVE  TalkInv'
<1>1. PartiesStay /\ chats' = chats /\ approved' = approved
  BY MarkRows DEF PartiesStay, MarkReplied, environment
<1>2. ApprovalOK'
  BY <1>1, MarkRows DEF TalkInv, ApprovalOK
<1>3. \A g \in Handlers : Talks(request[g])'
  BY <1>1, GoesOnTalks DEF MarkReplied, At
<1> QED
  BY <1>1, <1>2, <1>3, MessagesStay DEF TalkInv

LEMMA ApproveTalks ==
  ASSUME ChatAssumption, IInv, TalkInv, NEW t \in Tutors, NEW s \in Students, ApproveStudent(t, s)
  PROVE  TalkInv'
<1>1. PartiesStay /\ chats' = chats /\ request' = request /\ approved' = approved \cup Of(<<s, t>>)
  BY ApproveRows DEF PartiesStay, ApproveStudent
<1>2. \A g \in Handlers : Talks(request[g])'
  BY <1>1, TalksOn DEF TalkInv
<1>3. ApprovalOK'
  <2> SUFFICES ASSUME NEW c \in DOMAIN conversations,
                      TableId[conversations[c].tutor] = conversations[c].tutor
               PROVE  conversations'[c].status = "PENDING" <=> c \notin approved'
    BY ApproveRows DEF ApprovalOK
  <2>1. conversations[c] \in Conversation
    BY DEF IInv, TypeOK
  <2>2. conversations[c].tutor \in Tutors /\ conversations[c].student \in Students
    BY <2>1 DEF Conversation
  <2>3. conversations[c].tutor = TableId[t] <=> conversations[c].tutor = t
    BY <2>2 DEF ChatAssumption
  <2>4. c \in Of(<<s, t>>) <=> conversations[c].student = s /\ conversations[c].tutor = t
    BY DEF Of
  <2>5. conversations[c].status = "PENDING" <=> c \notin approved
    BY DEF TalkInv, ApprovalOK
  <2> QED
    BY <1>1, <2>3, <2>4, <2>5, ApproveRows
<1> QED
  BY <1>1, <1>2, <1>3, MessagesStay DEF TalkInv

\* What the insert of a message adds.
LEMMA SaveRows ==
  ASSUME ChatAssumption, IInv, NEW h \in Handlers, SaveMessage(h)
  PROVE  \E n \in Nat : \E row \in Chats :
           /\ n = Len(chats) + 1 /\ row.clean = request[h].clean
           /\ n \notin DOMAIN chats /\ DOMAIN chats' = DOMAIN chats \cup {n}
           /\ \A m \in DOMAIN chats : chats'[m] = chats[m]
           /\ chats'[n] = row
           /\ row.from = request[h].from /\ row.to = request[h].to
<1> DEFINE q == request[h]
<1>1. q \in Request /\ RequestOK(q) /\ q.pc = "save"
  BY DEF IInv, TypeOK, SaveMessage, At
<1>2. PICK row \in Chats : row = [from |-> q.from, to |-> q.to, clean |-> q.clean]
  <2>1. q.from \in Users /\ q.to \in Users /\ q.clean \in BOOLEAN
    BY <1>1, PairTyped DEF RequestOK, Request
  <2> QED
    BY <2>1 DEF Chats
<1>3. chats' = Append(chats, row) /\ chats \in Seq(Chats)
  BY <1>2 DEF SaveMessage, IInv, TypeOK
<1>4. PICK n \in Nat : n = Len(chats) + 1 /\ n >= 1
  BY <1>3
<1>5. /\ DOMAIN chats = 1..(n - 1) /\ DOMAIN chats' = 1..n /\ chats'[n] = row
      /\ \A m \in DOMAIN chats : chats'[m] = chats[m]
  BY <1>3, <1>4, AppendProperties, LenProperties
<1>6. n \notin DOMAIN chats /\ DOMAIN chats' = DOMAIN chats \cup {n}
  BY <1>4, <1>5
<1>7. row.from = q.from /\ row.to = q.to /\ row.clean = q.clean
  BY <1>2
<1> QED
  BY <1>4, <1>5, <1>6, <1>7

LEMMA SaveTalks ==
  ASSUME ChatAssumption, IInv, TalkInv, NEW h \in Handlers, SaveMessage(h)
  PROVE  TalkInv'
<1> DEFINE q == request[h]
<1>1. q \in Request /\ RequestOK(q) /\ Talks(q) /\ q.pc = "save" /\ Between(q)
  BY DEF IInv, TypeOK, SaveMessage, At, TalkInv, RequestOK
<1>2. PICK n \in Nat, row \in Chats :
           /\ n \notin DOMAIN chats /\ DOMAIN chats' = DOMAIN chats \cup {n}
           /\ \A m \in DOMAIN chats : chats'[m] = chats[m]
           /\ chats'[n] = row
           /\ row.from = q.from /\ row.to = q.to
  BY SaveRows
<1>3. PartiesStay /\ ApprovalOK' /\ conversations' = conversations
  BY DEF PartiesStay, SaveMessage, environment, TalkInv, ApprovalOK
<1>4. Between(row) /\ Pair(row) = Pair(q)
  BY <1>1, <1>2 DEF Between, Pair
<1>5. MessagesTalk'
  <2> SUFFICES ASSUME NEW m \in DOMAIN chats'
               PROVE  Between(chats'[m]) /\ Of(Pair(chats'[m])) # {}
    BY <1>3 DEF MessagesTalk, Between, Pair, Of
  <2>1. CASE m = n
    BY <1>1, <1>2, <1>4, <2>1 DEF Talks
  <2>2. CASE m \in DOMAIN chats
    BY <1>2, <2>2 DEF TalkInv, MessagesTalk
  <2> QED
    BY <1>2, <2>1, <2>2
<1>6. PICK k : k = Len(chats) + 1
  OBVIOUS
<1>7. k \in Nat
  BY <1>6 DEF IInv, TypeOK
<1>8. PICK r \in Request : r = [q EXCEPT !.pc = "broadcast", !.msg = k]
  BY <1>1, <1>7 DEF Request, PCs
<1>9. Set(h, r) /\ r.pc = "broadcast"
  BY <1>1, <1>6, <1>8 DEF SaveMessage, Request
<1>10. Talks(r)'
  BY <1>9 DEF Talks
<1>11. \A g \in Handlers : Talks(request[g])'
  BY <1>3, <1>9, <1>10, RequestsTalk
<1> QED
  BY <1>3, <1>5, <1>11 DEF TalkInv

LEMMA HandlerTalks ==
  ASSUME ChatAssumption, IInv, TalkInv, NEW h \in Handlers,
         Continue(h) \/ ReadPurchaseFails(h) \/ CallFails(h)
  PROVE  TalkInv'
<1>1. CASE ReadPurchase(h) \/ ReadPurchaseFails(h)
  <2>1. \E pc \in {"find", "flag", "create"} : Goto(h, pc)
    BY <1>1 DEF ReadPurchase, ReadPurchaseFails, Pass
  <2> QED
    BY <1>1, <2>1, EarlyTalks DEF ReadPurchase, ReadPurchaseFails, rows, environment
<1>2. CASE FlagMessage(h) \/ FindNone(h) \/ Broadcast(h) \/ CallFails(h)
  BY <1>2, EarlyTalks DEF FlagMessage, FindNone, Broadcast, CallFails, Settle, rows, environment
<1>3. CASE ReadSubscription(h)
  BY <1>3, ReadSubscriptionTalks
<1>4. CASE FindFirst(h)
  BY <1>4, FindFirstTalks
<1>5. CASE CreateConversation(h)
  BY <1>5, CreateTalks
<1>6. CASE StartReminder(h) \/ StopReminder(h)
  BY <1>6, ReminderTalks
<1>7. CASE MarkReplied(h)
  BY <1>7, MarkTalks
<1>8. CASE SaveMessage(h)
  BY <1>8, SaveTalks
<1> QED
  BY <1>1, <1>2, <1>3, <1>4, <1>5, <1>6, <1>7, <1>8 DEF Continue

\* Steps of sockets and readers, and what changes access.
LEMMA ElsewhereMoves ==
  ASSUME Next,
         ~(\E h \in Handlers, s \in Students, t \in Tutors, clean \in BOOLEAN :
             \/ MsgFromStudent(h, s, t, clean) \/ SendMsg(h, s, t, clean)
             \/ MsgFromTutor(h, t, s, clean)),
         ~(\E h \in Handlers : Continue(h) \/ ReadPurchaseFails(h) \/ CallFails(h)),
         ~(\E s \in Students, t \in Tutors : ApproveStudent(t, s)),
         ~Restart
  PROVE  UNCHANGED <<conversations, chats, approved, request, jobs, before, early, failed>>
BY DEF Next, HandleConnection, ReadChats, EmitChats, GetChatFails, HandleDisconnect,
   PurchaseChanges, SubscriptionChanges, Unlock, ArchiveFlagged, SeenMsg, MarkSeen, TellSeen,
   Tell, SeenFails, Rest, vars, rows, environment

LEMMA RestartTalks ==
  ASSUME TalkInv, Restart
  PROVE  TalkInv'
<1>1. /\ UNCHANGED <<conversations, chats, approved>>
      /\ \A g \in Handlers : request'[g] = Idle
  BY DEF Restart, rows
<1>2. PartiesStay /\ ApprovalOK'
  BY <1>1 DEF PartiesStay, TalkInv, ApprovalOK
<1>3. \A g \in Handlers : Talks(request[g])'
  BY <1>1 DEF Talks, Idle
<1> QED
  BY <1>1, <1>2, <1>3, MessagesStay DEF TalkInv

LEMMA NextTalks ==
  ASSUME ChatAssumption, IInv, TalkInv, [Next]_vars
  PROVE  TalkInv'
<1>1. ASSUME NEW h \in Handlers, NEW s \in Students, NEW t \in Tutors, NEW clean \in BOOLEAN,
             \/ MsgFromStudent(h, s, t, clean) \/ SendMsg(h, s, t, clean)
             \/ MsgFromTutor(h, t, s, clean)
      PROVE  TalkInv'
  BY <1>1, StartTalks DEF MsgFromStudent, SendMsg, MsgFromTutor
<1>2. CASE \E s \in Students, t \in Tutors : ApproveStudent(t, s)
  BY <1>2, ApproveTalks
<1>3. CASE UNCHANGED vars
  BY <1>3, AsideTalks DEF vars, rows, environment
<1>4. CASE Restart
  BY <1>4, RestartTalks
<1> QED
  BY <1>1, <1>2, <1>3, <1>4, HandlerTalks, AsideTalks, ElsewhereMoves

\* Less is well founded on the naturals, so a set of them has a least element.
LEMMA Least ==
  ASSUME NEW S \in SUBSET Nat, S # {}
  PROVE  \E x \in S : \A y \in S : x <= y
<1>1. PICK R : IsWellFoundedOn(R, Nat) /\ \A x \in Nat, y \in Nat : y < x => <<y, x>> \in R
  <2>1. IsWellFoundedOn(OpToRel(<, Nat), Nat)
    BY NatLessThanWellFounded
  <2>2. \A x \in Nat, y \in Nat : y < x => <<y, x>> \in OpToRel(<, Nat)
    BY DEF OpToRel
  <2> QED
    BY <2>1, <2>2
<1>2. PICK x \in S : \A y \in S : ~(<<y, x>> \in R)
  BY <1>1, WFMin
<1>3. \A y \in S : ~(y < x)
  <2> TAKE y \in S
  <2>1. x \in Nat /\ y \in Nat
    OBVIOUS
  <2> QED
    BY <1>1, <1>2, <2>1, Zenon
<1> QED
  BY <1>3

LEMMA Latest ==
  ASSUME NEW n \in Nat, NEW S \in SUBSET (1..n), S # {}
  PROVE  \E x \in S : \A y \in S : y <= x
<1> DEFINE T == {d \in Nat : n - d \in S}
<1>1. PICK s \in S : s \in 1..n
  OBVIOUS
<1>2. n - s \in Nat /\ n - (n - s) = s
  BY <1>1
<1>3. n - s \in T
  BY <1>1, <1>2
<1>4. PICK d \in T : \A e \in T : d <= e
  BY <1>3, Least
<1>5. ASSUME NEW y \in S PROVE y <= n - d
  <2>1. y \in 1..n /\ n - y \in Nat /\ n - (n - y) = y
    OBVIOUS
  <2>2. n - y \in T
    BY <2>1
  <2>3. d <= n - y /\ d \in Nat
    BY <1>4, <2>2
  <2> QED
    BY <2>1, <2>3
<1>6. n - d \in S
  OBVIOUS
<1> QED
  BY <1>5, <1>6

\* The student's page shows three conversations: all, if there are no more.
LEMMA PageShows ==
  ASSUME IInv, NEW s \in Students, NEW t \in Tutors, NEW m \in DOMAIN chats,
         Pair(chats[m]) = <<s, t>>, Of(<<s, t>>) # {}, Cardinality(OfStudent(s)) <= 3
  PROVE  \E n \in m..Len(chats) : <<t, n>> \in FindChatTutors(s)
<1> DEFINE mine == OfStudent(s)
           recent == {c \in mine : Cardinality({d \in mine : d > c}) < 3}
           tutors == {conversations[c].tutor : c \in recent}
           between(u) == {i \in DOMAIN chats : Pair(chats[i]) = <<s, u>>}
<1>1. PICK len \in Nat, k \in Nat : /\ len = Len(chats) /\ k = Len(conversations)
                                    /\ DOMAIN chats = 1..len /\ DOMAIN conversations = 1..k
  BY DEF IInv, TypeOK
<1>2. PICK c \in Of(<<s, t>>) : c \in mine /\ conversations[c].tutor = t /\ c \in 1..k
  BY <1>1 DEF Of, OfStudent
<1>3. IsFiniteSet(mine) /\ mine \in SUBSET (1..k)
  <2>1. mine \in SUBSET (1..k)
    BY <1>1 DEF OfStudent
  <2>2. IsFiniteSet(1..k)
    BY FS_Interval
  <2> QED
    BY <2>1, <2>2, FS_Subset
<1>4. c \in recent
  <2>1. IsFiniteSet(mine \ {c}) /\ Cardinality(mine \ {c}) = Cardinality(mine) - 1
    BY <1>2, <1>3, FS_RemoveElement
  <2>2. {d \in mine : d > c} \in SUBSET (mine \ {c})
    BY <1>2, <1>3
  <2>3. Cardinality({d \in mine : d > c}) <= Cardinality(mine) - 1
        /\ Cardinality({d \in mine : d > c}) \in Nat /\ Cardinality(mine) \in Nat
    BY <1>3, <2>1, <2>2, FS_Subset, FS_CardinalityType
  <2>4. Cardinality({d \in mine : d > c}) < 3
    BY <2>3
  <2> HIDE DEF mine
  <2> QED
    BY <1>2, <2>4
<1>5. t \in tutors
  <2> HIDE DEF recent
  <2> QED
    BY <1>2, <1>4
<1>6. m \in between(t) /\ between(t) \in SUBSET (1..len)
  BY <1>1
<1>7. PICK n \in between(t) : \A i \in between(t) : i <= n
  <2> HIDE DEF between
  <2> QED
    BY <1>1, <1>6, Latest
<1>8. n \in m..Len(chats) /\ n \in DOMAIN chats
  BY <1>1, <1>6, <1>7
<1>9. <<t, n>> \in FindChatTutors(s)
  <2>1. FindChatTutors(s) = {last \in tutors \X DOMAIN chats :
          last[2] \in between(last[1]) /\ \A i \in between(last[1]) : i <= last[2]}
    BY DEF FindChatTutors
  <2> HIDE DEF tutors, between
  <2> QED
    BY <1>5, <1>7, <1>8, <2>1
<1> QED
  BY <1>8, <1>9

LEMMA PendingPage ==
  ASSUME IInv, TalkInv, NEW t \in Tutors, TableId[t] = t
  PROVE  GetPendingStudents(t) = {s \in Students : ~(Of(<<s, t>>) \subseteq approved)}
<1>1. \A c \in DOMAIN conversations : conversations[c].student \in Students
                                      /\ conversations[c].tutor \in Tutors
  <2>1. \A c \in DOMAIN conversations : conversations[c] \in Conversation
    BY DEF IInv, TypeOK
  <2> QED
    BY <2>1 DEF Conversation
<1>2. \A c \in DOMAIN conversations : conversations[c].tutor = t =>
        (conversations[c].status = "PENDING" <=> c \notin approved)
  BY DEF TalkInv, ApprovalOK
<1>3. ASSUME NEW s \in GetPendingStudents(t)
      PROVE  s \in Students /\ ~(Of(<<s, t>>) \subseteq approved)
  <2>1. PICK c \in DOMAIN conversations : /\ conversations[c].tutor = t
                                          /\ conversations[c].status = "PENDING"
                                          /\ s = conversations[c].student
    BY DEF GetPendingStudents
  <2>2. c \in Of(<<s, t>>)
    BY <2>1 DEF Of
  <2> QED
    BY <1>1, <1>2, <2>1, <2>2
<1>4. ASSUME NEW s \in Students, ~(Of(<<s, t>>) \subseteq approved)
      PROVE  s \in GetPendingStudents(t)
  <2>1. PICK c \in Of(<<s, t>>) : c \notin approved
    BY <1>4
  <2>2. c \in DOMAIN conversations /\ conversations[c].student = s /\ conversations[c].tutor = t
    BY DEF Of
  <2> QED
    BY <1>2, <2>1, <2>2 DEF GetPendingStudents
<1> QED
  BY <1>3, <1>4

\* However messages, first messages of a pair, failures and restarts interleave,
\* a saved message has its conversation, on the pages of both sides too.
THEOREM MessagesHaveConversation == Spec => []ChatHasConversation
<1>1. Init => TalkInv
  BY DEF Init, TalkInv, MessagesTalk, ApprovalOK, Talks, Idle
<1>2. IInv /\ TalkInv /\ [Next]_vars => TalkInv'
  BY NextTalks, ChatAssumption
<1>3. IInv /\ TalkInv => ChatHasConversation
  <2> SUFFICES ASSUME IInv, TalkInv PROVE ChatHasConversation
    OBVIOUS
  <2>1. ASSUME NEW m \in DOMAIN chats
        PROVE  LET p == Pair(chats[m])
               IN /\ InConversation(m) /\ p[1] \in GetTutorStudents(p[2])
                  /\ Cardinality(OfStudent(p[1])) <= 3 =>
                       \E n \in m..Len(chats) : <<p[2], n>> \in FindChatTutors(p[1])
    <3>1. Between(chats[m]) /\ Of(Pair(chats[m])) # {}
      BY DEF TalkInv, MessagesTalk
    <3>2. PICK s \in Students, t \in Tutors : Pair(chats[m]) = <<s, t>>
                                /\ {chats[m].from, chats[m].to} = {s, t}
      BY <3>1, ChatAssumption DEF Between, Pair, ChatAssumption
    <3>3. PICK c \in DOMAIN conversations : conversations[c].student = s /\ conversations[c].tutor = t
      BY <3>1, <3>2 DEF Of
    <3>4. InConversation(m)
      BY <3>2, <3>3 DEF InConversation
    <3>5. s \in GetTutorStudents(t)
      BY <3>1, <3>2 DEF GetTutorStudents
    <3>6. Cardinality(OfStudent(s)) <= 3 => \E n \in m..Len(chats) : <<t, n>> \in FindChatTutors(s)
      BY <3>1, <3>2, PageShows
    <3> QED
      BY <3>2, <3>4, <3>5, <3>6
  <2>2. \A t \in Tutors : TableId[t] = t =>
          GetPendingStudents(t) = {s \in Students : ~(Of(<<s, t>>) \subseteq approved)}
    BY PendingPage
  <2> QED
    BY <2>1, <2>2 DEF ChatHasConversation
<1> QED
  BY <1>1, <1>2, <1>3, SpecIInv, ChatAssumption, PTL DEF Spec

-----------------------------------------------------------------------------
(* The gate on contact details                                             *)

Past == {"find", "create", "remind", "mark", "stop", "save", "broadcast"}

\* A pair's access is in 'open' for as long as its message is handled: so what the
\* handler has read of it, and that it passed the gate, need not be true any more.
GateOK(h) ==
  /\ request[h].pc # "idle" /\ Access(Pair(request[h])) => h \in open
  /\ request[h].pc \notin {"idle", "sub"} /\ request[h].active => h \in open
  /\ request[h].pc \in Past => request[h].clean \/ h \in open

GateInv == ContactGate /\ \A h \in Handlers : GateOK(h)

\* A step that ends a request, or moves it past a read.
LEMMA MoveGate ==
  ASSUME IInv, GateInv, NEW h \in Handlers, NEW r \in Request, Set(h, r),
         UNCHANGED <<subscribed, purchased, open>>, ContactGate',
         \/ r.pc = "idle"
         \/ /\ request[h].pc # "idle" /\ r.from = request[h].from /\ r.to = request[h].to
            /\ r.clean = request[h].clean
            /\ r.pc \notin {"idle", "sub"} /\ r.active => h \in open
            /\ r.pc \in Past => request[h].clean \/ h \in open
  PROVE  GateInv'
<1>1. /\ request'[h] = r
      /\ \A g \in Handlers \ {h} : request'[g] = request[g]
  BY SetKeeps DEF IInv
<1>2. GateOK(h)'
  <2>1. CASE r.pc = "idle"
    BY <1>1, <2>1 DEF GateOK, Past
  <2>2. CASE /\ request[h].pc # "idle" /\ r.from = request[h].from /\ r.to = request[h].to
             /\ r.clean = request[h].clean
             /\ r.pc \notin {"idle", "sub"} /\ r.active => h \in open
             /\ r.pc \in Past => request[h].clean \/ h \in open
    <3>1. Access(Pair(request[h])) => h \in open
      BY <2>2 DEF GateInv, GateOK
    <3> QED
      BY <1>1, <2>2, <3>1 DEF GateOK, Access, Pair
  <2> QED
    BY <2>1, <2>2
<1>3. ASSUME NEW g \in Handlers \ {h} PROVE GateOK(g)'
  BY <1>1 DEF GateInv, GateOK, Access, Pair
<1> QED
  BY <1>2, <1>3 DEF GateInv

\* A request that has passed the gate goes on.
LEMMA OnGate ==
  ASSUME IInv, GateInv, NEW h \in Handlers, request[h].pc \in Past,
         NEW pc \in Past, NEW c \in Nat, NEW m \in Nat,
         Set(h, [request[h] EXCEPT !.pc = pc, !.conv = c, !.msg = m]),
         UNCHANGED <<subscribed, purchased, open>>, ContactGate'
  PROVE  GateInv'
<1> DEFINE q == request[h]
<1>1. q \in Request /\ (q.active => h \in open) /\ (q.clean \/ h \in open)
  BY DEF IInv, TypeOK, GateInv, GateOK, Past
<1>2. PICK r \in Request : r = [q EXCEPT !.pc = pc, !.conv = c, !.msg = m]
  BY <1>1 DEF Request, PCs, Past
<1>3. r.from = q.from /\ r.to = q.to /\ r.clean = q.clean /\ r.active = q.active
  BY <1>1, <1>2 DEF Request
<1> QED
  BY <1>1, <1>2, <1>3, MoveGate DEF Past

LEMMA ReadSubscriptionGate ==
  ASSUME IInv, GateInv, NEW h \in Handlers, ReadSubscription(h)
  PROVE  GateInv'
<1> DEFINE q == request[h]
<1>1. PICK active \in BOOLEAN : active = (Pair(q)[2] \in subscribed)
  <2> WITNESS (Pair(q)[2] \in subscribed) \in BOOLEAN
  <2> QED
    OBVIOUS
<1>2. q \in Request /\ q.pc = "sub"
  BY DEF IInv, TypeOK, ReadSubscription, At
<1>3. PICK r \in Request : r = [q EXCEPT !.pc = "purchased", !.active = active]
  BY <1>2 DEF Request, PCs
<1>4. Set(h, r)
  BY <1>1, <1>3, Zenon DEF ReadSubscription
<1>5. /\ r.from = q.from /\ r.to = q.to /\ r.clean = q.clean
      /\ r.pc = "purchased" /\ r.active = active
  BY <1>2, <1>3 DEF Request
<1>6. active => h \in open
  BY <1>1, <1>2 DEF GateInv, GateOK, Access
<1>7. ContactGate' /\ UNCHANGED <<subscribed, purchased, open>>
  BY DEF ReadSubscription, rows, access, GateInv, ContactGate
<1> QED
  BY <1>2, <1>4, <1>5, <1>6, <1>7, MoveGate DEF Past

LEMMA PassGate ==
  ASSUME IInv, GateInv, NEW h \in Handlers, NEW bought \in BOOLEAN, request[h].pc = "purchased",
         bought => Pair(request[h]) \in purchased, Pass(h, bought),
         UNCHANGED <<rows, access>>
  PROVE  GateInv'
<1> DEFINE q == request[h]
           passes == q.clean \/ q.active \/ bought
<1>1. q \in Request /\ (q.active \/ bought => h \in open)
  BY DEF IInv, TypeOK, GateInv, GateOK, Access
<1>2. PICK r \in Request : r = [q EXCEPT !.pc = IF passes THEN "find" ELSE "flag"]
  BY <1>1 DEF Request, PCs
<1>3. Set(h, r)
  BY <1>2 DEF Pass, Goto
<1>4. /\ r.from = q.from /\ r.to = q.to /\ r.clean = q.clean /\ r.active = q.active
      /\ r.pc = IF passes THEN "find" ELSE "flag"
  BY <1>1, <1>2 DEF Request
<1>5. ContactGate' /\ UNCHANGED <<subscribed, purchased, open>>
  BY DEF rows, access, GateInv, ContactGate
<1> QED
  BY <1>1, <1>3, <1>4, <1>5, MoveGate DEF Past

LEMMA SaveGate ==
  ASSUME ChatAssumption, IInv, GateInv, NEW h \in Handlers, SaveMessage(h)
  PROVE  GateInv'
<1> DEFINE q == request[h]
<1>1. PICK n \in Nat, row \in Chats :
           /\ n = Len(chats) + 1
           /\ n \notin DOMAIN chats /\ DOMAIN chats' = DOMAIN chats \cup {n}
           /\ \A m \in DOMAIN chats : chats'[m] = chats[m]
           /\ chats'[n] = row /\ row.clean = q.clean
  BY SaveRows
<1>2. q.pc = "save" /\ q \in Request /\ (q.clean \/ h \in open)
  BY DEF SaveMessage, At, IInv, TypeOK, GateInv, GateOK, Past
<1>3. ContactGate'
  <2>1. paid \subseteq paid' /\ (h \in open => n \in paid')
    BY <1>1 DEF SaveMessage
  <2> QED
    BY <1>1, <1>2, <2>1 DEF GateInv, ContactGate
<1>4. PICK r \in Request : r = [q EXCEPT !.pc = "broadcast", !.msg = n]
  BY <1>2 DEF Request, PCs
<1>5. Set(h, r) /\ r = [q EXCEPT !.pc = "broadcast", !.conv = q.conv, !.msg = n] /\ q.conv \in Nat
  BY <1>1, <1>2, <1>4 DEF SaveMessage, Request
<1>6. UNCHANGED <<subscribed, purchased, open>>
  BY DEF SaveMessage
<1> QED
  BY <1>2, <1>3, <1>5, <1>6, OnGate DEF Past

LEMMA HandlerGate ==
  ASSUME ChatAssumption, IInv, GateInv, NEW h \in Handlers,
         Continue(h) \/ ReadPurchaseFails(h) \/ CallFails(h)
  PROVE  GateInv'
<1> DEFINE q == request[h]
<1>1. q \in Request
  BY DEF IInv, TypeOK
<1>2. CASE UNCHANGED <<chats, access>> /\ Settle(h)
  <2>1. Set(h, Idle) /\ Idle \in Request /\ Idle.pc = "idle"
    BY <1>2, IdleOK DEF Settle, Idle
  <2>2. ContactGate' /\ UNCHANGED <<subscribed, purchased, open>>
    BY <1>2 DEF access, GateInv, ContactGate
  <2> QED
    BY <2>1, <2>2, MoveGate
<1>3. ASSUME UNCHANGED <<chats, access>>, q.pc \in Past, NEW pc \in Past, NEW c \in Nat,
             Set(h, [q EXCEPT !.pc = pc, !.conv = c])
      PROVE  GateInv'
  <2>1. Set(h, [q EXCEPT !.pc = pc, !.conv = c, !.msg = q.msg]) /\ q.msg \in Nat
    BY <1>1, <1>3 DEF Request
  <2>2. ContactGate' /\ UNCHANGED <<subscribed, purchased, open>>
    BY <1>3 DEF access, GateInv, ContactGate
  <2> QED
    BY <1>3, <2>1, <2>2, OnGate
<1>4. ASSUME UNCHANGED <<chats, access>>, q.pc \in Past, NEW pc \in Past, Goto(h, pc)
      PROVE  GateInv'
  <2>1. [q EXCEPT !.pc = pc] = [q EXCEPT !.pc = pc, !.conv = q.conv] /\ q.conv \in Nat
    BY <1>1 DEF Request
  <2> QED
    BY <1>3, <1>4, <2>1 DEF Goto
<1>5. CASE ReadPurchase(h)
  <2>1. PICK bought \in BOOLEAN : bought = (Pair(q) \in purchased)
    <3> WITNESS (Pair(q) \in purchased) \in BOOLEAN
    <3> QED
      OBVIOUS
  <2>2. Pass(h, bought)
    BY <1>5, <2>1, Zenon DEF ReadPurchase
  <2> QED
    BY <1>5, <2>1, <2>2, PassGate DEF ReadPurchase, At
<1>6. CASE ReadPurchaseFails(h)
  <2>1. PICK bought \in BOOLEAN : ~bought /\ Pass(h, bought)
    <3>1. FALSE \in BOOLEAN /\ ~FALSE
      OBVIOUS
    <3> QED
      BY <1>6, <3>1, Zenon DEF ReadPurchaseFails
  <2> QED
    BY <1>6, <2>1, PassGate DEF ReadPurchaseFails, At
<1>7. CASE FlagMessage(h) \/ Broadcast(h) \/ CallFails(h)
  BY <1>2, <1>7 DEF FlagMessage, Broadcast, CallFails, rows
<1>8. CASE FindNone(h)
  <2>1. UNCHANGED <<chats, access>> /\ q.pc \in Past /\ (Settle(h) \/ Goto(h, "create"))
    BY <1>8 DEF FindNone, rows, At, Past
  <2> QED
    BY <1>2, <1>4, <2>1 DEF Past
<1>9. CASE FindFirst(h)
  <2>1. PICK c \in Of(Pair(q)), pc \in {"mark", "save"} : Set(h, [q EXCEPT !.pc = pc, !.conv = c])
    BY <1>9 DEF FindFirst
  <2>2. UNCHANGED <<chats, access>> /\ q.pc \in Past /\ c \in Nat /\ pc \in Past
    BY <1>9, <2>1 DEF FindFirst, rows, At, Past, Of, IInv, TypeOK
  <2> QED
    BY <1>3, <2>1, <2>2
<1>10. CASE CreateConversation(h)
  <2>1. PICK c \in Nat : c = Len(conversations) + 1
    BY DEF IInv, TypeOK
  <2>2. /\ UNCHANGED <<chats, access>> /\ q.pc \in Past
        /\ Set(h, [q EXCEPT !.pc = "remind", !.conv = c])
    BY <1>10, <2>1 DEF CreateConversation, At, Past
  <2> QED
    BY <1>3, <2>2 DEF Past
<1>11. CASE StartReminder(h) \/ MarkReplied(h) \/ StopReminder(h)
  <2>1. /\ UNCHANGED <<chats, access>> /\ q.pc \in Past
        /\ Settle(h) \/ Goto(h, "stop") \/ Goto(h, "save")
    BY <1>11 DEF StartReminder, MarkReplied, StopReminder, rows, At, Past
  <2> QED
    BY <1>2, <1>4, <2>1 DEF Past
<1>12. CASE ReadSubscription(h)
  BY <1>12, ReadSubscriptionGate
<1>13. CASE SaveMessage(h)
  BY <1>13, SaveGate
<1> QED
  BY <1>5, <1>6, <1>7, <1>8, <1>9, <1>10, <1>11, <1>12, <1>13 DEF Continue

LEMMA StartGate ==
  ASSUME IInv, GateInv, NEW h \in Handlers, NEW from \in Users, NEW to \in Users,
         NEW clean \in BOOLEAN, Start(h, from, to, clean)
  PROVE  GateInv'
<1>1. PICK r \in Request : r = [Idle EXCEPT !.pc = "sub", !.from = from, !.to = to, !.clean = clean]
  BY DEF Idle, Request, PCs
<1>2. r.pc = "sub" /\ r.from = from /\ r.to = to
  BY <1>1 DEF Idle
<1>3. Set(h, r)
  BY <1>1 DEF Start
<1>4. request'[h] = r /\ \A g \in Handlers \ {h} : request'[g] = request[g]
  BY <1>3, SetKeeps DEF IInv
<1>5. /\ Access(Pair(r)) => h \in open'
      /\ \A g \in Handlers \ {h} : g \in open => g \in open'
  BY <1>2 DEF Start, Pair, Idle
<1>6. UNCHANGED <<chats, subscribed, purchased, paid>>
  BY DEF Start, rows
<1>7. GateOK(h)'
  BY <1>2, <1>4, <1>5, <1>6 DEF GateOK, Past, Access, Pair
<1>8. ASSUME NEW g \in Handlers \ {h} PROVE GateOK(g)'
  BY <1>4, <1>5, <1>6 DEF GateInv, GateOK, Access, Pair
<1>9. ContactGate'
  BY <1>6 DEF GateInv, ContactGate
<1> QED
  BY <1>7, <1>8, <1>9 DEF GateInv

LEMMA UnlockGate ==
  ASSUME GateInv, NEW S, NEW P, Unlock(S, P)
  PROVE  GateInv'
<1>1. /\ UNCHANGED <<chats, paid, request>> /\ subscribed' = S /\ purchased' = P
      /\ open' = open \cup {h \in Busy : Pair(request[h])[2] \in S \/ Pair(request[h]) \in P}
  BY DEF Unlock, rows
<1>2. ASSUME NEW g \in Handlers PROVE GateOK(g)'
  <2>1. request[g].pc # "idle" /\ (Pair(request[g])[2] \in S \/ Pair(request[g]) \in P) => g \in open'
    BY <1>1 DEF Busy, At
  <2> QED
    BY <1>1, <2>1 DEF GateInv, GateOK, Access, Pair
<1>3. ContactGate'
  BY <1>1 DEF GateInv, ContactGate
<1> QED
  BY <1>2, <1>3 DEF GateInv

LEMMA NextGate ==
  ASSUME ChatAssumption, IInv, GateInv, [Next]_vars
  PROVE  GateInv'
<1>1. ASSUME NEW h \in Handlers, NEW s \in Students, NEW t \in Tutors, NEW clean \in BOOLEAN,
             \/ MsgFromStudent(h, s, t, clean) \/ SendMsg(h, s, t, clean)
             \/ MsgFromTutor(h, t, s, clean)
      PROVE  GateInv'
  <2>1. s \in Users /\ t \in Users
    BY DEF Users
  <2> QED
    BY <1>1, <2>1, StartGate DEF MsgFromStudent, SendMsg, MsgFromTutor
<1>2. ASSUME NEW h \in Handlers, Continue(h) \/ ReadPurchaseFails(h) \/ CallFails(h)
      PROVE  GateInv'
  BY <1>2, HandlerGate
<1>3. CASE Restart
  <2>1. UNCHANGED <<chats, access>> /\ \A h \in Handlers : request'[h] = Idle
    BY <1>3 DEF Restart, rows
  <2>2. \A h \in Handlers : GateOK(h)'
    BY <2>1 DEF GateOK, Idle, Past
  <2> QED
    BY <2>1, <2>2 DEF access, GateInv, ContactGate
<1>4. CASE \/ \E s \in Students, t \in Tutors : PurchaseChanges(<<s, t>>)
           \/ \E t \in Tutors : SubscriptionChanges(t)
  BY <1>4, UnlockGate DEF PurchaseChanges, SubscriptionChanges
<1>5. CASE UNCHANGED <<chats, access, request>>
  BY <1>5 DEF access, GateInv, GateOK, ContactGate, Access, Pair
<1>6. CASE /\ Next
           /\ ~(\E h \in Handlers, s \in Students, t \in Tutors, clean \in BOOLEAN :
                  \/ MsgFromStudent(h, s, t, clean) \/ SendMsg(h, s, t, clean)
                  \/ MsgFromTutor(h, t, s, clean))
           /\ ~(\E h \in Handlers : Continue(h) \/ ReadPurchaseFails(h) \/ CallFails(h))
           /\ ~Restart
           /\ ~(\E s \in Students, t \in Tutors : PurchaseChanges(<<s, t>>))
           /\ ~(\E t \in Tutors : SubscriptionChanges(t))
  <2>1. UNCHANGED <<chats, access, request>>
    BY <1>6 DEF Next, HandleConnection, ReadChats, EmitChats, GetChatFails, HandleDisconnect,
       ApproveStudent, ArchiveFlagged, SeenMsg, MarkSeen, TellSeen, Tell, SeenFails, Rest, vars, rows
  <2> QED
    BY <1>5, <2>1
<1> QED
  BY <1>1, <1>2, <1>3, <1>4, <1>5, <1>6 DEF vars, rows

\* Contact details are saved only between users who had access while the message was
\* handled, whatever is bought, refunded, subscribed or cancelled meanwhile.
THEOREM ContactsArePaid == Spec => []ContactGate
<1>1. Init => GateInv
  <2>1. ASSUME Init PROVE DOMAIN chats = {} /\ \A h \in Handlers : request[h] = Idle
    BY <2>1 DEF Init
  <2> QED
    BY <2>1 DEF GateInv, GateOK, ContactGate, Idle, Past
<1>2. IInv /\ GateInv /\ [Next]_vars => GateInv'
  BY NextGate, ChatAssumption
<1>3. GateInv => ContactGate
  BY DEF GateInv
<1> QED
  BY <1>1, <1>2, <1>3, SpecIInv, ChatAssumption, PTL DEF Spec

-----------------------------------------------------------------------------
(* Marks                                                                   *)

\* A mark whose sender was told has come to a socket, or will with its list.
Ticked(k) ==
  socket[k] \in {"read", "ready"} =>
    \A m \in told : chats[m].from = Owner[k] =>
      m \in ticks[k] \/ (socket[k] = "read" /\ m \in ticked[k] /\ m \in snapshot[k])

SeenInv == \A k \in Sockets : Ticked(k)

LEMMA TellTicks ==
  ASSUME IInv, SeenInv, TellSeen
  PROVE  SeenInv'
<1>1. PICK u : u = chats[seeing.first].from /\ Tell(u)
  BY DEF TellSeen
<1>2. UNCHANGED <<chats, table, socket, snapshot, ticked>>
  BY <1>1 DEF Tell, rows
<1>3. ASSUME NEW k \in Sockets PROVE Ticked(k)'
  <2> SUFFICES ASSUME socket[k] \in {"read", "ready"}, NEW m \in told', chats[m].from = Owner[k]
               PROVE  m \in ticks'[k] \/ (socket[k] = "read" /\ m \in ticked[k] /\ m \in snapshot[k])
    BY <1>2 DEF Ticked
  <2>1. ticks[k] \subseteq ticks'[k] /\ k \in table[Owner[k]]
    BY <1>1 DEF Tell, IInv, SocketOK
  <2>2. CASE m \in told
    BY <2>1, <2>2 DEF SeenInv, Ticked
  <2>3. CASE m \notin told
    <3>1. m \in seeing.done /\ u = Owner[k]
      BY <1>1, <2>3 DEF Tell
    <3> QED
      BY <1>1, <2>1, <3>1 DEF Tell
  <2> QED
    BY <2>2, <2>3
<1> QED
  BY <1>3 DEF SeenInv

LEMMA ConnectTicks ==
  ASSUME ChatAssumption, IInv, SeenInv, NEW k \in Sockets,
         \/ HandleConnection(k) \/ ReadChats(k) \/ EmitChats(k)
         \/ GetChatFails(k) \/ HandleDisconnect(k)
  PROVE  SeenInv'
<1>1. UNCHANGED <<chats, told>> /\ told \subseteq seen /\ told \subseteq DOMAIN chats
  BY DEF HandleConnection, ReadChats, EmitChats, GetChatFails, HandleDisconnect, rows, marks,
         IInv, TypeOK
<1>2. ASSUME NEW l \in Sockets \ {k} PROVE Ticked(l)'
  <2>1. /\ socket'[l] = socket[l] /\ ticks'[l] = ticks[l]
        /\ ticked'[l] = ticked[l] /\ snapshot'[l] = snapshot[l]
    BY DEF HandleConnection, ReadChats, EmitChats, GetChatFails, HandleDisconnect, IInv, TypeOK
  <2> QED
    BY <1>1, <2>1 DEF SeenInv, Ticked
<1>3. Ticked(k)'
  <2>1. CASE HandleConnection(k) \/ GetChatFails(k) \/ HandleDisconnect(k)
    <3>1. socket'[k] \notin {"read", "ready"}
      BY <2>1 DEF HandleConnection, GetChatFails, HandleDisconnect, IInv, TypeOK
    <3> QED
      BY <3>1 DEF Ticked
  <2>2. CASE ReadChats(k)
    <3>1. /\ socket'[k] = "read" /\ ticked'[k] = seen
          /\ snapshot'[k] = {m \in DOMAIN chats : Owner[k] \in {chats[m].from, chats[m].to}}
      BY <2>2 DEF ReadChats, IInv, TypeOK
    <3> QED
      BY <1>1, <3>1 DEF Ticked
  <2>3. CASE EmitChats(k)
    <3>1. /\ socket[k] = "read" /\ socket'[k] = "ready"
          /\ ticks'[k] = ticks[k] \cup (ticked[k] \cap snapshot[k])
      BY <2>3 DEF EmitChats, IInv, TypeOK
    <3> QED
      BY <1>1, <3>1 DEF SeenInv, Ticked
  <2> QED
    BY <2>1, <2>2, <2>3
<1> QED
  BY <1>2, <1>3 DEF SeenInv

LEMMA NextTicks ==
  ASSUME ChatAssumption, IInv, SeenInv, [Next]_vars
  PROVE  SeenInv'
<1>1. CASE \E k \in Sockets : \/ HandleConnection(k) \/ ReadChats(k) \/ EmitChats(k)
                              \/ GetChatFails(k) \/ HandleDisconnect(k)
  BY <1>1, ConnectTicks
<1>2. CASE TellSeen
  BY <1>2, TellTicks
<1>3. CASE Restart
  <2>1. ASSUME NEW k \in Sockets PROVE socket'[k] \notin {"read", "ready"}
    BY <1>3 DEF Restart
  <2> QED
    BY <2>1 DEF SeenInv, Ticked
<1>4. ASSUME UNCHANGED <<told, socket, ticks, ticked, snapshot>>,
             \A m \in DOMAIN chats : chats'[m] = chats[m]
      PROVE  SeenInv'
  <2>1. told \subseteq DOMAIN chats
    BY DEF IInv, TypeOK
  <2> QED
    BY <1>4, <2>1 DEF SeenInv, Ticked
<1>5. CASE \E h \in Handlers : SaveMessage(h)
  <2>1. \A m \in DOMAIN chats : chats'[m] = chats[m]
    BY <1>5, SaveRows
  <2> QED
    BY <1>4, <1>5, <2>1 DEF SaveMessage, marks, connections
<1>6. CASE UNCHANGED <<told, socket, ticks, ticked, snapshot, chats>>
  BY <1>4, <1>6
<1>7. CASE \E h \in Handlers : Continue(h) /\ ~SaveMessage(h)
  BY <1>6, <1>7 DEF Continue, ReadSubscription, ReadPurchase, FlagMessage, FindNone, FindFirst,
     CreateConversation, StartReminder, MarkReplied, StopReminder, Broadcast, rows, marks, connections
<1>8. CASE \/ \E h \in Handlers, s \in Students, t \in Tutors, clean \in BOOLEAN :
                \/ MsgFromStudent(h, s, t, clean) \/ SendMsg(h, s, t, clean)
                \/ MsgFromTutor(h, t, s, clean)
           \/ \E h \in Handlers : ReadPurchaseFails(h) \/ CallFails(h)
  <2>1. ASSUME NEW h, NEW from, NEW to, NEW clean, Start(h, from, to, clean)
        PROVE  UNCHANGED <<rows, marks, connections>>
    BY <2>1 DEF Start
  <2>2. ASSUME NEW h, ReadPurchaseFails(h) \/ CallFails(h)
        PROVE  UNCHANGED <<rows, marks, connections>>
    BY <2>2 DEF ReadPurchaseFails, CallFails
  <2>3. UNCHANGED <<rows, marks, connections>>
    BY <1>8, <2>1, <2>2 DEF MsgFromStudent, SendMsg, MsgFromTutor
  <2> QED
    BY <1>6, <2>3 DEF rows, marks, connections
<1>9. CASE \/ \E s \in Students, t \in Tutors : ApproveStudent(t, s) \/ PurchaseChanges(<<s, t>>)
           \/ \E t \in Tutors : SubscriptionChanges(t)
           \/ \E f \in flagged : ArchiveFlagged(f)
  BY <1>6, <1>9 DEF ApproveStudent, PurchaseChanges, SubscriptionChanges, Unlock, ArchiveFlagged,
     rows, marks, connections
<1>10. CASE \/ \E ids \in SUBSET DOMAIN chats : SeenMsg(ids)
            \/ \E m \in seeing.left : MarkSeen(m)
            \/ SeenFails \/ Rest
  BY <1>6, <1>10 DEF SeenMsg, MarkSeen, SeenFails, Rest, vars, rows, marks, connections
<1>11. CASE UNCHANGED vars
  BY <1>6, <1>11 DEF vars, rows, marks, connections
<1> QED
  BY <1>1, <1>2, <1>3, <1>5, <1>7, <1>8, <1>9, <1>10, <1>11 DEF Next

\* However marks and 'msgSeen' interleave with a socket's registration and its list,
\* its client shows as seen what was marked and told to its user.
THEOREM SeenIsShown == Spec => []SeenShown
<1>1. Init => SeenInv
  BY DEF Init, SeenInv, Ticked
<1>2. IInv /\ SeenInv /\ [Next]_vars => SeenInv'
  BY NextTicks, ChatAssumption
<1>3. SeenInv => SeenShown
  BY DEF SeenInv, Ticked, SeenShown
<1> QED
  BY <1>1, <1>2, <1>3, SpecIInv, ChatAssumption, PTL DEF Spec

-----------------------------------------------------------------------------
(* Replies and reminders                                                   *)

Stopping(c) == \E h \in Handlers : At(h, "stop") /\ request[h].conv = c

\* Only the handler that creates a conversation starts its job; until then there is
\* none.  A job that is there, or to come, for a conversation marked as replied has a
\* handler about to stop it, unless one has tried too early.
ReplyInv ==
  /\ \A h \in Handlers : request[h].pc \in {"mark", "stop"} => request[h].from \in Tutors
  /\ \A g, h \in Handlers :
       At(g, "remind") /\ At(h, "remind") /\ request[g].conv = request[h].conv => g = h
  /\ \A c \in DOMAIN conversations : Unstarted(c) => c \notin jobs
  /\ \A c \in DOMAIN conversations :
       conversations[c].tutorReply /\ (c \in jobs \/ Unstarted(c)) => c \in early \/ Stopping(c)
  /\ ReplySaved

\* A request that a step ends at its save has saved a reply, or is known to have failed.
Settled(g) ==
  \A c \in DOMAIN conversations :
    request[g].conv = c /\ request[g].from \in Tutors => c \in failed' \/ Replied(c)'

\* A request that a step leaves alone, or moves without reminders.
Quiet(g) ==
  \/ request'[g] = request[g]
  \/ /\ request[g].pc \notin {"remind", "stop"}
     /\ request[g].pc = "save" => Settled(g)
     /\ request'[g].pc \notin {"remind", "stop"}
     /\ request'[g].pc = "mark" => request'[g].from \in Tutors

LEMMA RepliedStays ==
  ASSUME PartiesStay, DOMAIN chats \subseteq DOMAIN chats',
         \A m \in DOMAIN chats : chats'[m] = chats[m],
         NEW c \in DOMAIN conversations, Replied(c)
  PROVE  Replied(c)'
<1>1. PICK m \in DOMAIN chats : chats[m].from \in Tutors /\ c \in Of(Pair(chats[m]))
  BY DEF Replied
<1>2. m \in DOMAIN chats' /\ chats'[m] = chats[m]
  OBVIOUS
<1>3. c \in Of(Pair(chats[m]))'
  BY <1>1, <1>2 DEF PartiesStay, Of, Pair
<1> QED
  BY <1>1, <1>2, <1>3 DEF Replied

\* Jobs, replies and their losses as they were.
LEMMA QuietReply ==
  ASSUME ReplyInv, DOMAIN conversations' = DOMAIN conversations,
         \A c \in DOMAIN conversations :
           conversations'[c].tutorReply = conversations[c].tutorReply /\ (Replied(c) => Replied(c)'),
         UNCHANGED <<jobs, early, before>>, failed \subseteq failed',
         \A g \in Handlers : Quiet(g)
  PROVE  ReplyInv'
<1>1. ASSUME NEW g \in Handlers, request'[g].pc \in {"remind", "stop"}
      PROVE  request'[g] = request[g]
  BY <1>1 DEF Quiet
<1>2. ASSUME NEW g \in Handlers, request[g].pc \in {"remind", "stop"}
      PROVE  request'[g] = request[g]
  BY <1>2 DEF Quiet
<1>3. (\A h \in Handlers : request[h].pc \in {"mark", "stop"} => request[h].from \in Tutors)'
  BY DEF ReplyInv, Quiet
<1>4. (\A g, h \in Handlers :
         At(g, "remind") /\ At(h, "remind") /\ request[g].conv = request[h].conv => g = h)'
  BY <1>1 DEF ReplyInv, At
<1>5. ASSUME NEW c PROVE /\ Unstarted(c)' => Unstarted(c)
                         /\ Unstarted(c) => Unstarted(c)'
                         /\ Stopping(c) => Stopping(c)'
  BY <1>1, <1>2 DEF Unstarted, Stopping, At
<1>6. ASSUME NEW c \in DOMAIN conversations
      PROVE  /\ Unstarted(c)' => c \notin jobs'
             /\ conversations'[c].tutorReply /\ (c \in jobs' \/ Unstarted(c)') =>
                  c \in early' \/ Stopping(c)'
  BY <1>5 DEF ReplyInv
<1>7. ASSUME NEW c \in DOMAIN conversations, conversations'[c].tutorReply
      PROVE  \/ Replied(c)' \/ \E h \in Handlers : Replying(h, c)'
             \/ c \in (early \cup failed)' \/ c <= before'
  <2>1. CASE Replied(c) \/ c \in early \cup failed \/ c <= before
    BY <2>1
  <2>2. ASSUME NEW h \in Handlers, Replying(h, c)
        PROVE  c \in failed' \/ Replied(c)' \/ Replying(h, c)'
    <3>1. CASE request'[h] = request[h]
      BY <2>2, <3>1, <1>5 DEF Replying, At
    <3>2. CASE request'[h] # request[h]
      <4>1. At(h, "save") /\ request[h].conv = c /\ request[h].from \in Tutors
        BY <2>2, <3>2, <1>2 DEF Replying, At
      <4>2. Settled(h)
        BY <3>2, <4>1 DEF Quiet, At
      <4> QED
        BY <4>1, <4>2 DEF Settled
    <3> QED
      BY <3>1, <3>2
  <2> QED
    BY <1>7, <2>1, <2>2 DEF ReplyInv, ReplySaved
<1>8. ReplySaved'
  BY <1>7 DEF ReplySaved
<1> QED
  BY <1>3, <1>4, <1>6, <1>8 DEF ReplyInv

\* Steps that move one request without touching its conversation.
LEMMA MoveReply ==
  ASSUME IInv, ReplyInv, NEW h \in Handlers, NEW r \in Request, Set(h, r),
         UNCHANGED <<conversations, chats, jobs, early, before>>, failed \subseteq failed',
         request[h].pc \notin {"remind", "stop"},
         request[h].pc = "save" /\ request[h].from \in Tutors => request[h].conv \in failed',
         r.pc \notin {"remind", "stop"}, r.pc = "mark" => r.from \in Tutors
  PROVE  ReplyInv'
<1>1. PartiesStay
  BY DEF PartiesStay
<1>2. \A c \in DOMAIN conversations : Replied(c) => Replied(c)'
  BY <1>1, RepliedStays
<1>3. \A g \in Handlers : Quiet(g)
  BY SetKeeps DEF IInv, Quiet, Settled
<1> QED
  BY <1>2, <1>3, QuietReply

LEMMA AsideReply ==
  ASSUME ReplyInv, UNCHANGED <<conversations, chats, jobs, early, failed, before, request>>
  PROVE  ReplyInv'
<1>1. PartiesStay
  BY DEF PartiesStay
<1>2. \A c \in DOMAIN conversations : Replied(c) => Replied(c)'
  BY <1>1, RepliedStays
<1> QED
  BY <1>2, QuietReply DEF Quiet

LEMMA ApproveReply ==
  ASSUME IInv, ReplyInv, NEW t \in Tutors, NEW s \in Students, ApproveStudent(t, s)
  PROVE  ReplyInv'
<1>1. PartiesStay /\ UNCHANGED <<chats, jobs, early, failed, before, request>>
  BY ApproveRows DEF PartiesStay, ApproveStudent
<1>2. \A c \in DOMAIN conversations : Replied(c) => Replied(c)'
  BY <1>1, RepliedStays
<1> QED
  BY <1>1, <1>2, ApproveRows, QuietReply DEF Quiet

LEMMA SaveReply ==
  ASSUME ChatAssumption, IInv, TalkInv, ReplyInv, NEW h \in Handlers, SaveMessage(h)
  PROVE  ReplyInv'
<1> DEFINE q == request[h]
<1>1. PICK n \in Nat, row \in Chats :
           /\ DOMAIN chats' = DOMAIN chats \cup {n}
           /\ \A m \in DOMAIN chats : chats'[m] = chats[m]
           /\ chats'[n] = row /\ row.from = q.from /\ row.to = q.to
  BY SaveRows
<1>2. /\ q.pc = "save" /\ q.conv \in Of(Pair(q)) /\ q \in Request
      /\ UNCHANGED <<conversations, jobs, early, failed, before>>
  BY DEF SaveMessage, At, TalkInv, Talks, IInv, TypeOK, environment
<1>3. PartiesStay /\ \A c \in DOMAIN conversations : Replied(c) => Replied(c)'
  <2>1. PartiesStay
    BY <1>2 DEF PartiesStay
  <2> QED
    BY <1>1, <2>1, RepliedStays
<1>4. ASSUME NEW c \in DOMAIN conversations, q.conv = c, q.from \in Tutors PROVE Replied(c)'
  <2>1. c \in Of(Pair(chats[n]))'
    BY <1>1, <1>2, <1>4 DEF Of, Pair
  <2> QED
    BY <1>1, <1>4, <2>1 DEF Replied
<1>5. /\ request'[h].pc = "broadcast"
      /\ \A g \in Handlers \ {h} : request'[g] = request[g]
  BY <1>2 DEF SaveMessage, Set, IInv, TypeOK, Request
<1>6. \A g \in Handlers : Quiet(g)
  BY <1>2, <1>4, <1>5 DEF Quiet, Settled
<1> QED
  BY <1>2, <1>3, <1>6, QuietReply

LEMMA CreateReply ==
  ASSUME ChatAssumption, IInv, ReplyInv, NEW h \in Handlers, CreateConversation(h)
  PROVE  ReplyInv'
<1>1. PICK n \in Nat, row \in Conversation, r \in Request :
           /\ n \notin DOMAIN conversations
           /\ DOMAIN conversations' = DOMAIN conversations \cup {n}
           /\ \A c \in DOMAIN conversations : conversations'[c] = conversations[c]
           /\ conversations'[n] = row
           /\ Pair(request[h]) = <<row.student, row.tutor>> /\ Pair(request[h]) \in Pairs
           /\ row.status = "PENDING" /\ row.tutorReply = FALSE
           /\ Set(h, r) /\ r.pc = "remind" /\ r.conv = n
           /\ r.from = request[h].from /\ r.to = request[h].to
  BY CreateRows
<1>2. /\ UNCHANGED <<chats, jobs, early, failed, before>>
      /\ request[h].pc = "create" /\ jobs \subseteq DOMAIN conversations
  BY DEF CreateConversation, At, environment, IInv, TypeOK
<1>3. request'[h] = r /\ \A g \in Handlers \ {h} : request'[g] = request[g]
  BY <1>1, SetKeeps DEF IInv
<1>4. \A g \in Handlers : request[g].pc = "remind" => request[g].conv \in DOMAIN conversations
  BY DEF IInv, RequestOK
<1>5. ASSUME NEW c \in DOMAIN conversations
      PROVE  /\ Unstarted(c)' <=> Unstarted(c)
             /\ Stopping(c) => Stopping(c)'
             /\ \A g \in Handlers : Replying(g, c) => Replying(g, c)'
  BY <1>1, <1>2, <1>3 DEF Unstarted, Stopping, Replying, At
<1>6. ASSUME NEW c \in DOMAIN conversations, Replied(c) PROVE Replied(c)'
  <2>1. PartiesStay
    BY <1>1 DEF PartiesStay
  <2> QED
    BY <1>2, <1>6, <2>1, RepliedStays
<1>7. (\A g \in Handlers : request[g].pc \in {"mark", "stop"} => request[g].from \in Tutors)'
  BY <1>1, <1>3 DEF ReplyInv
<1>8. (\A f, g \in Handlers :
         At(f, "remind") /\ At(g, "remind") /\ request[f].conv = request[g].conv => f = g)'
  BY <1>1, <1>3, <1>4 DEF ReplyInv, At
<1>9. ASSUME NEW c \in DOMAIN conversations'
      PROVE  /\ Unstarted(c)' => c \notin jobs'
             /\ conversations'[c].tutorReply /\ (c \in jobs' \/ Unstarted(c)') =>
                  c \in early' \/ Stopping(c)'
  <2>1. CASE c = n
    BY <1>1, <1>2, <2>1
  <2>2. CASE c \in DOMAIN conversations
    BY <1>1, <1>2, <1>5, <2>2 DEF ReplyInv
  <2> QED
    BY <1>1, <1>9, <2>1, <2>2
<1>10. ReplySaved'
  BY <1>1, <1>2, <1>5, <1>6 DEF ReplyInv, ReplySaved
<1> QED
  BY <1>7, <1>8, <1>9, <1>10 DEF ReplyInv

\* The rows, losses and other requests of a step that starts or stops a job.
JobStep(h) ==
  /\ UNCHANGED <<conversations, chats, failed, before>>
  /\ \A g \in Handlers \ {h} : request'[g] = request[g]

LEMMA JobRows ==
  ASSUME NEW h \in Handlers, JobStep(h)
  PROVE  \A c \in DOMAIN conversations : Replied(c) => Replied(c)'
<1>1. PartiesStay
  BY DEF JobStep, PartiesStay
<1> QED
  BY <1>1, RepliedStays DEF JobStep

LEMMA StartReply ==
  ASSUME IInv, ReplyInv, NEW h \in Handlers, StartReminder(h)
  PROVE  ReplyInv'
<1>1. PICK n : n = request[h].conv
  OBVIOUS
<1>2. /\ request[h].pc = "remind" /\ jobs' = jobs \cup {n} /\ early' = early
      /\ n \in DOMAIN conversations
  BY <1>1 DEF StartReminder, At, IInv, RequestOK, environment
<1>3. request'[h].pc = "save" /\ JobStep(h)
  BY DEF StartReminder, Goto, Set, IInv, TypeOK, Request, JobStep, rows, environment
<1>4. \A c \in DOMAIN conversations : Replied(c) => Replied(c)'
  BY <1>3, JobRows
<1>5. ASSUME NEW c
      PROVE  /\ Unstarted(c)' <=> (Unstarted(c) /\ c # n)
             /\ Stopping(c) => Stopping(c)'
  <2>1. Unstarted(n) /\ \A g \in Handlers \ {h} : At(g, "remind") => request[g].conv # n
    BY <1>1, <1>2 DEF Unstarted, ReplyInv, At
  <2> QED
    BY <1>1, <1>2, <1>3, <2>1 DEF JobStep, Unstarted, Stopping, At
<1>6. ASSUME NEW c, NEW g \in Handlers, Replying(g, c) PROVE Replying(g, c)'
  <2>1. g # h
    BY <1>2, <1>6 DEF Replying, At
  <2> QED
    BY <1>2, <1>3, <1>5, <1>6, <2>1 DEF JobStep, Replying, At
<1>7. (\A g \in Handlers : request[g].pc \in {"mark", "stop"} => request[g].from \in Tutors)'
  BY <1>3 DEF JobStep, ReplyInv
<1>8. (\A f, g \in Handlers :
         At(f, "remind") /\ At(g, "remind") /\ request[f].conv = request[g].conv => f = g)'
  BY <1>3 DEF JobStep, ReplyInv, At
<1>9. ASSUME NEW c \in DOMAIN conversations
      PROVE  /\ Unstarted(c)' => c \notin jobs'
             /\ conversations'[c].tutorReply /\ (c \in jobs' \/ Unstarted(c)') =>
                  c \in early' \/ Stopping(c)'
  <2>1. Unstarted(n)
    BY <1>1, <1>2 DEF Unstarted, At
  <2> QED
    BY <1>2, <1>3, <1>5, <2>1 DEF JobStep, ReplyInv
<1>10. ReplySaved'
  BY <1>2, <1>3, <1>4, <1>6 DEF JobStep, ReplyInv, ReplySaved
<1> QED
  BY <1>3, <1>7, <1>8, <1>9, <1>10 DEF JobStep, ReplyInv

LEMMA StopReply ==
  ASSUME IInv, ReplyInv, NEW h \in Handlers, StopReminder(h)
  PROVE  ReplyInv'
<1>1. PICK n : n = request[h].conv
  OBVIOUS
<1>2. /\ request[h].pc = "stop" /\ jobs' = jobs \ {n}
      /\ early' = IF n \notin jobs /\ Unstarted(n) THEN early \cup {n} ELSE early
      /\ request[h].from \in Tutors
  BY <1>1 DEF StopReminder, At, ReplyInv
<1>3. /\ JobStep(h) /\ request'[h].pc \in {"save", "idle"}
      /\ n \in jobs => /\ request'[h].pc = "save" /\ request'[h].conv = n
                       /\ request'[h].from = request[h].from
  BY <1>1 DEF StopReminder, Goto, Settle, Set, Idle, IInv, TypeOK, Request, JobStep, rows
<1>4. \A c \in DOMAIN conversations : Replied(c) => Replied(c)'
  BY <1>3, JobRows
<1>5. ASSUME NEW c
      PROVE  /\ Unstarted(c)' <=> Unstarted(c)
             /\ c # n => (Stopping(c) => Stopping(c)')
  BY <1>1, <1>2, <1>3 DEF JobStep, Unstarted, Stopping, At
<1>6. ASSUME NEW c, c # n, NEW g \in Handlers, Replying(g, c) PROVE Replying(g, c)'
  <2>1. g # h
    BY <1>1, <1>6 DEF Replying
  <2> QED
    BY <1>2, <1>3, <1>5, <1>6, <2>1 DEF JobStep, Replying, At
<1>7. (\A g \in Handlers : request[g].pc \in {"mark", "stop"} => request[g].from \in Tutors)'
  BY <1>3 DEF JobStep, ReplyInv
<1>8. (\A f, g \in Handlers :
         At(f, "remind") /\ At(g, "remind") /\ request[f].conv = request[g].conv => f = g)'
  BY <1>3 DEF JobStep, ReplyInv, At
<1>9. ASSUME NEW c \in DOMAIN conversations
      PROVE  /\ Unstarted(c)' => c \notin jobs'
             /\ conversations'[c].tutorReply /\ (c \in jobs' \/ Unstarted(c)') =>
                  c \in early' \/ Stopping(c)'
  <2>1. Unstarted(c)' => c \notin jobs'
    BY <1>2, <1>5 DEF ReplyInv
  <2>2. CASE c # n
    BY <1>2, <1>3, <1>5, <2>1, <2>2 DEF JobStep, ReplyInv
  <2>3. CASE c = n
    BY <1>2, <1>5, <2>1, <2>3 DEF ReplyInv
  <2> QED
    BY <2>1, <2>2, <2>3
<1>10. ASSUME NEW c \in DOMAIN conversations, conversations[c].tutorReply
       PROVE  \/ Replied(c)' \/ \E g \in Handlers : Replying(g, c)'
              \/ c \in (early \cup failed)' \/ c <= before'
  <2>1. CASE Replied(c) \/ c \in early \cup failed \/ c <= before
    BY <1>2, <1>3, <1>4, <2>1 DEF JobStep
  <2>2. ASSUME NEW g \in Handlers, Replying(g, c)
        PROVE  c \in early' \/ \E f \in Handlers : Replying(f, c)'
    <3>1. CASE c # n
      BY <1>6, <2>2, <3>1
    <3>2. CASE c = n /\ n \in jobs
      BY <1>2, <1>3, <3>2 DEF Replying, At
    <3>3. CASE c = n /\ n \notin jobs /\ Unstarted(n)
      BY <1>2, <3>3
    <3>4. CASE c = n /\ n \notin jobs /\ ~Unstarted(n)
      <4>1. At(g, "save") /\ g # h
        BY <1>2, <2>2, <3>4 DEF Replying, At
      <4> QED
        BY <1>3, <2>2, <4>1 DEF JobStep, Replying, At
    <3> QED
      BY <3>1, <3>2, <3>3, <3>4
  <2> QED
    BY <1>10, <2>1, <2>2 DEF ReplyInv, ReplySaved
<1>11. ReplySaved'
  BY <1>3, <1>10 DEF JobStep, ReplySaved
<1> QED
  BY <1>3, <1>7, <1>8, <1>9, <1>11 DEF JobStep, ReplyInv

LEMMA MarkReply ==
  ASSUME IInv, ReplyInv, NEW h \in Handlers, MarkReplied(h)
  PROVE  ReplyInv'
<1>1. PICK n : n = request[h].conv
  OBVIOUS
<1>2. /\ request[h].pc = "mark" /\ request[h].from \in Tutors
      /\ UNCHANGED <<chats, jobs, early, failed, before>>
  BY DEF MarkReplied, At, ReplyInv, environment
<1>3. /\ n \in DOMAIN conversations /\ DOMAIN conversations' = DOMAIN conversations
      /\ PartiesStay
      /\ \A c \in DOMAIN conversations :
           conversations'[c].tutorReply = (conversations[c].tutorReply \/ c = n)
  BY <1>1, MarkRows DEF PartiesStay
<1>4. /\ request'[h].pc = "stop" /\ request'[h].conv = n /\ request'[h].from = request[h].from
      /\ \A g \in Handlers \ {h} : request'[g] = request[g]
  BY <1>1 DEF MarkReplied, Goto, Set, IInv, TypeOK, Request
<1>5. \A c \in DOMAIN conversations : Replied(c) => Replied(c)'
  BY <1>2, <1>3, RepliedStays
<1>6. ASSUME NEW c
      PROVE  /\ Unstarted(c)' <=> Unstarted(c)
             /\ Stopping(c) => Stopping(c)'
             /\ Stopping(n)'
  BY <1>2, <1>4 DEF Unstarted, Stopping, At
<1>7. ASSUME NEW c, NEW g \in Handlers, Replying(g, c) PROVE Replying(g, c)'
  <2>1. g # h
    BY <1>2, <1>7 DEF Replying, At
  <2> QED
    BY <1>2, <1>4, <1>6, <1>7, <2>1 DEF Replying, At
<1>8. (\A g \in Handlers : request[g].pc \in {"mark", "stop"} => request[g].from \in Tutors)'
  BY <1>2, <1>4 DEF ReplyInv
<1>9. (\A f, g \in Handlers :
         At(f, "remind") /\ At(g, "remind") /\ request[f].conv = request[g].conv => f = g)'
  BY <1>4 DEF ReplyInv, At
<1>10. ASSUME NEW c \in DOMAIN conversations
       PROVE  /\ Unstarted(c)' => c \notin jobs'
              /\ conversations'[c].tutorReply /\ (c \in jobs' \/ Unstarted(c)') =>
                   c \in early' \/ Stopping(c)'
  BY <1>2, <1>3, <1>6 DEF ReplyInv
<1>11. ASSUME NEW c \in DOMAIN conversations, conversations'[c].tutorReply
       PROVE  \/ Replied(c)' \/ \E g \in Handlers : Replying(g, c)'
              \/ c \in (early \cup failed)' \/ c <= before'
  <2>1. CASE conversations[c].tutorReply
    BY <1>2, <1>5, <1>7, <2>1 DEF ReplyInv, ReplySaved
  <2>2. CASE ~conversations[c].tutorReply
    <3>1. c = n
      BY <1>3, <1>11, <2>2
    <3>2. c \in jobs \/ c <= before \/ Unstarted(c)
      BY <2>2 DEF IInv, ReminderKept, Unstarted
    <3>3. c <= before \/ Replying(h, c)'
      BY <1>2, <1>4, <1>6, <3>1, <3>2 DEF Replying, At
    <3> QED
      BY <1>2, <3>3
  <2> QED
    BY <2>1, <2>2
<1>12. ReplySaved'
  BY <1>3, <1>11 DEF ReplySaved
<1> QED
  BY <1>3, <1>8, <1>9, <1>10, <1>12 DEF ReplyInv

LEMMA HandlerReply ==
  ASSUME ChatAssumption, IInv, TalkInv, ReplyInv, NEW h \in Handlers,
         Continue(h) \/ ReadPurchaseFails(h) \/ CallFails(h)
  PROVE  ReplyInv'
<1> DEFINE q == request[h]
<1>1. q \in Request
  BY DEF IInv, TypeOK
<1>2. CASE ReadSubscription(h)
  <2>1. PICK active \in BOOLEAN : active = (Pair(q)[2] \in subscribed)
    <3> WITNESS (Pair(q)[2] \in subscribed) \in BOOLEAN
    <3> QED
      OBVIOUS
  <2>2. PICK r \in Request : r = [q EXCEPT !.pc = "purchased", !.active = active]
    BY <1>1 DEF Request, PCs
  <2>3. Set(h, r) /\ r.pc = "purchased" /\ q.pc = "sub"
    BY <1>1, <1>2, <2>1, <2>2 DEF ReadSubscription, Request, At
  <2> QED
    BY <1>2, <2>3, MoveReply DEF ReadSubscription, rows, environment
<1>3. ASSUME NEW pc \in {"find", "flag", "create"}, Goto(h, pc), q.pc \in {"purchased", "find"},
             UNCHANGED <<conversations, chats, jobs, early, before, failed>>
      PROVE  ReplyInv'
  <2>1. PICK r \in Request : r = [q EXCEPT !.pc = pc]
    BY <1>1 DEF Request, PCs
  <2>2. Set(h, r) /\ r.pc = pc
    BY <1>1, <1>3, <2>1 DEF Goto, Request
  <2> QED
    BY <1>3, <2>2, MoveReply
<1>4. ASSUME Settle(h), UNCHANGED <<conversations, chats, jobs, early, before>>,
             q.pc \notin {"remind", "stop"}, failed \subseteq failed',
             q.pc = "save" /\ q.from \in Tutors => q.conv \in failed'
      PROVE  ReplyInv'
  <2>1. Set(h, Idle) /\ Idle \in Request /\ Idle.pc = "idle"
    BY <1>4, IdleOK DEF Settle, Idle
  <2> QED
    BY <1>4, <2>1, MoveReply
<1>5. CASE ReadPurchase(h) \/ ReadPurchaseFails(h)
  <2>1. \E pc \in {"find", "flag", "create"} : Goto(h, pc)
    BY <1>5 DEF ReadPurchase, ReadPurchaseFails, Pass
  <2>2. q.pc = "purchased" /\ UNCHANGED <<conversations, chats, jobs, early, before, failed>>
    BY <1>5 DEF ReadPurchase, ReadPurchaseFails, At, rows, environment
  <2> QED
    BY <1>3, <2>1, <2>2
<1>6. CASE FindNone(h)
  <2>1. /\ q.pc = "find" /\ UNCHANGED <<conversations, chats, jobs, early, before, failed>>
        /\ Settle(h) \/ Goto(h, "create")
    BY <1>6 DEF FindNone, At, rows, environment
  <2> QED
    BY <1>3, <1>4, <2>1
<1>7. CASE FindFirst(h)
  <2>1. PICK c \in Of(Pair(q)), pc \in {"mark", "save"} :
          /\ Set(h, [q EXCEPT !.pc = pc, !.conv = c])
          /\ pc = "mark" => q.from \in Tutors
    BY <1>7 DEF FindFirst
  <2>2. c \in Nat
    BY <2>1 DEF Of, IInv, TypeOK
  <2>3. PICK r \in Request : r = [q EXCEPT !.pc = pc, !.conv = c]
    BY <1>1, <2>2 DEF Request, PCs
  <2>4. Set(h, r) /\ r.pc = pc /\ r.from = q.from
    BY <1>1, <2>1, <2>3 DEF Request
  <2>5. q.pc = "find" /\ UNCHANGED <<conversations, chats, jobs, early, before, failed>>
    BY <1>7 DEF FindFirst, At, rows, environment
  <2> QED
    BY <2>1, <2>4, <2>5, MoveReply
<1>8. CASE FlagMessage(h) \/ Broadcast(h)
  BY <1>4, <1>8 DEF FlagMessage, Broadcast, At, rows, environment
<1>9. CASE CallFails(h)
  BY <1>4, <1>9 DEF CallFails, At, rows
<1>10. CASE CreateConversation(h)
  BY <1>10, CreateReply
<1>11. CASE StartReminder(h)
  BY <1>11, StartReply
<1>12. CASE MarkReplied(h)
  BY <1>12, MarkReply
<1>13. CASE StopReminder(h)
  BY <1>13, StopReply
<1>14. CASE SaveMessage(h)
  BY <1>14, SaveReply
<1> QED
  BY <1>2, <1>5, <1>6, <1>7, <1>8, <1>9, <1>10, <1>11, <1>12, <1>13, <1>14 DEF Continue

LEMMA NextReply ==
  ASSUME ChatAssumption, IInv, TalkInv, ReplyInv, [Next]_vars
  PROVE  ReplyInv'
<1>1. ASSUME NEW h \in Handlers, NEW from \in Users, NEW to \in Users, NEW clean \in BOOLEAN,
             Start(h, from, to, clean)
      PROVE  ReplyInv'
  <2>1. PICK r \in Request : r = [Idle EXCEPT !.pc = "sub", !.from = from, !.to = to,
                                              !.clean = clean]
    BY DEF Idle, Request, PCs
  <2>2. Set(h, r) /\ r.pc = "sub"
    BY <1>1, <2>1 DEF Start, Idle
  <2> QED
    BY <1>1, <2>2, MoveReply DEF Start, At, rows, environment
<1>2. CASE \E h \in Handlers, s \in Students, t \in Tutors, clean \in BOOLEAN :
             \/ MsgFromStudent(h, s, t, clean) \/ SendMsg(h, s, t, clean)
             \/ MsgFromTutor(h, t, s, clean)
  <2>1. Students \subseteq Users /\ Tutors \subseteq Users
    BY DEF Users
  <2> QED
    BY <1>1, <1>2, <2>1 DEF MsgFromStudent, SendMsg, MsgFromTutor
<1>3. CASE \E s \in Students, t \in Tutors : ApproveStudent(t, s)
  BY <1>3, ApproveReply
<1>4. CASE UNCHANGED vars
  BY <1>4, AsideReply DEF vars, rows, environment
<1>5. CASE Restart
  <2>1. /\ UNCHANGED <<conversations, chats, early, failed>> /\ jobs' = {}
        /\ before' = Len(conversations) /\ \A h \in Handlers : request'[h].pc = "idle"
    BY <1>5 DEF Restart, Idle, rows
  <2>2. \A c \in DOMAIN conversations : c <= before'
    BY <2>1 DEF IInv, TypeOK
  <2> QED
    BY <2>1, <2>2 DEF ReplyInv, ReplySaved, Unstarted, At
<1> QED
  BY <1>2, <1>3, <1>4, <1>5, HandlerReply, AsideReply, ElsewhereMoves

\* A reply and its reminder settle together, whatever overlaps: the tutor is reminded of
\* no conversation that is marked as replied but those replied to before the job began,
\* and one reply is saved, unless it came too early, its save failed or a restart
\* intervened.
THEOREM RepliesSettle == Spec => []ReplySettles
<1>1. Init => TalkInv /\ ReplyInv
  <2>1. ASSUME Init PROVE /\ DOMAIN conversations = {} /\ DOMAIN chats = {}
                          /\ \A h \in Handlers : request[h] = Idle
    BY <2>1 DEF Init
  <2> QED
    BY <2>1, IdleTalks DEF ReplyInv, ReplySaved, TalkInv, MessagesTalk, ApprovalOK, At, Idle
<1>2. IInv /\ TalkInv /\ [Next]_vars => TalkInv'
  BY NextTalks, ChatAssumption
<1>3. IInv /\ TalkInv /\ ReplyInv /\ [Next]_vars => ReplyInv'
  BY NextReply, ChatAssumption
<1>4. IInv /\ ReplyInv => ReplySettles
  BY DEF IInv, TypeOK, ReplyInv, ReplySettles, ReminderStops, Stopping
<1> QED
  BY <1>1, <1>2, <1>3, <1>4, SpecIInv, ChatAssumption, PTL DEF Spec

===============================================================================

--------------------------- MODULE SessionsProofs ---------------------------
(***************************************************************************)
(* Proofs about sessions, for any users, browsers, handlers and ages,      *)
(* whatever fails and whenever the process restarts.                       *)
(***************************************************************************)
EXTENDS Sessions, SequenceTheorems, TLAPS

(***************************************************************************)
(* The inductive invariant.  A request has a session in hand while it has  *)
(* signed a token that is not in the whitelist yet, be it a login or a     *)
(* renewal.  A session in hand belongs to one request and to no row.       *)
(***************************************************************************)
InHand(r) == r.pc \in {"sign", "insert"}

RequestOK(r) ==
  /\ r.pc = "idle" => r = Idle
  /\ r.pc # "idle" => r.user \in Users
  /\ InHand(r) => r.fresh \in Token
  /\ r.pc \in {"check", "sign"} => r.op = "login"
  /\ r.pc \in {"find", "delete"} => r.op # "login"

Over == ended \cup lost

RowsDistinct ==
  /\ \A r \in rows : r.login \in 1..Len(opened) /\ r.login \notin Over
  /\ \A r, s \in rows : r.login = s.login => r = s

HandsDistinct ==
  \A h \in Handlers : InHand(request[h]) =>
    /\ request[h].fresh.login \in 1..Len(opened)
    /\ request[h].fresh.login \notin Over
    /\ \A r \in rows : r.login # request[h].fresh.login
    /\ \A g \in Handlers : InHand(request[g]) /\ g # h =>
         request[g].fresh.login # request[h].fresh.login

IInv ==
  /\ TypeOK
  /\ \A h \in Handlers : RequestOK(request[h])
  /\ Over \subseteq 1..Len(opened)
  /\ RowsDistinct
  /\ HandsDistinct

\* The variables that no session depends on.
SurroundingsOK ==
  /\ now \in Nat
  /\ password \in [Users -> Nat]
  /\ resetting \in [Users -> BOOLEAN]
  /\ blocked \in [Users -> BOOLEAN]
  /\ cookie \in [Browsers -> Token \cup {NoToken}]
  /\ handshake \in [Browsers -> Token \cup {NoToken}]
  /\ stranded \subseteq Nat /\ spared \subseteq Nat /\ adrift \subseteq Nat
  /\ faults \in Nat /\ restarts \in Nat

sessions == <<rows, opened, ended, lost>>

\* What a step does to the abstract set of sessions.
AbstractStep == [Abstract!Next]_<<LiveSessions, Over>>

LEMMA IdleOK == Idle \in Request /\ RequestOK(Idle) /\ ~InHand(Idle)
BY DEF Idle, Request, Ops, PCs, RequestOK, InHand

LEMMA SetKeeps ==
  ASSUME IInv, NEW h \in Handlers, NEW r \in Request, RequestOK(r), Set(h, r)
  PROVE  /\ request' \in [Handlers -> Request]
         /\ \A g \in Handlers : RequestOK(request'[g])
         /\ request'[h] = r
         /\ \A g \in Handlers \ {h} : request'[g] = request[g]
BY DEF Set, IInv, TypeOK

\* The sessions held by renewals, as a membership test.
LEMMA HeldMember ==
  ASSUME NEW l
  PROVE  /\ l \in HeldBy(Handlers) <=>
              \E h \in Handlers : Renewing(request[h]) /\ l = request[h].fresh.login
         /\ l \in LiveSessions <=>
              \/ \E r \in rows : l = r.login
              \/ \E h \in Handlers : Renewing(request[h]) /\ l = request[h].fresh.login
BY DEF HeldBy, LiveSessions

LEMMA HeldMemberNext ==
  ASSUME NEW l
  PROVE  l \in LiveSessions' <=>
           \/ \E r \in rows' : l = r.login
           \/ \E h \in Handlers : Renewing(request'[h]) /\ l = request'[h].fresh.login
BY DEF HeldBy, LiveSessions, Renewing

\* A step in which no session changes hands.
LEMMA LocalStep ==
  ASSUME IInv, NEW h \in Handlers, NEW r \in Request, RequestOK(r), Set(h, r),
         InHand(r) <=> InHand(request[h]),
         InHand(r) => /\ r.fresh.login = request[h].fresh.login
                      /\ r.op = request[h].op
                      /\ r.pc = "insert" \/ r.op = "login",
         UNCHANGED sessions, SurroundingsOK'
  PROVE  IInv' /\ AbstractStep
<1>1. /\ request' \in [Handlers -> Request]
      /\ \A g \in Handlers : RequestOK(request'[g])
      /\ request'[h] = r
      /\ \A g \in Handlers \ {h} : request'[g] = request[g]
  BY SetKeeps
<1>2. TypeOK'
  BY <1>1 DEF IInv, TypeOK, SurroundingsOK, sessions
<1>3. HandsDistinct'
  BY <1>1 DEF IInv, HandsDistinct, InHand, sessions, Over
<1>4. (RowsDistinct /\ Over \subseteq 1..Len(opened))'
  BY DEF IInv, RowsDistinct, sessions, Over
<1>5. IInv'
  BY <1>1, <1>2, <1>3, <1>4 DEF IInv, RequestOK, InHand
<1>6. ASSUME NEW g \in Handlers
      PROVE  /\ Renewing(request'[g]) <=> Renewing(request[g])
             /\ Renewing(request[g]) => request'[g].fresh.login = request[g].fresh.login
  BY <1>1 DEF Renewing, InHand, RequestOK, IInv
<1>7. ASSUME NEW l PROVE l \in LiveSessions' <=> l \in LiveSessions
  BY <1>6, HeldMember, HeldMemberNext DEF sessions
<1>8. LiveSessions' = LiveSessions
  BY <1>7
<1> QED
  BY <1>5, <1>8 DEF AbstractStep, sessions, Over

\* A step that leaves the requests alone.
LEMMA StillStep ==
  ASSUME IInv, UNCHANGED <<request, sessions>>, SurroundingsOK'
  PROVE  IInv' /\ AbstractStep
<1>1. IInv'
  BY DEF IInv, TypeOK, SurroundingsOK, sessions, RowsDistinct, HandsDistinct, Over,
         RequestOK, InHand
<1>2. ASSUME NEW l PROVE l \in LiveSessions' <=> l \in LiveSessions
  BY HeldMember, HeldMemberNext DEF sessions
<1>3. LiveSessions' = LiveSessions
  BY <1>2
<1> QED
  BY <1>1, <1>3 DEF AbstractStep, sessions, Over

LEMMA SurroundingsKept ==
  ASSUME IInv, UNCHANGED <<now, accounts, clients, stranded, spared, adrift, environment>>
  PROVE  SurroundingsOK'
BY DEF IInv, TypeOK, SurroundingsOK, accounts, clients, environment

\* A request arrives: it has no session in hand yet.
LEMMA ArriveStep ==
  ASSUME IInv, NEW h \in Handlers, NEW r \in Request, At(h, "idle"), Set(h, r),
         r.pc \in {"check", "find", "compare"}, r.user \in Users,
         r.pc = "check" => r.op = "login", r.pc = "find" => r.op # "login",
         UNCHANGED sessions, SurroundingsOK'
  PROVE  IInv' /\ AbstractStep
<1>1. RequestOK(r) /\ ~InHand(r) /\ ~InHand(request[h])
  BY DEF RequestOK, InHand, At
<1> QED
  BY <1>1, LocalStep

LEMMA NewIsRequest ==
  ASSUME IInv, NEW op \in Ops, NEW pc \in PCs, NEW u \in Users
  PROVE  /\ New(op, pc, u) \in Request
         /\ New(op, pc, u).pc = pc
         /\ New(op, pc, u).user = u
         /\ New(op, pc, u).op = op
<1>1. now \in Nat
  BY DEF IInv, TypeOK
<1> QED
  BY <1>1, IdleOK DEF New, Request

LEMMA RequestsArrive ==
  ASSUME IInv, NEW h \in Handlers, NEW b \in Browsers, NEW u \in Users,
         \/ Login(h, b, u) \/ Call(h, b) \/ SignOut(h, b) \/ UpdatePassword(h, b)
         \/ Connect(h, b) \/ SocketMessage(h, b)
  PROVE  IInv' /\ AbstractStep
<1>t. /\ cookie[b] \in Token \cup {NoToken}
      /\ handshake[b] \in Token \cup {NoToken}
      /\ \A v \in Users : password[v] \in Nat
  BY DEF IInv, TypeOK
<1>o. /\ {"login", "call", "signout", "change", "socket", "reset"} \subseteq Ops
      /\ {"check", "find", "compare"} \subseteq PCs
  BY DEF Ops, PCs
<1>1. CASE Login(h, b, u)
  <2> DEFINE r == [New("login", "check", u) EXCEPT !.browser = b, !.pw = password[u]]
  <2>n. PICK n \in Request : /\ n = New("login", "check", u)
                              /\ n.pc = "check" /\ n.user = u /\ n.op = "login"
    BY <1>o, NewIsRequest
  <2>1. r \in Request /\ r.pc = "check" /\ r.op = "login" /\ r.user \in Users
    <3>1. password[u] \in Nat
      BY <1>t
    <3>2. LET m == [n EXCEPT !.browser = b, !.pw = password[u]]
          IN  m \in Request /\ m.pc = n.pc /\ m.user = n.user /\ m.op = n.op
      BY <3>1 DEF Request
    <3> QED
      BY <2>n, <3>2
  <2>2. At(h, "idle") /\ Set(h, r) /\ UNCHANGED sessions /\ SurroundingsOK'
    BY <1>1, SurroundingsKept DEF Login, sessions, history
  <2> HIDE DEF r
  <2> QED
    BY <2>1, <2>2, ArriveStep
<1>2. ASSUME NEW op \in {"call", "signout", "change"}, Arrive(h, b, op)
      PROVE  IInv' /\ AbstractStep
  <2> DEFINE t == cookie[b]
             r == [New(op, "find", t.user) EXCEPT !.browser = b, !.token = t,
                                !.pw = IF op = "change" THEN password[t.user] ELSE 0]
  <2>1. t \in Token /\ t.user \in Users
    BY <1>2, <1>t DEF Arrive, Verifies, Token
  <2>2. r \in Request /\ r.pc = "find" /\ r.op # "login" /\ r.user \in Users
    <3>n. PICK n \in Request : /\ n = New(op, "find", t.user)
                                /\ n.pc = "find" /\ n.user = t.user /\ n.op = op
      BY <2>1, <1>o, NewIsRequest
    <3>1. (IF op = "change" THEN password[t.user] ELSE 0) \in Nat
      BY <2>1, <1>t
    <3>2. \A p \in Nat : LET m == [n EXCEPT !.browser = b, !.token = t, !.pw = p]
                          IN  /\ m \in Request /\ m.pc = n.pc
                              /\ m.user = n.user /\ m.op = n.op
      BY <2>1 DEF Request
    <3> QED
      BY <2>1, <3>1, <3>2, <3>n
  <2>3. At(h, "idle") /\ Set(h, r) /\ UNCHANGED sessions /\ SurroundingsOK'
    BY <1>2, SurroundingsKept DEF Arrive, sessions, history
  <2> HIDE DEF r, t
  <2> QED
    BY <2>2, <2>3, ArriveStep
<1>3. ASSUME NEW t \in Token \cup {NoToken}, SocketRequest(h, b, t), UNCHANGED sessions,
             SurroundingsOK'
      PROVE  IInv' /\ AbstractStep
  <2> DEFINE r == [New("socket", "find", t.user) EXCEPT !.browser = b, !.token = t]
  <2>1. t \in Token /\ t.user \in Users
    BY <1>3 DEF SocketRequest, Verifies, Token
  <2>2. r \in Request /\ r.pc = "find" /\ r.op # "login" /\ r.user \in Users
    <3>n. PICK n \in Request : /\ n = New("socket", "find", t.user)
                                /\ n.pc = "find" /\ n.user = t.user /\ n.op = "socket"
      BY <2>1, <1>o, NewIsRequest
    <3>2. LET m == [n EXCEPT !.browser = b, !.token = t]
          IN  m \in Request /\ m.pc = n.pc /\ m.user = n.user /\ m.op = n.op
      BY <2>1 DEF Request
    <3> QED
      BY <2>1, <3>2, <3>n
  <2>3. At(h, "idle") /\ Set(h, r)
    BY <1>3 DEF SocketRequest
  <2> HIDE DEF r
  <2> QED
    BY <2>2, <2>3, <1>3, ArriveStep
<1>4. CASE Connect(h, b)
  <2>1. UNCHANGED sessions
    BY <1>4 DEF Connect, sessions, history
  <2>2. SurroundingsOK'
    BY <1>4, <1>t DEF Connect, IInv, TypeOK, SurroundingsOK, accounts, history, environment
  <2> QED
    BY <2>1, <2>2, <1>3, <1>4, <1>t DEF Connect
<1>5. CASE SocketMessage(h, b)
  <2>1. UNCHANGED sessions /\ SurroundingsOK'
    BY <1>5, SurroundingsKept DEF SocketMessage, sessions, history
  <2> QED
    BY <2>1, <1>3, <1>5, <1>t DEF SocketMessage
<1> QED
  BY <1>1, <1>2, <1>4, <1>5 DEF Call, SignOut, UpdatePassword

LEMMA ResetArrives ==
  ASSUME IInv, NEW h \in Handlers, NEW u \in Users, ResetPassword(h, u)
  PROVE  IInv' /\ AbstractStep
<1>1. "reset" \in Ops /\ "compare" \in PCs
  BY DEF Ops, PCs
<1>c. PICK code \in {0, 1} : Set(h, [New("reset", "compare", u) EXCEPT !.pw = code])
  BY DEF ResetPassword
<1> DEFINE r == [New("reset", "compare", u) EXCEPT !.pw = code]
<1>2. r \in Request /\ r.pc = "compare" /\ r.user \in Users
  BY <1>1, NewIsRequest DEF Request
<1>3. At(h, "idle") /\ Set(h, r) /\ UNCHANGED sessions /\ SurroundingsOK'
  BY <1>c, SurroundingsKept DEF ResetPassword, sessions, history
<1> HIDE DEF r
<1> QED
  BY <1>2, <1>3, ArriveStep

\* The steps outside of requests.
LEMMA DisconnectStep ==
  ASSUME IInv, NEW b \in Browsers, Disconnect(b)
  PROVE  IInv' /\ AbstractStep
<1>1. UNCHANGED <<request, sessions>>
  BY DEF Disconnect, sessions, history
<1> QED
  BY <1>1, StillStep
     DEF Disconnect, IInv, TypeOK, SurroundingsOK, accounts, history, environment

LEMMA AccountStep ==
  ASSUME IInv, NEW u \in Users, NEW status \in BOOLEAN,
         ForgotPassword(u) \/ UpdateBlockStatus(u, status)
  PROVE  IInv' /\ AbstractStep
<1>1. UNCHANGED <<request, sessions>>
  BY DEF ForgotPassword, UpdateBlockStatus, sessions, history
<1>2. SurroundingsOK'
  BY DEF ForgotPassword, UpdateBlockStatus, IInv, TypeOK, SurroundingsOK, clients,
         history, environment
<1> QED
  BY <1>1, <1>2, StillStep

LEMMA TickStep ==
  ASSUME IInv, Tick
  PROVE  IInv' /\ AbstractStep
<1>1. UNCHANGED <<request, sessions>>
  BY DEF Tick, sessions, history
<1> QED
  BY <1>1, StillStep
     DEF Tick, IInv, TypeOK, SurroundingsOK, accounts, clients, history, environment

\* A request without a session in hand is done, or goes on.
LEMMA IdleStep ==
  ASSUME IInv, NEW h \in Handlers, Set(h, Idle), ~InHand(request[h]),
         UNCHANGED sessions, SurroundingsOK'
  PROVE  IInv' /\ AbstractStep
BY IdleOK, LocalStep

LEMMA GotoStep ==
  ASSUME IInv, NEW h \in Handlers,
         NEW pc \in PCs \ {"idle", "check", "find", "sign", "insert"},
         pc = "delete" => request[h].op # "login",
         Goto(h, pc), ~InHand(request[h]), ~At(h, "idle"), UNCHANGED sessions, SurroundingsOK'
  PROVE  IInv' /\ AbstractStep
<1>1. PICK r \in Request : r = request[h]
  BY DEF IInv, TypeOK
<1>2. RequestOK(r) /\ r.pc # "idle"
  BY <1>1 DEF IInv, At
<1> DEFINE s == [r EXCEPT !.pc = pc]
<1>3. s \in Request /\ s.pc = pc /\ s.user = r.user /\ s.op = r.op
  BY DEF Request
<1>4. RequestOK(s) /\ ~InHand(s)
  BY <1>1, <1>2, <1>3 DEF RequestOK, InHand
<1>5. Set(h, s)
  BY <1>1 DEF Goto
<1> HIDE DEF s
<1> QED
  BY <1>3, <1>4, <1>5, LocalStep

LEMMA SettleStep ==
  ASSUME IInv, NEW h \in Handlers, Settle(h), ~InHand(request[h]), ~At(h, "idle"),
         UNCHANGED sessions, SurroundingsOK'
  PROVE  IInv' /\ AbstractStep
<1>1. "reply" \in PCs \ {"idle", "check", "find", "sign", "insert"}
  BY DEF PCs
<1> QED
  BY <1>1, IdleStep, GotoStep DEF Settle

LEMMA QuietSteps ==
  ASSUME IInv, NEW h \in Handlers,
         \/ FindToken(h) \/ LoadUser(h) \/ Compare(h) \/ WritePassword(h) \/ Reply(h)
  PROVE  IInv' /\ AbstractStep
<1>p. /\ {"delete", "load", "write", "purge", "signout", "compare"}
           \subseteq PCs \ {"idle", "check", "find", "sign", "insert"}
      /\ \A op \in DOMAIN AfterLoad : AfterLoad[op] \in {"signout", "compare"}
  BY DEF PCs, AfterLoad
<1>1. UNCHANGED sessions
  BY DEF FindToken, LoadUser, Compare, WritePassword, Reply, sessions, history
<1>2. CASE FindToken(h)
  <2>1. /\ SurroundingsOK' /\ ~InHand(request[h]) /\ ~At(h, "idle")
        /\ request[h].op # "login"
    BY <1>2, SurroundingsKept DEF FindToken, history, InHand, At, IInv, RequestOK
  <2>2. Set(h, Idle) \/ Goto(h, "delete") \/ Goto(h, "load")
    <3>2. ASSUME RowsOf(request[h].token) # {}
          PROVE  \/ now - request[h].token.iat > RefreshAge
                 \/ now - request[h].token.iat <= RefreshAge
      <4>1. PICK r \in rows : r.iat = request[h].token.iat
        BY <3>2 DEF RowsOf, SameString
      <4>2. request[h].token.iat \in Nat /\ now \in Nat /\ RefreshAge \in Nat
        BY <4>1, SessionsAssumption DEF IInv, TypeOK, Token
      <4> QED
        BY <4>2
    <3> QED
      BY <1>2, <3>2 DEF FindToken
  <2> QED
    BY <1>1, <1>p, <2>1, <2>2, IdleStep, GotoStep
<1>3. CASE LoadUser(h)
  <2>1. SurroundingsOK' /\ ~InHand(request[h]) /\ ~At(h, "idle")
    BY <1>3, SurroundingsKept DEF LoadUser, history, InHand, At
  <2>2. Settle(h) \/ Goto(h, "signout") \/ Goto(h, "compare")
    BY <1>3, <1>p DEF LoadUser
  <2> QED
    BY <1>1, <1>p, <2>1, <2>2, SettleStep, GotoStep
<1>4. CASE Compare(h)
  <2>1. SurroundingsOK' /\ ~InHand(request[h]) /\ ~At(h, "idle")
    BY <1>4, SurroundingsKept DEF Compare, history, InHand, At
  <2>2. Settle(h) \/ Goto(h, "write")
    BY <1>4 DEF Compare
  <2> QED
    BY <1>1, <1>p, <2>1, <2>2, SettleStep, GotoStep
<1>5. CASE WritePassword(h)
  <2>1. Goto(h, "purge") /\ ~InHand(request[h]) /\ ~At(h, "idle")
    BY <1>5 DEF WritePassword, InHand, At
  <2>2. resetting' \in [Users -> BOOLEAN]
    BY <1>5 DEF WritePassword, IInv, TypeOK
  <2>3. password' \in [Users -> Nat]
    <3>1. request[h].user \in Users
      BY <1>5 DEF WritePassword, IInv, RequestOK, At
    <3> QED
      BY <1>5, <3>1 DEF WritePassword, IInv, TypeOK
  <2>4. SurroundingsOK'
    BY <1>5, <2>2, <2>3
       DEF WritePassword, IInv, TypeOK, SurroundingsOK, clients, history, environment
  <2> QED
    BY <1>1, <1>p, <2>1, <2>4, GotoStep
<1>6. CASE Reply(h)
  <2>1. Set(h, Idle) /\ ~InHand(request[h])
    BY <1>6 DEF Reply, InHand
  <2>2. request[h].fresh \in Token \cup {NoToken}
    BY DEF IInv, TypeOK, Request
  <2>3. SurroundingsOK'
    BY <1>6, <2>2 DEF Reply, IInv, TypeOK, SurroundingsOK, accounts, history, environment
  <2> QED
    BY <1>1, <2>1, <2>3, IdleStep
<1> QED
  BY <1>2, <1>3, <1>4, <1>5, <1>6

\* Where a step that moves one request leaves the set of live sessions.
LEMMA LiveAfterSet ==
  ASSUME IInv, NEW h \in Handlers, NEW r \in Request, RequestOK(r), Set(h, r), NEW l
  PROVE  l \in LiveSessions' <=>
           \/ \E row \in rows' : l = row.login
           \/ Renewing(r) /\ l = r.fresh.login
           \/ \E g \in Handlers \ {h} : Renewing(request[g]) /\ l = request[g].fresh.login
<1>1. request'[h] = r /\ \A g \in Handlers \ {h} : request'[g] = request[g]
  BY SetKeeps
<1> QED
  BY <1>1, HeldMemberNext

LEMMA LoginSteps ==
  ASSUME IInv, NEW h \in Handlers, CheckCredentials(h) \/ SignToken(h)
  PROVE  IInv' /\ AbstractStep
<1>r. PICK r \in Request : r = request[h] /\ RequestOK(r)
  BY DEF IInv, TypeOK
<1>n. now \in Nat /\ opened \in Seq(Nat) /\ Len(opened) \in Nat
  BY LenProperties DEF IInv, TypeOK
<1>s. SurroundingsOK'
  BY SurroundingsKept DEF CheckCredentials, SignToken, history
<1>1. CASE SignToken(h)
  <2> DEFINE s == [r EXCEPT !.pc = "insert", !.fresh.iat = now]
  <2>1. r.pc = "sign" /\ r.op = "login" /\ r.user \in Users /\ r.fresh \in Token
    BY <1>1, <1>r DEF SignToken, At, RequestOK, InHand
  <2>2. /\ s \in Request /\ s.pc = "insert" /\ s.op = r.op /\ s.user = r.user
        /\ s.fresh \in Token /\ s.fresh.login = r.fresh.login
    BY <2>1, <1>n DEF Request, Token, PCs
  <2>3. RequestOK(s) /\ InHand(s) /\ InHand(r)
    BY <2>1, <2>2 DEF RequestOK, InHand
  <2>4. Set(h, s) /\ UNCHANGED sessions
    BY <1>1, <1>r DEF SignToken, sessions, history
  <2> HIDE DEF s
  <2> QED
    BY <2>1, <2>2, <2>3, <2>4, <1>r, <1>s, LocalStep
<1>2. CASE CheckCredentials(h) /\ Set(h, Idle) /\ UNCHANGED opened
  <2>1. ~InHand(request[h]) /\ UNCHANGED sessions
    BY <1>2 DEF CheckCredentials, At, InHand, sessions
  <2> QED
    BY <1>2, <1>s, <2>1, IdleStep
<1>3. CASE /\ CheckCredentials(h)
           /\ Set(h, [r EXCEPT !.pc = "sign",
                               !.fresh = [user |-> r.user, iat |-> now,
                                          login |-> Len(opened) + 1]])
           /\ opened' = Append(opened, r.pw)
  <2> DEFINE t == [user |-> r.user, iat |-> now, login |-> Len(opened) + 1]
             s == [r EXCEPT !.pc = "sign", !.fresh = t]
  <2>1. r.pc = "check" /\ r.op = "login" /\ r.user \in Users
    BY <1>3, <1>r DEF CheckCredentials, At, RequestOK
  <2>2. t \in Token /\ t.login = Len(opened) + 1
    BY <2>1, <1>n DEF Token
  <2> HIDE DEF t
  <2>3. s \in Request /\ s.pc = "sign" /\ s.op = "login" /\ s.user = r.user /\ s.fresh = t
    BY <2>1, <2>2 DEF Request, PCs
  <2>4. RequestOK(s) /\ InHand(s) /\ ~InHand(r) /\ ~Renewing(r) /\ ~Renewing(s)
    BY <2>1, <2>2, <2>3 DEF RequestOK, InHand, Renewing
  <2>5. Set(h, s) /\ UNCHANGED <<rows, ended, lost>>
    BY <1>3, <1>r DEF CheckCredentials, t
  <2> HIDE DEF s
  <2>6. opened' \in Seq(Nat) /\ Len(opened') = Len(opened) + 1
    <3>1. r.pw \in Nat
      BY DEF Request
    <3> QED
      BY <1>3, <1>n, <3>1, AppendProperties
  <2>7. /\ request' \in [Handlers -> Request]
        /\ \A g \in Handlers : RequestOK(request'[g])
        /\ request'[h] = s
        /\ \A g \in Handlers \ {h} : request'[g] = request[g]
    BY <2>3, <2>4, <2>5, SetKeeps
  <2>8. TypeOK'
    BY <1>s, <2>5, <2>6, <2>7 DEF IInv, TypeOK, SurroundingsOK
  <2>9. (Over \subseteq 1..Len(opened) /\ RowsDistinct)'
    BY <1>n, <2>5, <2>6 DEF IInv, RowsDistinct, Over
  <2>10. HandsDistinct'
    <3>1. Len(opened) + 1 \notin Over /\ \A row \in rows : row.login # Len(opened) + 1
      BY <1>n DEF IInv, RowsDistinct
    <3>2. \A g \in Handlers \ {h} : InHand(request[g]) =>
             request[g].fresh.login \in 1..Len(opened)
      BY DEF IInv, HandsDistinct
    <3> QED
      BY <1>n, <2>2, <2>3, <2>4, <2>5, <2>6, <2>7, <3>1, <3>2
         DEF IInv, HandsDistinct, Over
  <2>11. ASSUME NEW l PROVE l \in LiveSessions' <=> l \in LiveSessions
    BY <1>r, <2>3, <2>4, <2>5, LiveAfterSet, HeldMember
  <2>12. LiveSessions' = LiveSessions
    BY <2>11
  <2> QED
    BY <2>5, <2>7, <2>8, <2>9, <2>10, <2>12 DEF IInv, RequestOK, InHand, AbstractStep, Over
<1> QED
  BY <1>1, <1>2, <1>3, <1>r DEF CheckCredentials

\* A step that changes the rows, one request and what is over.
LEMMA PointStep ==
  ASSUME IInv, NEW h \in Handlers, NEW r \in Request, RequestOK(r), Set(h, r),
         SurroundingsOK', UNCHANGED opened,
         rows' \subseteq Token, ended' \subseteq Nat, lost' \subseteq Nat,
         Over' \subseteq 1..Len(opened), RowsDistinct',
         InHand(r) => /\ r.fresh.login \in 1..Len(opened)
                      /\ r.fresh.login \notin Over'
                      /\ \A row \in rows' : row.login # r.fresh.login,
         \A g \in Handlers \ {h} : InHand(request[g]) =>
           /\ request[g].fresh.login \notin Over'
           /\ \A row \in rows' : row.login # request[g].fresh.login
           /\ InHand(r) => request[g].fresh.login # r.fresh.login
  PROVE  IInv'
<1>1. /\ request' \in [Handlers -> Request]
      /\ \A g \in Handlers : RequestOK(request'[g])
      /\ request'[h] = r
      /\ \A g \in Handlers \ {h} : request'[g] = request[g]
  BY SetKeeps
<1>2. TypeOK'
  BY <1>1 DEF IInv, TypeOK, SurroundingsOK
<1>3. HandsDistinct'
  BY <1>1 DEF IInv, HandsDistinct, InHand
<1> QED
  BY <1>1, <1>2, <1>3 DEF IInv, RequestOK, InHand

\* What the invariant says of two sessions, row or in hand.
LEMMA Apart ==
  ASSUME IInv, NEW h \in Handlers
  PROVE  /\ rows \subseteq Token /\ ended \subseteq Nat /\ lost \subseteq Nat
         /\ Over \subseteq 1..Len(opened)
         /\ \A r \in rows : r.login \in Nat /\ r.login \in 1..Len(opened) /\ r.login \notin Over
         /\ \A r, s \in rows : r.login = s.login => r = s
         /\ InHand(request[h]) =>
              /\ request[h].fresh \in Token /\ request[h].fresh.login \in Nat
              /\ request[h].fresh.login \in 1..Len(opened)
              /\ request[h].fresh.login \notin Over
              /\ \A r \in rows : r.login # request[h].fresh.login
         /\ \A g \in Handlers \ {h} : InHand(request[g]) /\ InHand(request[h]) =>
              request[g].fresh.login # request[h].fresh.login
         /\ \A g \in Handlers : InHand(request[g]) =>
              /\ request[g].fresh.login \notin Over
              /\ \A r \in rows : r.login # request[g].fresh.login
BY DEF IInv, TypeOK, RowsDistinct, HandsDistinct, RequestOK, Token

LEMMA DeleteTokenStep ==
  ASSUME IInv, NEW h \in Handlers, DeleteToken(h)
  PROVE  IInv' /\ AbstractStep
<1>r. PICK r \in Request : r = request[h] /\ RequestOK(r)
  BY DEF IInv, TypeOK
<1>a. adrift' \subseteq Nat
  <2>1. \A old \in RowsOf(r.token) : old.login \in Nat
    BY Apart DEF RowsOf
  <2>2. adrift \subseteq Nat
    BY DEF IInv, TypeOK
  <2>3. adrift' = adrift \/ \E old \in RowsOf(r.token) : adrift' \subseteq adrift \cup {old.login}
    BY <1>r DEF DeleteToken
  <2> QED
    BY <2>1, <2>2, <2>3
<1>s. SurroundingsOK' /\ UNCHANGED <<opened, ended, lost>>
  BY <1>a DEF DeleteToken, SurroundingsOK, IInv, TypeOK, accounts, clients, environment
<1>d. r.pc = "delete" /\ r.op # "login" /\ r.user \in Users /\ ~InHand(request[h])
  BY <1>r DEF DeleteToken, At, RequestOK, InHand
<1>1. CASE RowsOf(r.token) = {} /\ Set(h, Idle) /\ UNCHANGED rows
  BY <1>1, <1>s, <1>d, IdleStep DEF sessions
<1>2. ASSUME NEW old \in RowsOf(r.token), rows' = rows \ {old},
             Set(h, [r EXCEPT !.pc = "insert",
                              !.fresh = [user |-> r.user, iat |-> now, login |-> old.login]])
      PROVE  IInv' /\ AbstractStep
  <2> DEFINE t == [user |-> r.user, iat |-> now, login |-> old.login]
             s == [r EXCEPT !.pc = "insert", !.fresh = t]
  <2>1. old \in rows /\ old \in Token
    BY <1>2, Apart DEF RowsOf
  <2>2. t \in Token /\ t.login = old.login
    BY <1>d, <2>1 DEF Token, IInv, TypeOK
  <2> HIDE DEF t
  <2>3. s \in Request /\ s.pc = "insert" /\ s.op = r.op /\ s.user = r.user /\ s.fresh = t
    BY <2>2 DEF Request, PCs
  <2>4. Set(h, s)
    BY <1>2 DEF t
  <2> HIDE DEF s
  <2>5. RequestOK(s) /\ InHand(s) /\ Renewing(s) /\ ~Renewing(r)
    BY <1>d, <2>2, <2>3 DEF RequestOK, InHand, Renewing
  <2>6. Over' = Over
    BY <1>s DEF Over
  <2>7. rows' \subseteq Token /\ RowsDistinct'
    BY <1>2, <1>s, <2>6, Apart DEF RowsDistinct
  <2>8. IInv'
    BY <1>s, <1>2, <2>1, <2>2, <2>3, <2>4, <2>5, <2>6, <2>7, PointStep, Apart
  <2>9. ASSUME NEW l PROVE l \in LiveSessions' <=> l \in LiveSessions
    BY <1>r, <1>2, <2>1, <2>2, <2>3, <2>4, <2>5, LiveAfterSet, HeldMember
  <2>10. LiveSessions' = LiveSessions
    BY <2>9
  <2> QED
    BY <2>6, <2>8, <2>10 DEF AbstractStep
<1> QED
  BY <1>1, <1>2, <1>r DEF DeleteToken

\* deleteToken of logout.
LEMMA DeletePresentedStep ==
  ASSUME IInv, NEW h \in Handlers, DeletePresented(h)
  PROVE  IInv' /\ AbstractStep
<1>r. PICK r \in Request : r = request[h] /\ RequestOK(r)
  BY DEF IInv, TypeOK
<1>s. SurroundingsOK' /\ UNCHANGED <<opened, lost>>
  BY SurroundingsKept DEF DeletePresented, history
<1>d. r.pc = "signout" /\ r.user \in Users /\ ~InHand(r) /\ ~At(h, "idle")
  BY <1>r DEF DeletePresented, At, RequestOK, InHand
<1>1. CASE RowsOf(r.token) = {} /\ Settle(h) /\ UNCHANGED <<rows, ended>>
  BY <1>1, <1>r, <1>s, <1>d, SettleStep DEF sessions
<1>2. ASSUME NEW old \in RowsOf(r.token), rows' = rows \ {old},
             ended' = ended \cup {old.login}, Goto(h, "clear")
      PROVE  IInv' /\ AbstractStep
  <2> DEFINE s == [r EXCEPT !.pc = "clear"]
  <2>1. old \in rows /\ old \in Token
    BY <1>2, Apart DEF RowsOf
  <2>3. s \in Request /\ s.pc = "clear" /\ s.user = r.user
    BY DEF Request, PCs
  <2>4. Set(h, s)
    BY <1>2, <1>r DEF Goto
  <2> HIDE DEF s
  <2>5. RequestOK(s) /\ ~InHand(s) /\ ~Renewing(s) /\ ~Renewing(r)
    BY <1>d, <2>3 DEF RequestOK, InHand, Renewing
  <2>6. Over' = Over \cup {old.login} /\ Over' \subseteq 1..Len(opened)
    BY <1>s, <1>2, <2>1, Apart DEF Over
  <2>7. rows' \subseteq Token /\ RowsDistinct' /\ ended' \subseteq Nat /\ lost' \subseteq Nat
    BY <1>2, <1>s, <2>1, <2>6, Apart DEF RowsDistinct
  <2>8. IInv'
    BY <1>s, <1>2, <2>1, <2>3, <2>4, <2>5, <2>6, <2>7, PointStep, Apart
  <2>9. ASSUME NEW l PROVE l \in LiveSessions' <=> l \in LiveSessions /\ l # old.login
    <3>1. \A g \in Handlers : Renewing(request[g]) => request[g].fresh.login # old.login
      BY <2>1, Apart DEF Renewing, InHand
    <3> QED
      BY <1>r, <1>2, <2>1, <2>3, <2>4, <2>5, <3>1, LiveAfterSet, HeldMember, Apart
  <2>10. LiveSessions' = LiveSessions \ {old.login} /\ old.login \in LiveSessions
    BY <2>1, <2>9, HeldMember
  <2>11. Abstract!Close
    BY <2>6, <2>10 DEF Abstract!Close, Over
  <2> QED
    BY <2>8, <2>11 DEF AbstractStep, Abstract!Next
<1> QED
  BY <1>1, <1>2, <1>r DEF DeletePresented

\* A request with a session in hand fails: a login opens none, a renewal loses its own.
LEMMA LoseStep ==
  ASSUME IInv, NEW h \in Handlers, InHand(request[h]), Set(h, Idle),
         lost' = lost \cup HeldBy({h}), UNCHANGED <<rows, opened, ended>>, SurroundingsOK'
  PROVE  IInv' /\ AbstractStep
<1>r. PICK r \in Request : r = request[h] /\ RequestOK(r)
  BY DEF IInv, TypeOK
<1>1. \A l : l \in HeldBy({h}) <=> Renewing(r) /\ l = r.fresh.login
  BY <1>r DEF HeldBy, Renewing
<1>2. HeldBy({h}) \subseteq {r.fresh.login} /\ r.fresh.login \in Nat
  <2>1. HeldBy({h}) \subseteq {r.fresh.login}
    BY <1>1
  <2>2. r.fresh.login \in Nat
    BY <1>r, Apart
  <2> QED
    BY <2>1, <2>2
<1>3. Over' = Over \cup HeldBy({h}) /\ Over' \subseteq 1..Len(opened)
  <2>1. Over' = Over \cup HeldBy({h})
    BY DEF Over
  <2>2. r.fresh.login \in 1..Len(opened) /\ Over \subseteq 1..Len(opened)
    BY <1>r, Apart
  <2> QED
    BY <1>2, <2>1, <2>2
<1>4. RowsDistinct'
  BY <1>2, <1>3, <1>r, Apart DEF RowsDistinct
<1>5. \A g \in Handlers \ {h} : InHand(request[g]) =>
        /\ request[g].fresh.login \notin Over'
        /\ \A row \in rows' : row.login # request[g].fresh.login
  BY <1>2, <1>3, <1>r, Apart
<1>6. IInv'
  <2>1. lost' \subseteq Nat
    BY <1>2, Apart
  <2> QED
    BY <1>3, <1>4, <1>5, <2>1, IdleOK, PointStep, Apart
<1>7. ~Renewing(Idle)
  BY DEF Idle, Renewing
<1>8. ASSUME NEW l
      PROVE  l \in LiveSessions' <=> l \in LiveSessions /\ l \notin HeldBy({h})
  <2>1. \A g \in Handlers \ {h} : Renewing(request[g]) => request[g].fresh.login # r.fresh.login
    BY <1>r, Apart DEF Renewing, InHand
  <2>2. \A row \in rows : row.login # r.fresh.login
    BY <1>r, Apart
  <2>3. l \in LiveSessions' <=>
           \/ \E row \in rows : l = row.login
           \/ \E g \in Handlers \ {h} : Renewing(request[g]) /\ l = request[g].fresh.login
    BY <1>7, IdleOK, LiveAfterSet
  <2> QED
    BY <1>1, <1>r, <2>1, <2>2, <2>3, HeldMember
<1>9. LiveSessions' = LiveSessions \ HeldBy({h}) /\ HeldBy({h}) \subseteq LiveSessions
  <2>1. HeldBy({h}) \subseteq LiveSessions
    BY DEF HeldBy, LiveSessions
  <2> QED
    BY <1>8, <2>1
<1>10. Abstract!Close
  BY <1>3, <1>9 DEF Abstract!Close, Over
<1> QED
  BY <1>6, <1>10 DEF AbstractStep, Abstract!Next

LEMMA InsertTokenStep ==
  ASSUME IInv, NEW h \in Handlers, InsertToken(h)
  PROVE  IInv' /\ AbstractStep
<1>r. PICK r \in Request : r = request[h] /\ RequestOK(r)
  BY DEF IInv, TypeOK
<1>s. SurroundingsOK' /\ UNCHANGED <<opened, ended>>
  BY SurroundingsKept DEF InsertToken, history
<1>d. r.pc = "insert" /\ r.user \in Users /\ InHand(r)
  BY <1>r DEF InsertToken, At, RequestOK, InHand
<1>f. r.fresh \in Token /\ r.fresh.login \in Nat
  BY <1>r, <1>d, Apart
<1>1. CASE rows' = rows \cup {r.fresh} /\ UNCHANGED lost
  <2>1. PICK s \in Request : /\ Set(h, s) /\ RequestOK(s) /\ ~InHand(s) /\ ~Renewing(s)
    <3>1. CASE Set(h, [r EXCEPT !.pc = "reply"])
      <4>1. LET s == [r EXCEPT !.pc = "reply"]
            IN  s \in Request /\ s.pc = "reply" /\ s.user = r.user
        BY DEF Request, PCs
      <4> QED
        BY <1>d, <3>1, <4>1 DEF RequestOK, InHand, Renewing
    <3>2. CASE Set(h, [r EXCEPT !.pc = "load", !.fresh = NoToken])
      <4>1. LET s == [r EXCEPT !.pc = "load", !.fresh = NoToken]
            IN  s \in Request /\ s.pc = "load" /\ s.user = r.user
        BY DEF Request, PCs
      <4> QED
        BY <1>d, <3>2, <4>1 DEF RequestOK, InHand, Renewing
    <3>3. CASE Set(h, [r EXCEPT !.pc = "load"])
      <4>1. LET s == [r EXCEPT !.pc = "load"]
            IN  s \in Request /\ s.pc = "load" /\ s.user = r.user
        BY DEF Request, PCs
      <4> QED
        BY <1>d, <3>3, <4>1 DEF RequestOK, InHand, Renewing
    <3>4. RowsOf(r.fresh) = {}
      <4>1. r.fresh \notin rows
        BY <1>r, <1>d, Apart
      <4> QED
        BY <1>1, <1>r, <4>1 DEF InsertToken
    <3>5. Set(h, CASE r.op = "login"  -> [r EXCEPT !.pc = "reply"]
                   [] r.op = "socket" -> [r EXCEPT !.pc = "load", !.fresh = NoToken]
                   [] OTHER           -> [r EXCEPT !.pc = "load"])
      BY <1>r, <3>4 DEF InsertToken
    <3>6. \/ Set(h, [r EXCEPT !.pc = "reply"])
          \/ Set(h, [r EXCEPT !.pc = "load", !.fresh = NoToken])
          \/ Set(h, [r EXCEPT !.pc = "load"])
      BY <3>5
    <3> QED
      BY <3>1, <3>2, <3>3, <3>6
  <2>2. Over' = Over
    BY <1>1, <1>s DEF Over
  <2>3. rows' \subseteq Token /\ RowsDistinct'
    BY <1>1, <1>r, <1>s, <1>d, <1>f, <2>2, Apart DEF RowsDistinct
  <2>4. \A g \in Handlers \ {h} : InHand(request[g]) =>
          /\ request[g].fresh.login \notin Over'
          /\ \A row \in rows' : row.login # request[g].fresh.login
    BY <1>1, <1>r, <1>d, <2>2, Apart
  <2>5. IInv'
    BY <1>1, <1>s, <2>1, <2>2, <2>3, <2>4, PointStep, Apart
  <2>6. CASE Renewing(r)
    <3>1. ASSUME NEW l PROVE l \in LiveSessions' <=> l \in LiveSessions
      BY <1>1, <1>r, <2>1, <2>6, LiveAfterSet, HeldMember
    <3>2. LiveSessions' = LiveSessions
      BY <3>1
    <3> QED
      BY <2>2, <2>5, <3>2 DEF AbstractStep
  <2>7. CASE ~Renewing(r)
    <3>1. ASSUME NEW l PROVE l \in LiveSessions' <=> l \in LiveSessions \/ l = r.fresh.login
      BY <1>1, <1>r, <2>1, <2>7, LiveAfterSet, HeldMember
    <3>2. LiveSessions' = LiveSessions \cup {r.fresh.login}
      BY <3>1
    <3>3. r.fresh.login \notin LiveSessions
      <4>1. \A g \in Handlers : Renewing(request[g]) =>
              request[g].fresh.login # r.fresh.login
        BY <1>r, <1>d, <2>7, Apart DEF Renewing, InHand
      <4> QED
        BY <1>r, <1>d, <4>1, HeldMember, Apart
    <3>4. r.fresh.login \notin Over
      BY <1>r, <1>d, Apart
    <3>5. Abstract!Open
      BY <2>2, <3>2, <3>3, <3>4 DEF Abstract!Open, Over
    <3> QED
      BY <2>5, <3>5 DEF AbstractStep, Abstract!Next
  <2> QED
    BY <2>6, <2>7
<1>2. CASE Set(h, Idle) /\ lost' = lost \cup HeldBy({h}) /\ UNCHANGED rows
  <2> QED
    BY <1>2, <1>r, <1>s, <1>d, LoseStep
<1> QED
  BY <1>1, <1>2, <1>r DEF InsertToken

\* The histories that purges and restarts add to are histories of logins.
LEMMA HistoriesOK ==
  ASSUME IInv, NEW u
  PROVE  /\ LoginsOf(u) \subseteq Nat
         /\ InFlight(u) \subseteq Nat
         /\ \A H \in SUBSET Handlers : Unpurged(H) \subseteq Nat
<1>1. ASSUME NEW v PROVE LoginsOf(v) \subseteq Nat /\ InFlight(v) \subseteq Nat
  <2>1. \A r \in rows : r.login \in Nat
    BY DEF IInv, TypeOK, Token
  <2>2. \A h \in Handlers : request[h].pc \in {"sign", "insert"} =>
          request[h].fresh.login \in Nat
    BY Apart DEF InHand
  <2> QED
    BY <2>1, <2>2 DEF LoginsOf, InFlight
<1>2. ASSUME NEW H \in SUBSET Handlers PROVE Unpurged(H) \subseteq Nat
  BY <1>1 DEF Unpurged
<1> QED
  BY <1>1, <1>2

LEMMA DeleteAllTokensStep ==
  ASSUME IInv, NEW h \in Handlers, DeleteAllTokens(h)
  PROVE  IInv' /\ AbstractStep
<1> DEFINE u == request[h].user
           purged == LoginsOf(u)
<1>s. SurroundingsOK' /\ UNCHANGED <<opened, lost>>
  <2>1. spared' \subseteq Nat
    BY HistoriesOK DEF DeleteAllTokens, IInv, TypeOK
  <2> QED
    BY <2>1 DEF DeleteAllTokens, IInv, TypeOK, SurroundingsOK, accounts, clients, environment
<1>a. /\ rows' = {r \in rows : r.user # u}
      /\ ended' = ended \cup purged
      /\ Settle(h)
  BY DEF DeleteAllTokens
<1>d. ~InHand(request[h]) /\ ~At(h, "idle")
  BY DEF DeleteAllTokens, At, InHand
<1>m. \A l : l \in purged <=> \E r \in rows : r.user = u /\ l = r.login
  BY DEF LoginsOf
<1> HIDE DEF u, purged
<1>1. PICK s \in Request : Set(h, s) /\ RequestOK(s) /\ ~InHand(s) /\ ~Renewing(s)
  <2>1. CASE Set(h, Idle)
    BY <2>1, IdleOK DEF Renewing, InHand
  <2>2. CASE Goto(h, "reply")
    <3>1. PICK r \in Request : r = request[h] /\ RequestOK(r) /\ r.pc # "idle"
      BY <1>d DEF IInv, TypeOK, At
    <3>2. LET s == [r EXCEPT !.pc = "reply"]
          IN  s \in Request /\ s.pc = "reply" /\ s.user = r.user
      BY DEF Request, PCs
    <3> QED
      BY <2>2, <3>1, <3>2 DEF Goto, RequestOK, InHand, Renewing
  <2> QED
    BY <1>a, <2>1, <2>2 DEF Settle
<1>2. \A l \in purged : l \in Nat /\ l \in 1..Len(opened)
  BY <1>m, Apart
<1>3. Over' = Over \cup purged /\ Over' \subseteq 1..Len(opened)
  <2>1. Over' = Over \cup purged
    BY <1>a, <1>s DEF Over
  <2> QED
    BY <1>2, <2>1, Apart
<1>4. rows' \subseteq Token /\ ended' \subseteq Nat /\ lost' \subseteq Nat
  BY <1>a, <1>s, <1>2, Apart
<1>5. RowsDistinct'
  <2>1. \A r \in rows' : r \in rows /\ r.login \notin purged
    BY <1>a, <1>m, Apart
  <2> QED
    BY <1>s, <1>3, <2>1, Apart DEF RowsDistinct
<1>6. \A g \in Handlers \ {h} : InHand(request[g]) =>
        /\ request[g].fresh.login \notin Over'
        /\ \A row \in rows' : row.login # request[g].fresh.login
  BY <1>a, <1>m, <1>3, Apart
<1>7. IInv'
  BY <1>s, <1>1, <1>3, <1>4, <1>5, <1>6, PointStep
<1>8. ASSUME NEW l PROVE l \in LiveSessions' <=> l \in LiveSessions /\ l \notin purged
  <2>1. \A g \in Handlers : Renewing(request[g]) => request[g].fresh.login \notin purged
    BY <1>m, Apart DEF Renewing, InHand
  <2>2. \A r \in rows : r \in rows' <=> r.login \notin purged
    BY <1>a, <1>m, Apart
  <2>3. rows' \subseteq rows /\ ~Renewing(request[h])
    BY <1>a, <1>d DEF Renewing, InHand
  <2> QED
    BY <1>1, <2>1, <2>2, <2>3, LiveAfterSet, HeldMember
<1>9. LiveSessions' = LiveSessions \ purged /\ purged \subseteq LiveSessions
  <2>1. purged \subseteq LiveSessions
    BY <1>m, HeldMember
  <2> QED
    BY <1>8, <2>1
<1>10. Abstract!Close
  BY <1>3, <1>9 DEF Abstract!Close, Over
<1> QED
  BY <1>7, <1>10 DEF AbstractStep, Abstract!Next

LEMMA CallFailsStep ==
  ASSUME IInv, NEW h \in Handlers, CallFails(h)
  PROVE  IInv' /\ AbstractStep
<1>s. SurroundingsOK'
  <2>1. spared' \subseteq Nat
    BY HistoriesOK DEF CallFails, IInv, TypeOK
  <2>2. faults' \in Nat
    BY DEF CallFails, IInv, TypeOK
  <2> QED
    BY <2>1, <2>2 DEF CallFails, IInv, TypeOK, SurroundingsOK, accounts, clients
<1>u. UNCHANGED <<rows, opened, ended>> /\ lost' = lost \cup HeldBy({h})
  BY DEF CallFails
<1>1. CASE request[h].pc = "insert"
  <2>1. InHand(request[h]) /\ Set(h, Idle)
    BY <1>1 DEF CallFails, InHand
  <2> QED
    BY <1>s, <1>u, <2>1, LoseStep
<1>2. CASE request[h].pc # "insert"
  <2>1. ~InHand(request[h]) /\ ~At(h, "idle") /\ Settle(h)
    BY <1>2 DEF CallFails, InHand, At
  <2>2. HeldBy({h}) = {}
    BY <1>2 DEF HeldBy, Renewing
  <2> QED
    BY <1>s, <1>u, <2>1, <2>2, SettleStep DEF sessions
<1> QED
  BY <1>1, <1>2

LEMMA RestartStep ==
  ASSUME IInv, Restart
  PROVE  IInv' /\ AbstractStep
<1> DEFINE held == HeldBy(Handlers)
<1>m. \A l : l \in held <=> \E h \in Handlers : Renewing(request[h]) /\ l = request[h].fresh.login
  BY HeldMember
<1>a. UNCHANGED <<rows, opened, ended>> /\ lost' = lost \cup held
  BY DEF Restart
<1>i. /\ request' \in [Handlers -> Request]
      /\ \A h \in Handlers : request'[h] = Idle
  BY IdleOK DEF Restart
<1> HIDE DEF held
<1>1. \A l \in held : l \in Nat /\ l \in 1..Len(opened) /\ \A r \in rows : r.login # l
  BY <1>m, Apart DEF Renewing, InHand
<1>2. Over' = Over \cup held /\ Over' \subseteq 1..Len(opened)
  <2>1. Over' = Over \cup held
    BY <1>a DEF Over
  <2>2. Over \subseteq 1..Len(opened)
    BY DEF IInv
  <2> QED
    BY <1>1, <2>1, <2>2
<1>3. SurroundingsOK'
  <2>1. spared' \subseteq Nat
    BY HistoriesOK DEF Restart, IInv, TypeOK
  <2>2. stranded' \subseteq Nat
    <3>1. \A h \in Handlers : request[h].fresh # NoToken => request[h].fresh.login \in Nat
      BY DEF IInv, TypeOK, Request, Token
    <3> QED
      BY <3>1 DEF Restart, IInv, TypeOK
  <2>3. handshake' \in [Browsers -> Token \cup {NoToken}]
    BY DEF Restart
  <2> QED
    BY <2>1, <2>2, <2>3 DEF Restart, IInv, TypeOK, SurroundingsOK, accounts
<1>4. TypeOK'
  <2>1. lost' \subseteq Nat
    BY <1>a, <1>1 DEF IInv, TypeOK
  <2> QED
    BY <1>a, <1>i, <1>3, <2>1 DEF IInv, TypeOK, SurroundingsOK
<1>5. RowsDistinct'
  BY <1>a, <1>1, <1>2 DEF IInv, RowsDistinct
<1>6. HandsDistinct' /\ \A h \in Handlers : RequestOK(request'[h])
  BY <1>i, IdleOK DEF HandsDistinct, InHand
<1>7. IInv'
  BY <1>a, <1>2, <1>4, <1>5, <1>6 DEF IInv, RequestOK, InHand
<1>8. ASSUME NEW l PROVE l \in LiveSessions' <=> l \in LiveSessions /\ l \notin held
  <2>1. \A h \in Handlers : ~Renewing(request'[h])
    BY <1>i DEF Renewing, Idle
  <2> QED
    BY <1>a, <1>m, <1>1, <2>1, HeldMember, HeldMemberNext
<1>9. LiveSessions' = LiveSessions \ held /\ held \subseteq LiveSessions
  <2>1. held \subseteq LiveSessions
    BY <1>m, HeldMember
  <2> QED
    BY <1>8, <2>1
<1>10. Abstract!Close
  BY <1>2, <1>9 DEF Abstract!Close, Over
<1> QED
  BY <1>7, <1>10 DEF AbstractStep, Abstract!Next

-----------------------------------------------------------------------------
LEMMA InitInvariant == Init => IInv /\ Abstract!Init
<1> SUFFICES ASSUME Init PROVE IInv /\ Abstract!Init
  OBVIOUS
<1>1. \A h \in Handlers : request[h] = Idle
  BY DEF Init
<1>2. TypeOK
  <2>1. opened \in Seq(Nat)
    BY EmptySeq DEF Init
  <2> QED
    BY <2>1, IdleOK DEF Init, TypeOK
<1>3. IInv
  BY <1>1, <1>2, IdleOK DEF Init, IInv, RowsDistinct, HandsDistinct, Over
<1>4. \A h \in Handlers : ~Renewing(request[h])
  BY <1>1 DEF Idle, Renewing
<1>5. LiveSessions = {}
  BY <1>4 DEF Init, LiveSessions, HeldBy
<1> QED
  BY <1>3, <1>5 DEF Init, Abstract!Init

LEMMA NextInvariant == IInv /\ [Next]_vars => IInv' /\ AbstractStep
<1> SUFFICES ASSUME IInv, [Next]_vars PROVE IInv' /\ AbstractStep
  OBVIOUS
<1>1. CASE UNCHANGED vars
  <2>1. SurroundingsOK'
    BY <1>1, SurroundingsKept DEF vars, history
  <2> QED
    BY <1>1, <2>1, StillStep DEF vars, sessions, history
<1>2. ASSUME NEW h \in Handlers, NEW b \in Browsers,
             \/ \E u \in Users : Login(h, b, u)
             \/ Call(h, b) \/ SignOut(h, b) \/ UpdatePassword(h, b)
             \/ Connect(h, b) \/ SocketMessage(h, b)
      PROVE  IInv' /\ AbstractStep
  <2>1. CASE \E u \in Users : Login(h, b, u)
    BY <2>1, RequestsArrive
  <2>2. CASE \/ Call(h, b) \/ SignOut(h, b) \/ UpdatePassword(h, b)
             \/ Connect(h, b) \/ SocketMessage(h, b)
    <3>1. PICK u : u \in Users
      <4>1. cookie[b] \in Token \cup {NoToken} /\ handshake[b] \in Token \cup {NoToken}
        BY DEF IInv, TypeOK
      <4> QED
        BY <2>2, <4>1 DEF Call, SignOut, UpdatePassword, Connect, SocketMessage, Arrive,
                          SocketRequest, Verifies, Token
    <3> QED
      BY <2>2, <3>1, RequestsArrive
  <2> QED
    BY <1>2, <2>1, <2>2
<1>3. ASSUME NEW b \in Browsers, Disconnect(b) PROVE IInv' /\ AbstractStep
  BY <1>3, DisconnectStep
<1>4. ASSUME NEW u \in Users,
             \/ ForgotPassword(u)
             \/ \E h \in Handlers : ResetPassword(h, u)
             \/ \E status \in BOOLEAN : UpdateBlockStatus(u, status)
      PROVE  IInv' /\ AbstractStep
  BY <1>4, AccountStep, ResetArrives
<1>5. ASSUME NEW h \in Handlers, Step(h) \/ CallFails(h) PROVE IInv' /\ AbstractStep
  BY <1>5, LoginSteps, QuietSteps, DeleteTokenStep, InsertTokenStep, DeletePresentedStep,
     DeleteAllTokensStep, CallFailsStep DEF Step
<1>6. CASE Tick
  BY <1>6, TickStep
<1>7. CASE Restart
  BY <1>7, RestartStep
<1> QED
  BY <1>1, <1>2, <1>3, <1>4, <1>5, <1>6, <1>7 DEF Next

\* Sessions keeps its types, for any users, browsers, handlers and ages.
THEOREM TypeCorrect == Spec => []TypeOK
<1>1. IInv => TypeOK
  BY DEF IInv
<1> QED
  BY <1>1, InitInvariant, NextInvariant, PTL DEF Spec

\* However many requests race to renew a token (TokenService.verify), at most
\* one token carries a session on.
THEOREM SessionsNotForked == Spec => []SessionNotForked
<1>1. IInv => SessionNotForked
  <2> SUFFICES ASSUME IInv PROVE SessionNotForked
    OBVIOUS
  <2>1. \A h \in Handlers : Renewing(request[h]) => InHand(request[h])
    BY DEF Renewing, InHand
  <2> QED
    BY <2>1 DEF IInv, RowsDistinct, HandsDistinct, SessionNotForked
<1> QED
  BY <1>1, InitInvariant, NextInvariant, PTL DEF Spec

\* The whitelist implements a set of sessions: what deleteToken,
\* deleteAllTokens, a failure or a restart has closed never lives again.
THEOREM ImplementsSessionSet == Spec => SessionsImplemented
<1>1. AbstractStep => [Abstract!Next]_<<LiveSessions, ended \cup lost>>
  BY DEF AbstractStep, Over
<1> QED
  BY <1>1, InitInvariant, NextInvariant, PTL DEF Spec, SessionsImplemented, Abstract!Spec

-----------------------------------------------------------------------------
(* Password changes.  A session that is not of the password of the moment  *)
(* waits for the purge of a change, or was in flight when one ran.         *)

Current(t) ==
  \/ opened[t.login] = password[t.user]
  \/ t.login \in spared
  \/ \E h \in Handlers : request[h].user = t.user /\ At(h, "purge")

Presents(r) == r.pc \in {"find", "delete"} => r.token \in Token /\ r.token.user = r.user

CurrentInv ==
  /\ \A r \in rows : Current(r)
  /\ \A h \in Handlers : InHand(request[h]) =>
       request[h].fresh.user = request[h].user /\ Current(request[h].fresh)
  /\ \A h \in Handlers : Presents(request[h])

\* The requests that arrive: what they present is the cookie of their browser.
LEMMA Arrivals ==
  ASSUME IInv, NEW h \in Handlers,
         \/ \E b \in Browsers :
              \/ \E u \in Users : Login(h, b, u)
              \/ Call(h, b) \/ SignOut(h, b) \/ UpdatePassword(h, b)
              \/ Connect(h, b) \/ SocketMessage(h, b)
         \/ \E u \in Users : ResetPassword(h, u)
  PROVE  /\ At(h, "idle")
         /\ UNCHANGED <<now, rows, password, cookie, history>>
         /\ \E r : /\ Set(h, r) /\ r.fresh = NoToken
                   /\ r.pc \in {"check", "find", "compare"}
                   /\ r.pc # "find" => r.token = NoToken /\ r.op # "socket"
                   /\ r.pc = "find" =>
                        /\ r.token \in Token /\ r.user = r.token.user
                        /\ r.browser \in Browsers
                        /\ r.token \in {cookie[r.browser], handshake[r.browser]}
<1>1. \A b \in Browsers : /\ cookie[b] \in Token \cup {NoToken}
                          /\ handshake[b] \in Token \cup {NoToken}
  BY DEF IInv, TypeOK
<1>2. ASSUME NEW b \in Browsers, NEW u \in Users, Login(h, b, u)
      PROVE  \E r : /\ Set(h, r) /\ r.fresh = NoToken /\ r.pc = "check"
                    /\ r.token = NoToken /\ r.op = "login"
  <2> DEFINE r == [New("login", "check", u) EXCEPT !.browser = b, !.pw = password[u]]
  <2>1. r.fresh = NoToken /\ r.pc = "check" /\ r.token = NoToken /\ r.op = "login"
    BY DEF New, Idle
  <2>2. Set(h, r)
    BY <1>2 DEF Login
  <2> HIDE DEF r
  <2> QED
    BY <2>1, <2>2
<1>3. ASSUME NEW b \in Browsers, NEW op \in {"call", "signout", "change"}, Arrive(h, b, op)
      PROVE  \E r : /\ Set(h, r) /\ r.fresh = NoToken /\ r.pc = "find" /\ r.op = op
                    /\ r.browser = b /\ r.token = cookie[b] /\ r.token \in Token
                    /\ r.user = r.token.user
  <2> DEFINE t == cookie[b]
             r == [New(op, "find", t.user) EXCEPT !.browser = b, !.token = t,
                                !.pw = IF op = "change" THEN password[t.user] ELSE 0]
  <2>1. t \in Token
    BY <1>1, <1>3 DEF Arrive, Verifies
  <2>2. /\ r.fresh = NoToken /\ r.pc = "find" /\ r.op = op /\ r.browser = b
        /\ r.token = t /\ r.user = t.user
    BY DEF New, Idle
  <2>3. Set(h, r)
    BY <1>3 DEF Arrive
  <2> HIDE DEF r
  <2> QED
    BY <2>1, <2>2, <2>3
<1>4. ASSUME NEW b \in Browsers, NEW t \in Token \cup {NoToken}, SocketRequest(h, b, t)
      PROVE  \E r : /\ Set(h, r) /\ r.fresh = NoToken /\ r.pc = "find" /\ r.op = "socket"
                    /\ r.browser = b /\ r.token = t /\ r.token \in Token
                    /\ r.user = r.token.user
  <2> DEFINE r == [New("socket", "find", t.user) EXCEPT !.browser = b, !.token = t]
  <2>1. t \in Token
    BY <1>4 DEF SocketRequest, Verifies
  <2>2. /\ r.fresh = NoToken /\ r.pc = "find" /\ r.op = "socket" /\ r.browser = b
        /\ r.token = t /\ r.user = t.user
    BY DEF New, Idle
  <2>3. Set(h, r)
    BY <1>4 DEF SocketRequest
  <2> HIDE DEF r
  <2> QED
    BY <2>1, <2>2, <2>3
<1>5. ASSUME NEW u \in Users, ResetPassword(h, u)
      PROVE  \E r : /\ Set(h, r) /\ r.fresh = NoToken /\ r.pc = "compare"
                    /\ r.token = NoToken /\ r.op = "reset"
  <2>0. PICK code \in {0, 1} : Set(h, [New("reset", "compare", u) EXCEPT !.pw = code])
    BY <1>5 DEF ResetPassword
  <2> DEFINE r == [New("reset", "compare", u) EXCEPT !.pw = code]
  <2>1. r.fresh = NoToken /\ r.pc = "compare" /\ r.token = NoToken /\ r.op = "reset"
    BY DEF New, Idle
  <2>2. Set(h, r)
    BY <2>0
  <2> HIDE DEF r
  <2> QED
    BY <2>1, <2>2
<1>6. At(h, "idle") /\ UNCHANGED <<now, rows, password, cookie, history>>
  BY DEF Login, Call, SignOut, UpdatePassword, Arrive, Connect, SocketMessage, SocketRequest,
         ResetPassword, accounts, clients
<1>7. ASSUME NEW b \in Browsers, Connect(h, b) \/ SocketMessage(h, b)
      PROVE  \E r : /\ Set(h, r) /\ r.fresh = NoToken /\ r.pc = "find" /\ r.op = "socket"
                    /\ r.browser = b /\ r.token \in Token /\ r.user = r.token.user
                    /\ r.token \in {cookie[b], handshake[b]}
  <2>1. CASE Connect(h, b)
    BY <1>1, <1>4, <2>1 DEF Connect
  <2>2. CASE SocketMessage(h, b)
    <3>1. handshake[b] # NoToken /\ SocketRequest(h, b, handshake[b])
      BY <2>2 DEF SocketMessage, SocketRequest, Verifies
    <3> QED
      BY <1>1, <1>4, <3>1
  <2> QED
    BY <1>7, <2>1, <2>2
<1>8. ASSUME NEW b \in Browsers, Call(h, b) \/ SignOut(h, b) \/ UpdatePassword(h, b)
      PROVE  \E r : /\ Set(h, r) /\ r.fresh = NoToken /\ r.pc = "find" /\ r.op # "socket"
                    /\ r.browser = b /\ r.token = cookie[b] /\ r.token \in Token
                    /\ r.user = r.token.user
  BY <1>3, <1>8 DEF Call, SignOut, UpdatePassword
<1>9. CASE \E b \in Browsers : Connect(h, b) \/ SocketMessage(h, b)
  BY <1>6, <1>7, <1>9
<1>10. CASE \E b \in Browsers : Call(h, b) \/ SignOut(h, b) \/ UpdatePassword(h, b)
  BY <1>6, <1>8, <1>10
<1>11. CASE \E b \in Browsers, u \in Users : Login(h, b, u)
  BY <1>2, <1>6, <1>11
<1>12. CASE \E u \in Users : ResetPassword(h, u)
  BY <1>5, <1>6, <1>12
<1> QED
  BY <1>9, <1>10, <1>11, <1>12

\* A step of one request that writes no password and ends no purge.
LEMMA CurrentSet ==
  ASSUME IInv, CurrentInv, NEW h \in Handlers, NEW r, Set(h, r), ~At(h, "purge"),
         UNCHANGED <<opened, password>>, spared \subseteq spared',
         \A row \in rows' : row \in rows \/ Current(row),
         InHand(r) => r.fresh.user = r.user /\ Current(r.fresh),
         Presents(r)
  PROVE  CurrentInv'
<1>1. request'[h] = r /\ \A g \in Handlers \ {h} : request'[g] = request[g]
  BY DEF Set, IInv, TypeOK
<1>2. ASSUME NEW t, Current(t) PROVE Current(t)'
  BY <1>1, <1>2 DEF Current, At
<1>3. \A row \in rows' : Current(row)'
  BY <1>2 DEF CurrentInv
<1>4. ASSUME NEW g \in Handlers, InHand(request'[g])
      PROVE  request'[g].fresh.user = request'[g].user /\ Current(request[g].fresh)'
  <2>1. PICK q : q = request'[g] /\ (q = r \/ q = request[g])
    BY <1>1
  <2>2. q.fresh.user = q.user /\ Current(q.fresh)
    BY <1>1, <1>4, <2>1 DEF CurrentInv
  <2>3. Current(q.fresh)'
    BY <1>2, <2>2
  <2> QED
    BY <2>1, <2>2, <2>3 DEF Current, At
<1>5. \A g \in Handlers : Presents(request'[g])
  BY <1>1 DEF CurrentInv
<1> QED
  BY <1>3, <1>4, <1>5 DEF CurrentInv, InHand, Presents

\* A request is done or goes on, with what it has.
LEMMA CurrentMoves ==
  ASSUME IInv, CurrentInv, NEW h \in Handlers, ~At(h, "purge"),
         UNCHANGED <<opened, password>>, spared \subseteq spared', rows' \subseteq rows,
         \/ Set(h, Idle) \/ Settle(h)
         \/ \E pc \in {"load", "write", "purge", "signout", "compare", "clear", "reply"} : Goto(h, pc)
         \/ At(h, "find") /\ Goto(h, "delete")
  PROVE  CurrentInv'
<1>q. PICK q \in Request : q = request[h] /\ Presents(q)
  BY DEF IInv, TypeOK, CurrentInv
<1>1. CASE Set(h, Idle)
  <2>1. ~InHand(Idle) /\ Presents(Idle)
    BY DEF Idle, InHand, Presents
  <2> QED
    BY <1>1, <2>1, CurrentSet
<1>2. ASSUME NEW pc \in {"load", "write", "purge", "signout", "compare", "clear", "reply"}, Goto(h, pc)
      PROVE  CurrentInv'
  <2>1. PICK r : r = [q EXCEPT !.pc = pc]
    OBVIOUS
  <2>2. Set(h, r) /\ r.pc = pc
    BY <1>2, <1>q, <2>1 DEF Goto, Request
  <2>3. ~InHand(r) /\ Presents(r)
    BY <2>2 DEF InHand, Presents
  <2> QED
    BY <2>2, <2>3, CurrentSet
<1>3. CASE At(h, "find") /\ Goto(h, "delete")
  <2>1. PICK r : r = [q EXCEPT !.pc = "delete"]
    OBVIOUS
  <2>2. Set(h, r) /\ r.pc = "delete" /\ r.token = q.token /\ r.user = q.user
    BY <1>3, <1>q, <2>1 DEF Goto, Request
  <2>3. ~InHand(r) /\ Presents(r)
    BY <1>3, <1>q, <2>2 DEF InHand, Presents, At
  <2> QED
    BY <2>2, <2>3, CurrentSet
<1> QED
  BY <1>1, <1>2, <1>3 DEF Settle

LEMMA CurrentStill ==
  ASSUME CurrentInv, UNCHANGED <<rows, request, opened, password, spared>>
  PROVE  CurrentInv'
BY DEF CurrentInv, Current, Presents, InHand, At

LEMMA CurrentArrival ==
  ASSUME IInv, CurrentInv, NEW h \in Handlers,
         \/ \E b \in Browsers :
              \/ \E u \in Users : Login(h, b, u)
              \/ Call(h, b) \/ SignOut(h, b) \/ UpdatePassword(h, b)
              \/ Connect(h, b) \/ SocketMessage(h, b)
         \/ \E u \in Users : ResetPassword(h, u)
  PROVE  CurrentInv'
<1>1. /\ At(h, "idle") /\ UNCHANGED <<rows, password, opened, spared>>
      /\ \E r : /\ Set(h, r) /\ r.pc \in {"check", "find", "compare"}
                /\ r.pc = "find" => r.token \in Token /\ r.user = r.token.user
  BY Arrivals DEF history
<1>2. PICK r : /\ Set(h, r) /\ r.pc \in {"check", "find", "compare"}
               /\ r.pc = "find" => r.token \in Token /\ r.user = r.token.user
  BY <1>1
<1>3. ~InHand(r) /\ Presents(r) /\ ~At(h, "purge")
  BY <1>1, <1>2 DEF InHand, Presents, At
<1> QED
  BY <1>1, <1>2, <1>3, CurrentSet

LEMMA CurrentQuiet ==
  ASSUME IInv, CurrentInv, NEW h \in Handlers,
         \/ FindToken(h) \/ LoadUser(h) \/ Compare(h) \/ DeletePresented(h) \/ Reply(h)
  PROVE  CurrentInv'
<1>1. /\ ~At(h, "purge") /\ rows' \subseteq rows /\ UNCHANGED <<opened, password, spared>>
  BY DEF FindToken, LoadUser, Compare, DeletePresented, Reply, At, history, accounts
<1>2. \/ Set(h, Idle) \/ Settle(h)
      \/ \E pc \in {"load", "write", "purge", "signout", "compare", "clear", "reply"} : Goto(h, pc)
      \/ At(h, "find") /\ Goto(h, "delete")
  <2>1. CASE FindToken(h)
    <3>1. ASSUME RowsOf(request[h].token) # {}
          PROVE  \/ now - request[h].token.iat > RefreshAge
                 \/ now - request[h].token.iat <= RefreshAge
      <4>1. PICK r \in rows : r.iat = request[h].token.iat
        BY <3>1 DEF RowsOf, SameString
      <4>2. request[h].token.iat \in Nat /\ now \in Nat /\ RefreshAge \in Nat
        BY <4>1, SessionsAssumption DEF IInv, TypeOK, Token, SessionsAssumption
      <4> QED
        BY <4>2
    <3> QED
      BY <2>1, <3>1 DEF FindToken
  <2>2. CASE LoadUser(h)
    BY <2>2 DEF LoadUser, AfterLoad
  <2>3. CASE Compare(h) \/ DeletePresented(h) \/ Reply(h)
    BY <2>3 DEF Compare, DeletePresented, Reply
  <2> QED
    BY <2>1, <2>2, <2>3
<1> QED
  BY <1>1, <1>2, CurrentMoves

LEMMA CurrentToken ==
  ASSUME IInv, CurrentInv, NEW h \in Handlers,
         SignToken(h) \/ DeleteToken(h) \/ InsertToken(h)
  PROVE  CurrentInv'
<1>q. PICK q \in Request : q = request[h] /\ Presents(q) /\ RequestOK(q)
  BY DEF IInv, TypeOK, CurrentInv
<1>n. now \in Nat
  BY DEF IInv, TypeOK
<1>u. ~At(h, "purge") /\ UNCHANGED <<opened, password, spared>>
  BY DEF SignToken, DeleteToken, InsertToken, At, history, accounts
<1>1. CASE SignToken(h)
  <2>1. q.pc = "sign" /\ InHand(q) /\ q.fresh \in Token
    BY <1>1, <1>q DEF SignToken, At, InHand, RequestOK
  <2>2. q.fresh.user = q.user /\ Current(q.fresh)
    BY <1>q, <2>1 DEF CurrentInv
  <2>3. PICK f : f = [q.fresh EXCEPT !.iat = now]
    OBVIOUS
  <2>4. f.user = q.fresh.user /\ f.login = q.fresh.login
    BY <2>1, <2>3 DEF Token
  <2>5. PICK r : r = [q EXCEPT !.pc = "insert", !.fresh = f]
    OBVIOUS
  <2>6. r.pc = "insert" /\ r.fresh = f /\ r.user = q.user
    BY <2>5 DEF Request
  <2>7. Set(h, r)
    BY <1>1, <1>q, <2>3, <2>5 DEF SignToken
  <2>8. Current(f)
    BY <2>2, <2>4 DEF Current
  <2>9. rows' = rows /\ Presents(r)
    BY <1>1, <2>6 DEF SignToken, Presents
  <2> QED
    BY <1>u, <2>2, <2>4, <2>6, <2>7, <2>8, <2>9, CurrentSet
<1>2. CASE DeleteToken(h)
  <2>1. CASE RowsOf(q.token) = {} /\ Set(h, Idle) /\ UNCHANGED rows
    BY <1>u, <2>1, CurrentMoves
  <2>2. ASSUME NEW old \in RowsOf(q.token), rows' = rows \ {old},
               Set(h, [q EXCEPT !.pc = "insert",
                                !.fresh = [user |-> q.user, iat |-> now, login |-> old.login]])
        PROVE  CurrentInv'
    <3>1. q.user = old.user
      BY <1>2, <1>q, <2>2 DEF DeleteToken, At, Presents, RowsOf, SameString
    <3>2. PICK f : f = [user |-> q.user, iat |-> now, login |-> old.login]
      OBVIOUS
    <3>3. PICK r : r = [q EXCEPT !.pc = "insert", !.fresh = f]
      OBVIOUS
    <3>4. r.pc = "insert" /\ r.fresh = f /\ r.user = q.user /\ Set(h, r)
      BY <2>2, <3>2, <3>3 DEF Request
    <3>5. f.user = old.user /\ f.login = old.login
      BY <3>1, <3>2
    <3>6. Current(f)
      BY <2>2, <3>5 DEF CurrentInv, Current, RowsOf
    <3>7. Presents(r)
      BY <3>4 DEF Presents
    <3> QED
      BY <1>u, <2>2, <3>1, <3>4, <3>5, <3>6, <3>7, CurrentSet
  <2> QED
    BY <1>2, <1>q, <2>1, <2>2 DEF DeleteToken
<1>3. CASE InsertToken(h)
  <2>1. q.pc = "insert" /\ InHand(q) /\ Current(q.fresh)
    BY <1>3, <1>q DEF InsertToken, At, InHand, CurrentInv
  <2>2. CASE Set(h, Idle) /\ UNCHANGED rows
    BY <1>u, <2>2, CurrentMoves
  <2>3. CASE /\ rows' = rows \cup {q.fresh}
             /\ Set(h, CASE q.op = "login"  -> [q EXCEPT !.pc = "reply"]
                         [] q.op = "socket" -> [q EXCEPT !.pc = "load", !.fresh = NoToken]
                         [] OTHER           -> [q EXCEPT !.pc = "load"])
    <3>1. PICK r : /\ \/ r = [q EXCEPT !.pc = "reply"]
                      \/ r = [q EXCEPT !.pc = "load", !.fresh = NoToken]
                      \/ r = [q EXCEPT !.pc = "load"]
                   /\ Set(h, r)
      BY <2>3
    <3>2. r.pc \in {"reply", "load"}
      BY <3>1 DEF Request
    <3>3. ~InHand(r) /\ Presents(r)
      BY <3>2 DEF InHand, Presents
    <3> QED
      BY <1>u, <2>1, <2>3, <3>1, <3>3, CurrentSet
  <2> QED
    BY <1>3, <1>q, <2>2, <2>3 DEF InsertToken
<1> QED
  BY <1>1, <1>2, <1>3

LEMMA CurrentLogin ==
  ASSUME IInv, CurrentInv, NEW h \in Handlers, CheckCredentials(h)
  PROVE  CurrentInv'
<1>q. PICK q \in Request : q = request[h] /\ RequestOK(q) /\ q.pc = "check"
  BY DEF IInv, TypeOK, CheckCredentials, At
<1>n. opened \in Seq(Nat) /\ Len(opened) \in Nat /\ now \in Nat /\ q.pw \in Nat
  BY <1>q, LenProperties DEF IInv, TypeOK, Request
<1>u. UNCHANGED <<rows, password, spared>>
  BY DEF CheckCredentials, accounts
<1>1. CASE Set(h, Idle) /\ UNCHANGED opened
  BY <1>1, <1>q, <1>u, CurrentMoves DEF At
<1>2. CASE /\ q.pw = password[q.user]
           /\ Set(h, [q EXCEPT !.pc = "sign", !.fresh = [user |-> q.user, iat |-> now,
                                                         login |-> Len(opened) + 1]])
           /\ opened' = Append(opened, q.pw)
  <2>1. PICK f : f = [user |-> q.user, iat |-> now, login |-> Len(opened) + 1]
    OBVIOUS
  <2>2. PICK r : r = [q EXCEPT !.pc = "sign", !.fresh = f]
    OBVIOUS
  <2>3. Set(h, r) /\ r.pc = "sign" /\ r.fresh = f /\ r.user = q.user
    BY <1>2, <2>1, <2>2 DEF Request
  <2>4. request'[h] = r /\ \A g \in Handlers \ {h} : request'[g] = request[g]
    BY <2>3 DEF Set, IInv, TypeOK
  <2>5. /\ opened'[Len(opened) + 1] = q.pw
        /\ \A l \in 1..Len(opened) : opened'[l] = opened[l]
    BY <1>2, <1>n, AppendProperties
  <2>6. ASSUME NEW t, Current(t), t.login \in 1..Len(opened) PROVE Current(t)'
    BY <1>q, <1>u, <2>4, <2>5, <2>6 DEF Current, At
  <2>7. \A r2 \in rows' : Current(r2)'
    BY <1>u, <2>6, Apart DEF CurrentInv
  <2>8. ASSUME NEW g \in Handlers, InHand(request'[g])
        PROVE  request'[g].fresh.user = request'[g].user /\ Current(request[g].fresh)'
    <3>1. CASE g = h
      <4>1. f.user = q.user /\ opened'[f.login] = password'[f.user]
        BY <1>2, <1>u, <2>1, <2>5
      <4> QED
        BY <2>3, <2>4, <3>1, <4>1 DEF Current
    <3>2. CASE g # h
      <4>1. PICK s : s = request[g] /\ s = request'[g]
        BY <2>4, <3>2
      <4>2. InHand(s) /\ s.fresh.user = s.user /\ Current(s.fresh) /\ s.fresh.login \in 1..Len(opened)
        BY <2>8, <4>1, Apart DEF CurrentInv
      <4>3. Current(s.fresh)'
        BY <2>6, <4>2
      <4> QED
        BY <4>1, <4>2, <4>3 DEF Current, At
    <3> QED
      BY <3>1, <3>2
  <2>9. \A g \in Handlers : Presents(request'[g])
    BY <2>3, <2>4 DEF CurrentInv, Presents
  <2> QED
    BY <2>7, <2>8, <2>9 DEF CurrentInv, InHand, Presents
<1> QED
  BY <1>1, <1>2, <1>q DEF CheckCredentials

\* The password changes: every session of the user waits for the purge.
LEMMA CurrentWrite ==
  ASSUME IInv, CurrentInv, NEW h \in Handlers, WritePassword(h)
  PROVE  CurrentInv'
<1>q. PICK q \in Request : q = request[h] /\ q.pc = "write"
  BY DEF IInv, TypeOK, WritePassword, At
<1>1. PICK r : r = [q EXCEPT !.pc = "purge"]
  OBVIOUS
<1>2. Set(h, r) /\ r.pc = "purge" /\ r.user = q.user
  BY <1>1, <1>q DEF WritePassword, Goto, Request
<1>3. request'[h] = r /\ \A g \in Handlers \ {h} : request'[g] = request[g]
  BY <1>2 DEF Set, IInv, TypeOK
<1>4. UNCHANGED <<rows, opened, spared>> /\ \A u \in Users \ {q.user} : password'[u] = password[u]
  BY <1>q DEF WritePassword, history, IInv, TypeOK
<1>5. ASSUME NEW t \in Token, Current(t) PROVE Current(t)'
  <2>1. t.user \in Users
    BY DEF Token
  <2>2. CASE t.user = q.user
    BY <1>2, <1>3, <2>2 DEF Current, At
  <2>3. CASE t.user # q.user
    BY <1>5, <1>3, <1>4, <1>q, <2>1, <2>3 DEF Current, At
  <2> QED
    BY <2>2, <2>3
<1>6. \A row \in rows' : Current(row)'
  BY <1>4, <1>5 DEF CurrentInv, IInv, TypeOK
<1>7. ASSUME NEW g \in Handlers, InHand(request'[g])
      PROVE  request'[g].fresh.user = request'[g].user /\ Current(request[g].fresh)'
  <2>1. PICK s : s = request[g] /\ s = request'[g]
    BY <1>2, <1>3, <1>7 DEF InHand
  <2>2. InHand(s) /\ s.fresh.user = s.user /\ Current(s.fresh) /\ s.fresh \in Token
    BY <1>7, <2>1, Apart DEF CurrentInv
  <2>3. Current(s.fresh)'
    BY <1>5, <2>2
  <2> QED
    BY <2>1, <2>2, <2>3 DEF Current, At
<1>8. \A g \in Handlers : Presents(request'[g])
  BY <1>2, <1>3 DEF CurrentInv, Presents
<1> QED
  BY <1>6, <1>7, <1>8 DEF CurrentInv, InHand, Presents

\* The end of a purge, be it done, rejected or lost in a restart: the sessions of
\* the user that it leaves are among the spared ones.
LEMMA PurgeEnds ==
  ASSUME IInv, CurrentInv, NEW H \in SUBSET Handlers, NEW t \in Token,
         UNCHANGED <<opened, password>>, spared \subseteq spared',
         \A g \in Handlers \ H : request'[g] = request[g],
         \A g \in H : At(g, "purge") => t.user # request[g].user \/ t.login \in spared',
         Current(t)
  PROVE  Current(t)'
<1>1. CASE opened[t.login] = password[t.user] \/ t.login \in spared
  BY <1>1 DEF Current
<1>2. ASSUME NEW g \in Handlers, request[g].user = t.user, At(g, "purge")
      PROVE  Current(t)'
  BY <1>2 DEF Current, At
<1> QED
  BY <1>1, <1>2 DEF Current

LEMMA InFlightHas ==
  ASSUME CurrentInv, NEW g \in Handlers, InHand(request[g])
  PROVE  request[g].fresh.login \in InFlight(request[g].fresh.user)
BY DEF CurrentInv, InFlight, InHand

LEMMA CurrentPurge ==
  ASSUME IInv, CurrentInv, NEW h \in Handlers, DeleteAllTokens(h)
  PROVE  CurrentInv'
<1>q. PICK q \in Request : q = request[h] /\ q.pc = "purge"
  BY DEF IInv, TypeOK, DeleteAllTokens, At
<1>1. PICK r : Set(h, r) /\ ~InHand(r) /\ Presents(r)
  <2>1. CASE Set(h, Idle)
    BY <2>1 DEF Idle, InHand, Presents
  <2>2. CASE Goto(h, "reply")
    <3>1. PICK r : r = [q EXCEPT !.pc = "reply"]
      OBVIOUS
    <3>2. Set(h, r) /\ r.pc = "reply"
      BY <1>q, <2>2, <3>1 DEF Goto, Request
    <3> QED
      BY <3>2 DEF InHand, Presents
  <2> QED
    BY <2>1, <2>2 DEF DeleteAllTokens, Settle
<1>2. request'[h] = r /\ \A g \in Handlers \ {h} : request'[g] = request[g]
  BY <1>1 DEF Set, IInv, TypeOK
<1>3. /\ rows' = {row \in rows : row.user # q.user} /\ spared' = spared \cup InFlight(q.user)
      /\ UNCHANGED <<opened, password>>
  BY <1>q DEF DeleteAllTokens, accounts
<1>c. ASSUME NEW t \in Token, Current(t), t.user # q.user \/ t.login \in spared' PROVE Current(t)'
  <2>1. {h} \in SUBSET Handlers /\ spared \subseteq spared' /\ UNCHANGED <<opened, password>>
    BY <1>3
  <2>2. \A g \in {h} : At(g, "purge") => t.user # request[g].user \/ t.login \in spared'
    BY <1>q, <1>c
  <2> QED
    BY <1>2, <1>c, <2>1, <2>2, PurgeEnds
<1>4. \A row \in rows' : Current(row)'
  <2> SUFFICES ASSUME NEW row \in rows' PROVE Current(row)'
    OBVIOUS
  <2>1. row \in rows /\ row.user # q.user /\ row \in Token /\ Current(row)
    BY <1>3 DEF CurrentInv, IInv, TypeOK
  <2> QED
    BY <1>c, <2>1
<1>5. ASSUME NEW g \in Handlers, InHand(request'[g])
      PROVE  request'[g].fresh.user = request'[g].user /\ Current(request[g].fresh)'
  <2>1. PICK s : s = request[g] /\ s = request'[g] /\ g # h
    BY <1>1, <1>2, <1>5
  <2>2. InHand(s) /\ s.fresh.user = s.user /\ Current(s.fresh) /\ s.fresh \in Token
    BY <1>5, <2>1, Apart DEF CurrentInv
  <2>3. s.fresh.login \in InFlight(s.fresh.user)
    BY <2>1, <2>2, InFlightHas
  <2>4. s.fresh.user # q.user \/ s.fresh.login \in spared'
    BY <1>3, <2>3
  <2>5. Current(s.fresh)'
    BY <1>c, <2>2, <2>4
  <2> QED
    BY <2>1, <2>2, <2>5 DEF Current, At
<1>6. \A g \in Handlers : Presents(request'[g])
  BY <1>1, <1>2 DEF CurrentInv
<1> QED
  BY <1>4, <1>5, <1>6 DEF CurrentInv, InHand, Presents

\* Calls that are rejected, and restarts: those in H are cut short.
LEMMA CurrentCut ==
  ASSUME IInv, CurrentInv, NEW H \in SUBSET Handlers,
         UNCHANGED <<rows, opened, password>>, spared' = spared \cup Unpurged(H),
         \A g \in Handlers \ H : request'[g] = request[g],
         \A g \in H : ~InHand(request'[g]) /\ Presents(request'[g])
  PROVE  CurrentInv'
<1>1. ASSUME NEW g \in H, At(g, "purge"), NEW l,
             l \in LoginsOf(request[g].user) \/ l \in InFlight(request[g].user)
      PROVE  l \in spared'
  BY <1>1 DEF Unpurged
<1>2. \A row \in rows' : Current(row)'
  <2> SUFFICES ASSUME NEW row \in rows PROVE Current(row)'
    OBVIOUS
  <2>1. row \in Token /\ Current(row) /\ row.login \in LoginsOf(row.user)
    BY DEF CurrentInv, IInv, TypeOK, LoginsOf
  <2>2. \A g \in H : At(g, "purge") => row.user # request[g].user \/ row.login \in spared'
    BY <1>1, <2>1
  <2> QED
    BY <2>1, <2>2, PurgeEnds
<1>3. ASSUME NEW g \in Handlers, InHand(request'[g])
      PROVE  request'[g].fresh.user = request'[g].user /\ Current(request[g].fresh)'
  <2>1. PICK s : s = request[g] /\ s = request'[g]
    BY <1>3
  <2>2. /\ InHand(s) /\ s.fresh.user = s.user /\ Current(s.fresh) /\ s.fresh \in Token
        /\ s.fresh.login \in InFlight(s.fresh.user)
    BY <1>3, <2>1, Apart, InFlightHas DEF CurrentInv
  <2>3. \A i \in H : At(i, "purge") => s.fresh.user # request[i].user \/ s.fresh.login \in spared'
    BY <1>1, <2>2
  <2>4. Current(s.fresh)'
    BY <2>2, <2>3, PurgeEnds
  <2> QED
    BY <2>1, <2>2, <2>4 DEF Current, At
<1>4. \A g \in Handlers : Presents(request'[g])
  BY DEF CurrentInv
<1> QED
  BY <1>2, <1>3, <1>4 DEF CurrentInv, InHand, Presents

LEMMA CurrentFails ==
  ASSUME IInv, CurrentInv, NEW h \in Handlers, CallFails(h)
  PROVE  CurrentInv'
<1>q. PICK q \in Request : q = request[h]
  BY DEF IInv, TypeOK
<1>1. PICK r : Set(h, r) /\ ~InHand(r) /\ Presents(r)
  <2>1. CASE Set(h, Idle)
    BY <2>1 DEF Idle, InHand, Presents
  <2>2. CASE Goto(h, "reply")
    <3>1. PICK r : r = [q EXCEPT !.pc = "reply"]
      OBVIOUS
    <3>2. Set(h, r) /\ r.pc = "reply"
      BY <1>q, <2>2, <3>1 DEF Goto, Request
    <3> QED
      BY <3>2 DEF InHand, Presents
  <2> QED
    BY <2>1, <2>2 DEF CallFails, Settle
<1>2. request'[h] = r /\ \A g \in Handlers \ {h} : request'[g] = request[g]
  BY <1>1 DEF Set, IInv, TypeOK
<1>3. UNCHANGED <<rows, opened, password>> /\ spared' = spared \cup Unpurged({h})
  BY DEF CallFails, accounts
<1> QED
  BY <1>1, <1>2, <1>3, CurrentCut

LEMMA CurrentRestart ==
  ASSUME IInv, CurrentInv, Restart
  PROVE  CurrentInv'
<1>1. UNCHANGED <<rows, opened, password>> /\ spared' = spared \cup Unpurged(Handlers)
  BY DEF Restart, accounts
<1>2. \A g \in Handlers : ~InHand(request'[g]) /\ Presents(request'[g])
  BY DEF Restart, Idle, InHand, Presents
<1> QED
  BY <1>1, <1>2, CurrentCut

LEMMA CurrentNext ==
  ASSUME IInv, CurrentInv, [Next]_vars
  PROVE  CurrentInv'
<1>1. CASE UNCHANGED vars
  BY <1>1, CurrentStill DEF vars, accounts, history
<1>2. CASE \E h \in Handlers, b \in Browsers :
             \/ \E u \in Users : Login(h, b, u)
             \/ Call(h, b) \/ SignOut(h, b) \/ UpdatePassword(h, b)
             \/ Connect(h, b) \/ SocketMessage(h, b)
  BY <1>2, CurrentArrival
<1>3. CASE Tick \/ \E b \in Browsers : Disconnect(b)
  BY <1>3, CurrentStill DEF Tick, Disconnect, accounts, history
<1>4. ASSUME NEW u \in Users,
             \/ ForgotPassword(u)
             \/ \E h \in Handlers : ResetPassword(h, u)
             \/ \E status \in BOOLEAN : UpdateBlockStatus(u, status)
      PROVE  CurrentInv'
  <2>1. CASE \E h \in Handlers : ResetPassword(h, u)
    BY <2>1, CurrentArrival
  <2>2. CASE ForgotPassword(u) \/ \E status \in BOOLEAN : UpdateBlockStatus(u, status)
    BY <2>2, CurrentStill DEF ForgotPassword, UpdateBlockStatus, history
  <2> QED
    BY <1>4, <2>1, <2>2
<1>5. ASSUME NEW h \in Handlers, Step(h) \/ CallFails(h) PROVE CurrentInv'
  BY <1>5, CurrentQuiet, CurrentToken, CurrentLogin, CurrentWrite, CurrentPurge, CurrentFails
     DEF Step
<1>6. CASE Restart
  BY <1>6, CurrentRestart
<1> QED
  BY <1>1, <1>2, <1>3, <1>4, <1>5, <1>6 DEF Next

\* However renewals, logins, failures and restarts race with a password change
\* (updatePassword, resetPassword), a session of an earlier password that is left
\* was in flight when deleteAllTokens ran, or deleteAllTokens did not run.
THEOREM PasswordChangesEnd == Spec => []PasswordChangeEnds
<1>1. Init => CurrentInv
  BY DEF Init, CurrentInv, InHand, Presents, Idle
<1>2. IInv /\ CurrentInv /\ [Next]_vars => CurrentInv'
  BY CurrentNext
<1>3. CurrentInv => PasswordChangeEnds
  BY DEF CurrentInv, Current, PasswordChangeEnds
<1> QED
  BY <1>1, <1>2, <1>3, InitInvariant, NextInvariant, PTL DEF Spec

-----------------------------------------------------------------------------
(* A browser keeps its session, unless it is one of those known to be lost *)

\* Sessions that are over or adrift.
Gone == Over \cup adrift

\* A browser whose session was not ended, not lost and not left adrift can go on with it:
\* what the history variables name are all the ways for a browser to lose its session.
SessionKeptApart ==
  \A b \in Browsers :
    LET t == cookie[b] IN
    t # NoToken /\ t.login \notin ended \cup lost \cup stranded \cup adrift =>
      \/ t \in rows
      \/ \E h \in Handlers : /\ request[h].browser = b
                             /\ request[h].fresh # NoToken
                             /\ request[h].fresh.login = t.login

\* The tokens that browsers and their sockets have, and those that they have presented.
Known ==
  ({cookie[b] : b \in Browsers} \cup {handshake[b] : b \in Browsers}
     \cup {request[h].token : h \in Handlers}) \ {NoToken}

\* A request that carries a token that is in the whitelist.
Bears(r) == r.fresh # NoToken /\ ~InHand(r)

\* Browser b, its socket or a request of it has a token of login l.
Linked(b, l) ==
  \/ b \in Browsers /\ cookie[b] # NoToken /\ cookie[b].login = l
  \/ b \in Browsers /\ handshake[b] # NoToken /\ handshake[b].login = l
  \/ \E h \in Handlers :
       /\ request[h].browser = b
       /\ \/ request[h].token # NoToken /\ request[h].token.login = l
          \/ request[h].fresh # NoToken /\ request[h].fresh.login = l

OneBrowser ==
  \A b, c, l : Linked(b, l) =>
    l \in 1..Len(opened) /\ (Linked(c, l) /\ l \notin Gone => b = c)

StateOK(r) ==
  /\ r.pc \in {"check", "find", "delete"} => r.fresh = NoToken
  /\ r.pc \in {"find", "delete"} => r.token \in Token
  /\ r.pc = "delete" => now - r.token.iat > RefreshAge

\* What a socket renews is in A.
Drifts(r, A) == r.op = "socket" /\ r.fresh # NoToken => r.fresh.login \in A

\* A known token is older than the one that replaces it.
Behind(t, r) ==
  r.fresh # NoToken /\ r.fresh.login = t.login /\ t.login \notin Gone =>
    (InHand(r) => r.op # "login") /\ t.iat < r.fresh.iat

NotAhead(t, row) == row.login = t.login /\ t.login \notin Gone => t.iat <= row.iat

KnownOK ==
  \A t \in Known : /\ \A row \in rows : NotAhead(t, row)
                   /\ \A h \in Handlers : Behind(t, request[h])

BearsOK ==
  \A h \in Handlers : Bears(request[h]) =>
    \/ request[h].fresh.login \in Gone
    \/ /\ request[h].fresh \in rows
       /\ \A g \in Handlers \ {h} :
            Bears(request[g]) => request[g].fresh.login # request[h].fresh.login

KeptInv ==
  /\ \A h \in Handlers : StateOK(request[h]) /\ Drifts(request[h], adrift)
  /\ OneBrowser /\ KnownOK /\ BearsOK /\ SessionKeptApart

\* The next token of browser b's session is on its way with request r.
Carries(r, b) ==
  r.browser = b /\ r.fresh # NoToken /\ r.fresh.login = cookie[b].login

LEMMA KeptCarries ==
  SessionKeptApart <=>
    \A b \in Browsers :
      cookie[b] # NoToken /\ cookie[b].login \notin Gone \cup stranded =>
        cookie[b] \in rows \/ \E h \in Handlers : Carries(request[h], b)
BY DEF SessionKeptApart, Carries, Over, Gone

\* A socket opens with the cookie of its browser, or closes.
SocketsOf == \A b \in Browsers : handshake'[b] \in {handshake[b], cookie[b], NoToken}

\* No login moves to another browser.
LEMMA OneBrowserKept ==
  ASSUME IInv, OneBrowser, NEW h \in Handlers, NEW r, Set(h, r),
         UNCHANGED cookie, SocketsOf, Gone \subseteq Gone',
         Len(opened) \in Nat, Len(opened') \in Nat, Len(opened) <= Len(opened'),
         r.token # NoToken => Linked(r.browser, r.token.login),
         r.fresh # NoToken =>
           \/ Linked(r.browser, r.fresh.login)
           \/ r.fresh.login \in Gone' /\ r.fresh.login \in 1..Len(opened)
           \/ r.fresh.login = Len(opened') /\ Len(opened) < Len(opened')
              /\ (r.token = NoToken \/ Linked(r.browser, r.token.login))
  PROVE  OneBrowser'
<1>1. request'[h] = r /\ \A g \in Handlers \ {h} : request'[g] = request[g]
  BY DEF Set, IInv, TypeOK
<1> DEFINE Opens(b, l) == /\ b = r.browser /\ l = Len(opened')
                          /\ Len(opened) < Len(opened')
           Drops(l) == l \in Gone' /\ l \in 1..Len(opened)
<1>2. ASSUME NEW b, NEW l, Linked(b, l)' PROVE Linked(b, l) \/ Opens(b, l) \/ Drops(l)
  <2>1. CASE b \in Browsers /\ cookie[b] # NoToken /\ cookie[b].login = l
    BY <2>1 DEF Linked
  <2>2. CASE b \in Browsers /\ handshake'[b] # NoToken /\ handshake'[b].login = l
    BY <2>2 DEF Linked, SocketsOf
  <2>3. ASSUME NEW g \in Handlers, request'[g].browser = b,
               \/ request'[g].token # NoToken /\ request'[g].token.login = l
               \/ request'[g].fresh # NoToken /\ request'[g].fresh.login = l
        PROVE  Linked(b, l) \/ Opens(b, l) \/ Drops(l)
    <3>1. CASE g = h
      BY <1>1, <2>3, <3>1
    <3>2. CASE g # h
      BY <1>1, <2>3, <3>2 DEF Linked
    <3> QED
      BY <3>1, <3>2
  <2> QED
    BY <1>2, <2>1, <2>2, <2>3 DEF Linked
<1>3. ASSUME NEW b, NEW c, NEW l, Linked(b, l)'
      PROVE  l \in 1..Len(opened') /\ (Linked(c, l)' /\ l \notin Gone' => b = c)
  <2>1. Linked(b, l) => l \in 1..Len(opened)
    BY DEF OneBrowser
  <2>2. Linked(b, l) \/ Opens(b, l) \/ Drops(l)
    BY <1>2, <1>3
  <2>3. ASSUME Linked(c, l)', l \notin Gone' PROVE b = c
    <3>1. Linked(c, l) \/ Opens(c, l)
      BY <1>2, <2>3
    <3>2. CASE Linked(b, l)
      <4>1. l \notin Gone
        BY <2>3
      <4> QED
        BY <2>1, <3>1, <3>2, <4>1 DEF OneBrowser
    <3>3. CASE Opens(b, l)
      <4>1. ~Linked(c, l)
        BY <3>3 DEF OneBrowser
      <4> QED
        BY <3>1, <3>3, <4>1
    <3> QED
      BY <2>2, <2>3, <3>2, <3>3
  <2>4. l \in 1..Len(opened')
    BY <2>1, <2>2
  <2> QED
    BY <2>3, <2>4
<1> HIDE DEF Opens, Drops
<1> QED
  BY <1>3 DEF OneBrowser

\* A step of one request that leaves the browsers alone.
LEMMA KeptStep ==
  ASSUME IInv, KeptInv, NEW h \in Handlers, NEW r, Set(h, r),
         UNCHANGED <<now, cookie>>, SocketsOf, StateOK(r), Drifts(r, adrift'), OneBrowser',
         Over \subseteq Over', adrift \subseteq adrift', stranded \subseteq stranded',
         r.token # NoToken => r.token \in Known,
         \A t \in Known : Behind(t, r) /\ \A row \in rows' \ rows : NotAhead(t, row),
         \A g \in Handlers \ {h} : Bears(request[g]) =>
           \/ request[g].fresh.login \in Gone'
           \/ request[g].fresh \in rows => request[g].fresh \in rows',
         Bears(r) => \/ r.fresh.login \in Gone'
                     \/ /\ r.fresh \in rows'
                        /\ \A g \in Handlers \ {h} :
                             Bears(request[g]) => request[g].fresh.login # r.fresh.login,
         \A b \in Browsers : cookie[b] \in rows \ rows' =>
           cookie[b].login \in Gone' \/ Carries(r, b),
         \A b \in Browsers : cookie[b] # NoToken /\ Carries(request[h], b) =>
           Carries(r, b) \/ cookie[b].login \in Gone' \cup stranded'
  PROVE  KeptInv'
<1>1. request'[h] = r /\ \A g \in Handlers \ {h} : request'[g] = request[g]
  BY DEF Set, IInv, TypeOK
<1>2. \A g \in Handlers : StateOK(request'[g]) /\ Drifts(request'[g], adrift')
  BY <1>1 DEF KeptInv, Drifts
<1>3. Gone \subseteq Gone'
  BY DEF Gone
<1>4. Known' \subseteq Known
  BY <1>1 DEF Known, SocketsOf
<1>5. KnownOK'
  <2> SUFFICES ASSUME NEW t \in Known
               PROVE  /\ \A row \in rows' : NotAhead(t, row)'
                      /\ \A g \in Handlers : Behind(t, request[g])'
    BY <1>4 DEF KnownOK
  <2>1. \A row \in rows' : NotAhead(t, row)'
    <3>1. \A row \in rows' : NotAhead(t, row)
      BY DEF KeptInv, KnownOK
    <3> QED
      BY <1>3, <3>1 DEF NotAhead
  <2>2. ASSUME NEW g \in Handlers PROVE Behind(t, request[g])'
    <3>1. PICK q : q = request'[g] /\ Behind(t, q)
      BY <1>1 DEF KeptInv, KnownOK
    <3>2. Behind(t, q)'
      BY <1>3, <3>1 DEF Behind, InHand
    <3> QED
      BY <3>1, <3>2 DEF Behind, InHand
  <2> QED
    BY <2>1, <2>2
<1>6. BearsOK'
  <2> SUFFICES ASSUME NEW g \in Handlers, Bears(request'[g]), request'[g].fresh.login \notin Gone'
               PROVE  /\ request'[g].fresh \in rows'
                      /\ \A i \in Handlers \ {g} :
                           Bears(request'[i]) => request'[i].fresh.login # request'[g].fresh.login
    BY DEF BearsOK, Bears, InHand
  <2>1. CASE g = h
    BY <1>1, <2>1
  <2>2. CASE g # h
    <3>1. request'[g] = request[g]
      BY <1>1, <2>2
    <3>2. request[g].fresh \in rows /\ \A i \in Handlers \ {g} :
            Bears(request[i]) => request[i].fresh.login # request[g].fresh.login
      BY <1>3, <3>1 DEF KeptInv, BearsOK
    <3>3. request[g].fresh \in rows'
      BY <2>2, <3>1, <3>2
    <3>4. Bears(r) => r.fresh.login # request[g].fresh.login
      BY <2>2, <3>1
    <3> QED
      BY <1>1, <2>2, <3>1, <3>2, <3>3, <3>4
  <2> QED
    BY <2>1, <2>2
<1>7. SessionKeptApart'
  <2> SUFFICES ASSUME NEW b \in Browsers, cookie[b] # NoToken,
                      cookie[b].login \notin Gone' \cup stranded'
               PROVE  cookie[b] \in rows' \/ \E g \in Handlers : Carries(request'[g], b)
    BY DEF SessionKeptApart, Carries, Over, Gone
  <2>1. cookie[b] \in rows \/ \E g \in Handlers : Carries(request[g], b)
    BY <1>3, KeptCarries DEF KeptInv
  <2>2. CASE cookie[b] \in rows
    BY <1>1, <2>2
  <2>3. ASSUME NEW g \in Handlers, Carries(request[g], b)
        PROVE  \E i \in Handlers : Carries(request'[i], b)
    BY <1>1, <2>3
  <2> QED
    BY <2>1, <2>2, <2>3
<1> QED
  BY <1>2, <1>5, <1>6, <1>7 DEF KeptInv, StateOK, Drifts

LEMMA KnownFacts ==
  ASSUME IInv, KeptInv
  PROVE  /\ \A t \in Known : t \in Token /\ t.login \in 1..Len(opened)
         /\ \A b \in Browsers : cookie[b] # NoToken => cookie[b] \in Known
         /\ \A h \in Handlers : request[h].token # NoToken => request[h].token \in Known
<1>1. ASSUME NEW t \in Known PROVE t \in Token /\ t.login \in 1..Len(opened)
  <2>1. CASE \E b \in Browsers : t \in {cookie[b], handshake[b]}
    BY <1>1, <2>1 DEF Known, KeptInv, OneBrowser, Linked, IInv, TypeOK
  <2>2. ASSUME NEW h \in Handlers, t = request[h].token
        PROVE  t \in Token /\ t.login \in 1..Len(opened)
    <3>1. request[h] \in Request /\ t # NoToken
      BY <1>1, <2>2 DEF IInv, TypeOK, Known
    <3>2. Linked(request[h].browser, t.login)
      BY <2>2, <3>1 DEF Linked
    <3> QED
      BY <2>2, <3>1, <3>2 DEF Request, KeptInv, OneBrowser
  <2> QED
    BY <1>1, <2>1, <2>2 DEF Known
<1> QED
  BY <1>1 DEF Known

\* A request goes on with what it has, or it is done: without a fresh token, or
\* with one whose login is over or that no browser has yet.
LEMMA KeptMoves ==
  ASSUME IInv, KeptInv, NEW h \in Handlers,
         NEW r, Set(h, r),
         UNCHANGED <<now, cookie, handshake, opened, adrift>>, rows' \subseteq rows,
         Over \subseteq Over', stranded \subseteq stranded',
         \A row \in rows \ rows' : row.login \in Over',
         \/ /\ r = Idle
            /\ \/ request[h].fresh = NoToken
               \/ request[h].fresh.login \in Over'
               \/ InHand(request[h]) /\ request[h].op = "login"
         \/ /\ ~InHand(r) /\ ~InHand(request[h]) /\ StateOK(r)
            /\ r.token = request[h].token /\ r.fresh = request[h].fresh
            /\ r.browser = request[h].browser /\ r.op = request[h].op
  PROVE  KeptInv'
<1>n. Len(opened) \in Nat
  BY LenProperties DEF IInv, TypeOK
<1>i. Idle.token = NoToken /\ Idle.fresh = NoToken /\ StateOK(Idle)
  BY DEF Idle, StateOK
<1>g. Gone \subseteq Gone' /\ Over' \subseteq Gone' /\ SocketsOf
  BY DEF Gone, SocketsOf
<1>1. /\ r.token # NoToken => r.token = request[h].token /\ r.browser = request[h].browser
      /\ r.fresh # NoToken => /\ r.fresh = request[h].fresh /\ r.browser = request[h].browser
                              /\ ~InHand(r) /\ ~InHand(request[h])
                              /\ r.op = request[h].op
      /\ StateOK(r)
  BY <1>i
<1>d. Drifts(r, adrift')
  BY <1>1 DEF KeptInv, Drifts
<1>2. OneBrowser'
  <2>1. r.token # NoToken => Linked(r.browser, r.token.login)
    BY <1>1 DEF Linked
  <2>2. r.fresh # NoToken => Linked(r.browser, r.fresh.login)
    BY <1>1 DEF Linked
  <2>3. Len(opened') \in Nat /\ Len(opened) <= Len(opened') /\ OneBrowser
    BY <1>n DEF KeptInv
  <2> QED
    BY <1>n, <1>g, <2>1, <2>2, <2>3, OneBrowserKept
<1>3. \A t \in Known : Behind(t, r)
  BY <1>1 DEF KeptInv, KnownOK, Behind
<1>4. r.token # NoToken => r.token \in Known
  BY <1>1 DEF Known
<1>5. Bears(r) => \/ r.fresh.login \in Gone'
                  \/ /\ r.fresh \in rows'
                     /\ \A g \in Handlers \ {h} :
                          Bears(request[g]) => request[g].fresh.login # r.fresh.login
  BY <1>1, <1>g DEF KeptInv, BearsOK, Bears
<1>6. ASSUME NEW b \in Browsers, cookie[b] # NoToken, Carries(request[h], b)
      PROVE  Carries(r, b) \/ cookie[b].login \in Gone' \cup stranded'
  <2>1. ~(InHand(request[h]) /\ request[h].op = "login") \/ cookie[b].login \in Gone
    BY <1>6, KnownFacts DEF KeptInv, KnownOK, Behind, Carries
  <2> QED
    BY <1>6, <1>g, <2>1 DEF Carries
<1>7. /\ \A row \in rows' \ rows : FALSE
      /\ \A g \in Handlers \ {h} : Bears(request[g]) =>
           \/ request[g].fresh.login \in Gone'
           \/ request[g].fresh \in rows => request[g].fresh \in rows'
      /\ \A b \in Browsers : cookie[b] \in rows \ rows' => cookie[b].login \in Gone'
  BY <1>g
<1> QED
  BY <1>g, <1>d, <1>1, <1>2, <1>3, <1>4, <1>5, <1>6, <1>7, KeptStep

LEMMA KeptArrival ==
  ASSUME IInv, KeptInv, NEW h \in Handlers,
         \/ \E b \in Browsers :
              \/ \E u \in Users : Login(h, b, u)
              \/ Call(h, b) \/ SignOut(h, b) \/ UpdatePassword(h, b)
              \/ Connect(h, b) \/ SocketMessage(h, b)
         \/ \E u \in Users : ResetPassword(h, u)
  PROVE  KeptInv'
<1>1. /\ At(h, "idle") /\ UNCHANGED <<now, rows, cookie, opened, Over, adrift, stranded>>
      /\ \E r : /\ Set(h, r) /\ r.fresh = NoToken
                /\ r.pc \in {"check", "find", "compare"}
                /\ r.pc # "find" => r.token = NoToken
                /\ r.pc = "find" => /\ r.token \in Token /\ r.browser \in Browsers
                                    /\ r.token \in {cookie[r.browser], handshake[r.browser]}
  BY Arrivals DEF history, Over
<1>2. PICK r : /\ Set(h, r) /\ r.fresh = NoToken
               /\ r.pc \in {"check", "find", "compare"}
               /\ r.pc # "find" => r.token = NoToken
               /\ r.pc = "find" => /\ r.token \in Token /\ r.browser \in Browsers
                                   /\ r.token \in {cookie[r.browser], handshake[r.browser]}
  BY <1>1
<1>3. SocketsOf /\ Gone' = Gone
  BY <1>1 DEF Login, Call, SignOut, UpdatePassword, Arrive, Connect, SocketMessage, ResetPassword,
         clients, SocketsOf, IInv, TypeOK, Gone
<1>4. request[h].fresh = NoToken
  BY <1>1 DEF At, IInv, RequestOK, Idle
<1>5. StateOK(r) /\ Drifts(r, adrift')
  BY <1>2 DEF StateOK, Drifts
<1>6. r.token # NoToken => r.token \in Known /\ Linked(r.browser, r.token.login)
  BY <1>2 DEF Known, Linked
<1>7. OneBrowser'
  <2>1. Len(opened) \in Nat /\ UNCHANGED opened
    BY <1>1, LenProperties DEF IInv, TypeOK
  <2> QED
    BY <1>1, <1>2, <1>3, <1>6, <2>1, OneBrowserKept DEF KeptInv
<1>8. \A t \in Known : Behind(t, r)
  BY <1>2 DEF Behind
<1>9. ~Bears(r) /\ \A b \in Browsers : ~Carries(request[h], b)
  BY <1>2, <1>4 DEF Bears, Carries
<1> QED
  BY <1>1, <1>2, <1>3, <1>5, <1>6, <1>7, <1>8, <1>9, KeptStep

LEMMA KeptSign ==
  ASSUME IInv, KeptInv, NEW h \in Handlers, SignToken(h)
  PROVE  KeptInv'
<1>q. PICK q \in Request : q = request[h] /\ RequestOK(q) /\ q.pc = "sign" /\ StateOK(q)
  BY DEF IInv, TypeOK, SignToken, At, KeptInv
<1>u. /\ UNCHANGED <<now, rows, cookie, handshake, opened, Over, adrift, Gone, stranded>>
      /\ SocketsOf
  BY DEF SignToken, clients, history, Over, Gone, SocketsOf
<1>n. Len(opened) \in Nat
  BY LenProperties DEF IInv, TypeOK
<1>1. q.op = "login" /\ q.fresh \in Token /\ q.fresh # NoToken /\ InHand(q)
  BY <1>q, SessionsAssumption DEF RequestOK, InHand, Token, SessionsAssumption
<1>2. PICK f \in Token : f = [q.fresh EXCEPT !.iat = now] /\ f.login = q.fresh.login
  <2>1. now \in Nat
    BY DEF IInv, TypeOK
  <2>2. PICK t \in Token : t = q.fresh
    BY <1>1
  <2>3. PICK f : f = [t EXCEPT !.iat = now]
    OBVIOUS
  <2>4. f \in Token /\ f.login = t.login
    BY <2>1, <2>3 DEF Token
  <2> QED
    BY <2>2, <2>3, <2>4
<1>3. PICK r : r = [q EXCEPT !.pc = "insert", !.fresh = f]
  OBVIOUS
<1>4. /\ r.pc = "insert" /\ r.fresh = f /\ r.op = q.op /\ r.token = q.token
      /\ r.browser = q.browser
  BY <1>3 DEF Request
<1>5. Set(h, r)
  BY <1>q, <1>2, <1>3 DEF SignToken
<1>6. StateOK(r) /\ ~Bears(r) /\ Drifts(r, adrift')
  BY <1>1, <1>4 DEF StateOK, Bears, InHand, Drifts
<1>7. r.token # NoToken => r.token \in Known /\ Linked(r.browser, r.token.login)
  BY <1>q, <1>4 DEF Known, Linked
<1>8. Linked(r.browser, r.fresh.login)
  BY <1>q, <1>1, <1>2, <1>4 DEF Linked
<1>9. OneBrowser'
  BY <1>n, <1>u, <1>5, <1>7, <1>8, OneBrowserKept DEF KeptInv
<1>10. \A t \in Known : Behind(t, r)
  BY <1>q, <1>1, <1>2, <1>4 DEF KeptInv, KnownOK, Behind
<1>11. \A b \in Browsers : Carries(q, b) => Carries(r, b)
  <2>1. f # NoToken
    BY SessionsAssumption DEF Token, SessionsAssumption
  <2> QED
    BY <1>2, <1>4, <2>1 DEF Carries
<1> QED
  BY <1>q, <1>u, <1>5, <1>6, <1>7, <1>9, <1>10, <1>11, KeptStep

LEMMA KeptDelete ==
  ASSUME IInv, KeptInv, NEW h \in Handlers, DeleteToken(h)
  PROVE  KeptInv'
<1>q. PICK q \in Request : q = request[h] /\ RequestOK(q) /\ q.pc = "delete" /\ StateOK(q)
  BY DEF IInv, TypeOK, DeleteToken, At, KeptInv
<1>u. /\ UNCHANGED <<now, cookie, handshake, opened, Over, stranded>> /\ SocketsOf
      /\ adrift \subseteq adrift' /\ Gone \subseteq Gone' /\ adrift' \subseteq Gone'
  <2>1. adrift \subseteq adrift'
    BY DEF DeleteToken
  <2> QED
    BY <2>1 DEF DeleteToken, clients, Over, Gone, SocketsOf
<1>n. Len(opened) \in Nat /\ now \in Nat /\ RefreshAge \in Nat
  BY LenProperties, SessionsAssumption DEF IInv, TypeOK, SessionsAssumption
<1>1. /\ q.token \in Token /\ q.token # NoToken /\ q.fresh = NoToken /\ q.op # "login"
      /\ q.token.iat < now /\ q.token \in Known
  <2>1. q.token \in Token /\ q.fresh = NoToken /\ q.op # "login"
    BY <1>q DEF StateOK, RequestOK
  <2>2. q.token # NoToken
    BY <2>1, SessionsAssumption DEF Token, SessionsAssumption
  <2>3. q.token.iat \in Nat /\ now - q.token.iat > RefreshAge
    BY <1>q, <2>1 DEF StateOK, Token
  <2> QED
    BY <1>n, <1>q, <2>1, <2>2, <2>3, KnownFacts
<1>2. CASE RowsOf(q.token) = {} /\ Set(h, Idle) /\ UNCHANGED <<rows, adrift>>
  BY <1>q, <1>u, <1>1, <1>2, KeptMoves
<1>3. ASSUME NEW old \in RowsOf(q.token), rows' = rows \ {old},
             Set(h, [q EXCEPT !.pc = "insert",
                              !.fresh = [user |-> q.user, iat |-> now, login |-> old.login]]),
             adrift' = IF q.op = "socket" \/ old # q.token THEN adrift \cup {old.login} ELSE adrift
      PROVE  KeptInv'
  <2>1. old \in rows /\ old \in Token /\ old.login \in 1..Len(opened)
    BY <1>3, Apart DEF RowsOf
  <2>d. old.login \in Gone' \/ (old = q.token /\ q.op # "socket")
    BY <1>3, <1>u
  <2>2. PICK f : f = [user |-> q.user, iat |-> now, login |-> old.login]
    OBVIOUS
  <2>3. PICK r : r = [q EXCEPT !.pc = "insert", !.fresh = f]
    OBVIOUS
  <2>4. /\ r.pc = "insert" /\ r.fresh = f /\ r.op = q.op /\ r.token = q.token
        /\ r.browser = q.browser /\ Set(h, r) /\ f.iat = now /\ f.login = old.login
    BY <1>3, <2>2, <2>3 DEF Request
  <2>5. StateOK(r) /\ ~Bears(r) /\ Drifts(r, adrift')
    BY <1>1, <1>3, <2>4 DEF StateOK, Bears, InHand, Drifts
  <2>6. Linked(r.browser, q.token.login)
    BY <1>q, <1>1, <2>4 DEF Linked
  <2>7. OneBrowser'
    <3>1. Linked(r.browser, f.login) \/ (f.login \in Gone' /\ f.login \in 1..Len(opened))
      BY <2>1, <2>4, <2>6, <2>d
    <3> QED
      BY <1>n, <1>u, <2>4, <2>6, <3>1, OneBrowserKept DEF KeptInv
  <2>8. ASSUME NEW t \in Known, t.login = f.login, t.login \notin Gone PROVE t.iat < now
    <3>1. t.iat <= old.iat
      BY <2>1, <2>4, <2>8 DEF KeptInv, KnownOK, NotAhead
    <3>2. old.iat = q.token.iat
      BY <1>3 DEF RowsOf, SameString
    <3>3. t.iat \in Nat /\ old.iat \in Nat /\ old.iat < now
      BY <1>1, <2>1, <3>2, KnownFacts DEF Token
    <3> QED
      BY <1>n, <3>1, <3>3
  <2>9. \A t \in Known : Behind(t, r)
    BY <1>1, <2>4, <2>8 DEF Behind, InHand
  <2>10. ASSUME NEW g \in Handlers \ {h}, Bears(request[g]), request[g].fresh = old
         PROVE  old.login \in Gone'
    <3> SUFFICES ASSUME old = q.token, old.login \notin Gone PROVE FALSE
      BY <1>u, <2>d
    <3>1. Behind(old, request[g])
      BY <1>1 DEF KeptInv, KnownOK
    <3>2. old.iat \in Nat
      BY <2>1 DEF Token
    <3> QED
      BY <2>10, <3>1, <3>2 DEF Behind, Bears
  <2>11. ASSUME NEW b \in Browsers, cookie[b] = old, old.login \notin Gone' PROVE Carries(r, b)
    <3>1. Linked(b, old.login) /\ old.login \notin Gone /\ old = q.token
      BY <1>1, <1>u, <2>d, <2>11 DEF Linked
    <3>2. r.browser = b
      BY <2>6, <3>1 DEF KeptInv, OneBrowser
    <3>3. f # NoToken
      <4>1. f \in [user : Users \cup {q.user}, iat : Nat, login : Nat]
        BY <1>1, <1>n, <2>1, <2>2 DEF Token
      <4>2. q.user \in Users
        BY <1>q DEF RequestOK
      <4> QED
        BY <4>1, <4>2, SessionsAssumption DEF SessionsAssumption
    <3> QED
      BY <2>4, <2>11, <3>2, <3>3 DEF Carries
  <2>12. /\ r.token # NoToken => r.token \in Known
         /\ \A row \in rows' \ rows : FALSE
         /\ \A g \in Handlers \ {h} : Bears(request[g]) =>
              \/ request[g].fresh.login \in Gone'
              \/ request[g].fresh \in rows => request[g].fresh \in rows'
         /\ \A b \in Browsers : cookie[b] \in rows \ rows' =>
              cookie[b].login \in Gone' \/ Carries(r, b)
         /\ \A b \in Browsers : ~Carries(q, b)
    BY <1>1, <1>3, <2>4, <2>10, <2>11 DEF Carries
  <2> QED
    BY <1>q, <1>u, <2>4, <2>5, <2>7, <2>9, <2>12, KeptStep
<1> QED
  BY <1>q, <1>2, <1>3 DEF DeleteToken

LEMMA KeptInsert ==
  ASSUME IInv, KeptInv, NEW h \in Handlers, InsertToken(h)
  PROVE  KeptInv'
<1>q. PICK q \in Request : q = request[h] /\ RequestOK(q) /\ q.pc = "insert" /\ StateOK(q)
  BY DEF IInv, TypeOK, InsertToken, At, KeptInv
<1>u. UNCHANGED <<now, cookie, handshake, opened, ended, stranded, adrift>> /\ SocketsOf
  BY DEF InsertToken, clients, SocketsOf
<1>1. /\ q.fresh \in Token /\ q.fresh # NoToken /\ InHand(q)
      /\ q.op = "socket" => q.fresh.login \in adrift
      /\ q.fresh.login \notin Over /\ \A row \in rows : row.login # q.fresh.login
  <2>1. q.fresh \in Token /\ InHand(q)
    BY <1>q DEF RequestOK, InHand, StateOK
  <2>2. q.fresh # NoToken
    BY <2>1, SessionsAssumption DEF Token, SessionsAssumption
  <2>3. q.op = "socket" => q.fresh.login \in adrift
    BY <1>q, <2>2 DEF KeptInv, Drifts
  <2> QED
    BY <1>q, <2>1, <2>2, <2>3 DEF IInv, HandsDistinct
<1>2. CASE Set(h, Idle) /\ lost' = lost \cup HeldBy({h}) /\ UNCHANGED rows
  <2>1. q.op # "login" => q.fresh.login \in Over'
    BY <1>q, <1>2 DEF HeldBy, Renewing, Over
  <2>2. Over \subseteq Over'
    BY <1>2, <1>u DEF Over
  <2>3. q.fresh.login \in Over' \/ q.op = "login"
    BY <2>1
  <2> QED
    BY <1>q, <1>u, <1>1, <1>2, <2>2, <2>3, KeptMoves
<1>3. CASE /\ rows' = rows \cup {q.fresh} /\ UNCHANGED lost
           /\ Set(h, CASE q.op = "login"  -> [q EXCEPT !.pc = "reply"]
                       [] q.op = "socket" -> [q EXCEPT !.pc = "load", !.fresh = NoToken]
                       [] OTHER           -> [q EXCEPT !.pc = "load"])
  <2>g. Over' = Over /\ Gone' = Gone /\ Gone \subseteq Gone'
    BY <1>3, <1>u DEF Over, Gone
  <2>1. PICK r : /\ \/ r = [q EXCEPT !.pc = "reply"] /\ q.op # "socket"
                    \/ r = [q EXCEPT !.pc = "load"] /\ q.op # "socket"
                    \/ r = [q EXCEPT !.pc = "load", !.fresh = NoToken] /\ q.op = "socket"
                 /\ Set(h, r)
    BY <1>1, <1>3
  <2>2. /\ r.pc \in {"reply", "load"} /\ r.op = q.op
        /\ r.token = q.token /\ r.browser = q.browser
        /\ IF q.op = "socket" THEN r.fresh = NoToken ELSE r.fresh = q.fresh
    BY <2>1 DEF Request
  <2>3. StateOK(r) /\ ~InHand(r) /\ Drifts(r, adrift')
    BY <2>2 DEF StateOK, InHand, Drifts
  <2>4. q.op = "socket" => q.fresh.login \in Gone
    BY <1>1 DEF Gone
  <2>5. r.token # NoToken => r.token \in Known /\ Linked(r.browser, r.token.login)
    BY <1>q, <2>2 DEF Known, Linked
  <2>6. r.fresh # NoToken => Linked(r.browser, r.fresh.login)
    BY <1>q, <1>1, <2>2 DEF Linked
  <2>7. OneBrowser'
    <3>1. Len(opened) \in Nat
      BY LenProperties DEF IInv, TypeOK
    <3> QED
      BY <1>u, <2>g, <2>1, <2>5, <2>6, <3>1, OneBrowserKept DEF KeptInv
  <2>8. ASSUME NEW t \in Known PROVE Behind(t, r) /\ NotAhead(t, q.fresh)
    <3>1. Behind(t, q)
      BY <1>q DEF KeptInv, KnownOK
    <3>2. t.iat \in Nat /\ q.fresh.iat \in Nat
      BY <1>1, KnownFacts DEF Token
    <3>3. q.fresh.login = t.login /\ t.login \notin Gone => t.iat < q.fresh.iat
      BY <1>1, <3>1 DEF Behind
    <3>4. Behind(t, r)
      BY <2>2, <2>3, <3>3 DEF Behind
    <3>5. NotAhead(t, q.fresh)
      BY <3>2, <3>3 DEF NotAhead
    <3> QED
      BY <3>4, <3>5
  <2>9. ASSUME NEW g \in Handlers \ {h}, Bears(request[g]), r.fresh # NoToken
        PROVE  request[g].fresh.login # r.fresh.login \/ r.fresh.login \in Gone'
    <3>1. \/ request[g].fresh.login \in Gone
          \/ request[g].fresh \in rows
      BY <2>9 DEF KeptInv, BearsOK
    <3> QED
      BY <1>1, <2>g, <2>2, <2>9, <3>1
  <2>10. /\ r.fresh # NoToken => r.fresh \in rows'
         /\ \A row \in rows' \ rows : row = q.fresh
    BY <1>3, <2>2
  <2>11. /\ \A g \in Handlers \ {h} : request[g].fresh \in rows => request[g].fresh \in rows'
         /\ \A b \in Browsers : cookie[b] \notin rows \ rows'
         /\ \A b \in Browsers : Carries(q, b) => Carries(r, b) \/ cookie[b].login \in Gone'
    BY <1>3, <2>g, <2>2, <2>4 DEF Carries
  <2>12. Bears(r) => \/ r.fresh.login \in Gone'
                     \/ /\ r.fresh \in rows'
                        /\ \A g \in Handlers \ {h} :
                             Bears(request[g]) => request[g].fresh.login # r.fresh.login
    BY <2>9, <2>10 DEF Bears
  <2> QED
    BY <1>q, <1>u, <2>g, <2>1, <2>3, <2>5, <2>7, <2>8, <2>10, <2>11, <2>12, KeptStep
<1> QED
  BY <1>q, <1>2, <1>3 DEF InsertToken

LEMMA KeptLogin ==
  ASSUME IInv, KeptInv, NEW h \in Handlers, CheckCredentials(h)
  PROVE  KeptInv'
<1>q. PICK q \in Request : q = request[h] /\ RequestOK(q) /\ q.pc = "check" /\ StateOK(q)
  BY DEF IInv, TypeOK, CheckCredentials, At, KeptInv
<1>u. UNCHANGED <<now, rows, cookie, handshake, Over, adrift, Gone, stranded>> /\ SocketsOf
  BY DEF CheckCredentials, clients, Over, Gone, SocketsOf
<1>n. opened \in Seq(Nat) /\ Len(opened) \in Nat /\ now \in Nat /\ q.pw \in Nat
  BY <1>q, LenProperties DEF IInv, TypeOK, Request
<1>1. q.fresh = NoToken /\ q.op = "login"
  BY <1>q DEF StateOK, RequestOK
<1>2. CASE Set(h, Idle) /\ UNCHANGED opened
  BY <1>q, <1>u, <1>1, <1>2, KeptMoves
<1>3. CASE /\ Set(h, [q EXCEPT !.pc = "sign", !.fresh = [user |-> q.user, iat |-> now,
                                                         login |-> Len(opened) + 1]])
           /\ opened' = Append(opened, q.pw)
  <2>1. PICK f : f = [user |-> q.user, iat |-> now, login |-> Len(opened) + 1]
    OBVIOUS
  <2>2. PICK r : r = [q EXCEPT !.pc = "sign", !.fresh = f]
    OBVIOUS
  <2>3. /\ r.pc = "sign" /\ r.fresh = f /\ r.op = q.op /\ r.token = q.token
        /\ r.browser = q.browser /\ Set(h, r) /\ f.login = Len(opened) + 1
    BY <1>3, <2>1, <2>2 DEF Request
  <2>4. StateOK(r) /\ ~Bears(r) /\ Drifts(r, adrift')
    BY <1>1, <2>3 DEF StateOK, Bears, InHand, Drifts
  <2>5. r.token # NoToken => r.token \in Known /\ Linked(r.browser, r.token.login)
    BY <1>q, <2>3 DEF Known, Linked
  <2>6. Len(opened') = Len(opened) + 1
    BY <1>3, <1>n, AppendProperties
  <2>7. OneBrowser'
    <3>1. /\ OneBrowser /\ Len(opened') \in Nat /\ Len(opened) < Len(opened')
          /\ Len(opened) <= Len(opened') /\ r.fresh.login = Len(opened')
          /\ r.token = NoToken \/ Linked(r.browser, r.token.login)
      BY <1>n, <2>3, <2>5, <2>6 DEF KeptInv
    <3> QED
      BY <1>n, <1>u, <2>3, <2>5, <3>1, OneBrowserKept
  <2>8. \A t \in Known : Behind(t, r)
    <3>1. \A t \in Known : t.login # f.login
      BY <1>n, <2>3, KnownFacts
    <3> QED
      BY <2>3, <3>1 DEF Behind
  <2>9. \A b \in Browsers : ~Carries(q, b)
    BY <1>1 DEF Carries
  <2> QED
    BY <1>q, <1>u, <2>3, <2>4, <2>5, <2>7, <2>8, <2>9, KeptStep
<1> QED
  BY <1>q, <1>2, <1>3 DEF CheckCredentials

LEMMA KeptSettles ==
  ASSUME IInv, KeptInv, NEW h \in Handlers, Settle(h), ~InHand(request[h]),
         UNCHANGED <<now, cookie, handshake, opened, adrift>>, rows' \subseteq rows,
         Over \subseteq Over', stranded \subseteq stranded',
         \A row \in rows \ rows' : row.login \in Over'
  PROVE  KeptInv'
<1>q. PICK q \in Request : q = request[h] /\ StateOK(q) /\ ~InHand(q)
  BY DEF IInv, TypeOK, KeptInv
<1>1. CASE Set(h, Idle) /\ request[h].fresh = NoToken
  BY <1>1, KeptMoves
<1>2. CASE Goto(h, "reply")
  <2>1. PICK r : r = [q EXCEPT !.pc = "reply"]
    OBVIOUS
  <2>2. /\ Set(h, r) /\ r.pc = "reply" /\ r.op = q.op /\ r.token = q.token
        /\ r.fresh = q.fresh /\ r.browser = q.browser
    BY <1>q, <1>2, <2>1 DEF Goto, Request
  <2>3. ~InHand(r) /\ StateOK(r)
    BY <1>q, <2>2 DEF InHand, StateOK
  <2> QED
    BY <1>q, <2>2, <2>3, KeptMoves
<1> QED
  BY <1>1, <1>2 DEF Settle

LEMMA KeptGoes ==
  ASSUME IInv, KeptInv, NEW h \in Handlers,
         NEW pc \in {"delete", "load", "write", "purge", "signout", "compare", "clear"},
         Goto(h, pc), ~InHand(request[h]),
         pc = "delete" => At(h, "find") /\ now - request[h].token.iat > RefreshAge,
         UNCHANGED <<now, cookie, handshake, opened, adrift>>, rows' \subseteq rows,
         Over \subseteq Over', stranded \subseteq stranded',
         \A row \in rows \ rows' : row.login \in Over'
  PROVE  KeptInv'
<1>q. PICK q \in Request : q = request[h] /\ StateOK(q) /\ ~InHand(q)
  BY DEF IInv, TypeOK, KeptInv
<1>1. PICK r : r = [q EXCEPT !.pc = pc]
  OBVIOUS
<1>2. /\ Set(h, r) /\ r.pc = pc /\ r.op = q.op /\ r.token = q.token
      /\ r.fresh = q.fresh /\ r.browser = q.browser
  BY <1>q, <1>1 DEF Goto, Request
<1>3. ~InHand(r) /\ StateOK(r)
  BY <1>q, <1>2 DEF InHand, StateOK, At
<1> QED
  BY <1>q, <1>2, <1>3, KeptMoves

LEMMA KeptQuiet ==
  ASSUME IInv, KeptInv, NEW h \in Handlers,
         \/ FindToken(h) \/ LoadUser(h) \/ Compare(h) \/ WritePassword(h)
         \/ DeletePresented(h) \/ DeleteAllTokens(h)
  PROVE  KeptInv'
<1>q. PICK q \in Request : q = request[h] /\ StateOK(q)
  BY DEF IInv, TypeOK, KeptInv
<1>u. ~InHand(q) /\ UNCHANGED <<now, cookie, handshake, opened, lost, stranded, adrift>>
  BY <1>q DEF FindToken, LoadUser, Compare, WritePassword, DeletePresented, DeleteAllTokens,
              At, InHand, clients, history
<1>1. CASE FindToken(h)
  <2>1. q.fresh = NoToken /\ At(h, "find")
    BY <1>q, <1>1 DEF FindToken, At, StateOK
  <2>2. UNCHANGED <<rows, Over>>
    BY <1>1 DEF FindToken, history, Over
  <2>3. now - q.token.iat > RefreshAge <=> ~(now - q.token.iat <= RefreshAge)
    <3>1. now \in Nat /\ RefreshAge \in Nat
      BY SessionsAssumption DEF SessionsAssumption, IInv, TypeOK
    <3>2. q.token \in Token
      BY <1>q, <2>1 DEF StateOK, At
    <3> QED
      BY <3>1, <3>2 DEF Token
  <2>4. CASE RowsOf(q.token) = {}
    BY <1>q, <1>u, <1>1, <2>1, <2>2, <2>4, KeptMoves DEF FindToken
  <2>5. CASE RowsOf(q.token) # {} /\ now - q.token.iat > RefreshAge
    <3>1. Goto(h, "delete")
      BY <1>q, <1>1, <2>3, <2>5 DEF FindToken
    <3> QED
      BY <1>q, <1>u, <2>1, <2>2, <2>5, <3>1, KeptGoes
  <2>6. CASE RowsOf(q.token) # {} /\ now - q.token.iat <= RefreshAge
    <3>1. Goto(h, "load")
      BY <1>q, <1>1, <2>3, <2>6 DEF FindToken
    <3> QED
      BY <1>q, <1>u, <2>1, <2>2, <3>1, KeptGoes
  <2> QED
    BY <2>3, <2>4, <2>5, <2>6
<1>2. CASE LoadUser(h) \/ Compare(h)
  <2>1. UNCHANGED <<rows, Over>>
    BY <1>2 DEF LoadUser, Compare, history, Over
  <2>2. Settle(h) \/ \E pc \in {"write", "signout", "compare"} : Goto(h, pc)
    BY <1>2 DEF LoadUser, Compare, AfterLoad
  <2> QED
    BY <1>q, <1>u, <2>1, <2>2, KeptSettles, KeptGoes
<1>3. CASE WritePassword(h)
  <2>1. UNCHANGED <<rows, Over>> /\ Goto(h, "purge")
    BY <1>3 DEF WritePassword, history, Over
  <2> QED
    BY <1>q, <1>u, <2>1, KeptGoes
<1>4. CASE DeletePresented(h)
  <2>1. CASE Settle(h) /\ UNCHANGED <<rows, ended>>
    BY <1>q, <1>u, <2>1, KeptSettles DEF Over
  <2>2. ASSUME NEW old \in rows, rows' = rows \ {old}, ended' = ended \cup {old.login},
               Goto(h, "clear")
        PROVE  KeptInv'
    <3>1. /\ rows' \subseteq rows /\ Over \subseteq Over'
          /\ \A row \in rows \ rows' : row.login \in Over'
      BY <1>u, <2>2 DEF Over
    <3> QED
      BY <1>q, <1>u, <2>2, <3>1, KeptGoes
  <2> QED
    BY <1>4, <2>1, <2>2 DEF DeletePresented, RowsOf
<1>5. CASE DeleteAllTokens(h)
  <2>1. /\ rows' \subseteq rows /\ Over \subseteq Over' /\ Settle(h)
        /\ \A row \in rows \ rows' : row.login \in Over'
    BY <1>u, <1>5 DEF DeleteAllTokens, LoginsOf, Over
  <2> QED
    BY <1>q, <1>u, <2>1, KeptSettles
<1> QED
  BY <1>1, <1>2, <1>3, <1>4, <1>5

LEMMA KeptFails ==
  ASSUME IInv, KeptInv, NEW h \in Handlers, CallFails(h)
  PROVE  KeptInv'
<1>q. PICK q \in Request : q = request[h] /\ StateOK(q) /\ RequestOK(q)
  BY DEF IInv, TypeOK, KeptInv
<1>u. UNCHANGED <<now, rows, cookie, handshake, opened, stranded, adrift>> /\ Over \subseteq Over'
  BY DEF CallFails, clients, Over
<1>1. CASE q.pc = "insert"
  <2>1. Set(h, Idle) /\ lost' = lost \cup HeldBy({h})
    BY <1>q, <1>1 DEF CallFails
  <2>2. q.op # "login" => q.fresh.login \in Over'
    BY <1>q, <1>1, <2>1 DEF HeldBy, Renewing, Over
  <2>3. InHand(q)
    BY <1>1 DEF InHand
  <2> QED
    BY <1>q, <1>u, <2>1, <2>2, <2>3, KeptMoves
<1>2. CASE q.pc # "insert"
  <2>1. Settle(h) /\ ~InHand(q)
    BY <1>q, <1>2 DEF CallFails, InHand
  <2> QED
    BY <1>q, <1>u, <2>1, KeptSettles
<1> QED
  BY <1>1, <1>2

\* A browser stores what it receives, which is its session's latest token.
LEMMA KeptReply ==
  ASSUME IInv, KeptInv, NEW h \in Handlers, Reply(h)
  PROVE  KeptInv'
<1>q. PICK q \in Request : q = request[h] /\ StateOK(q) /\ q.pc \in {"reply", "clear"}
  BY DEF IInv, TypeOK, KeptInv, Reply
<1>i. Idle.token = NoToken /\ Idle.fresh = NoToken /\ StateOK(Idle)
  BY DEF Idle, StateOK
<1>1. request'[h] = Idle /\ \A g \in Handlers \ {h} : request'[g] = request[g]
  BY DEF Reply, Set, IInv, TypeOK
<1>u. UNCHANGED <<now, rows, handshake, opened, adrift, Gone, stranded>>
  BY DEF Reply, history, Over, Gone
<1>2. ASSUME NEW b \in Browsers
      PROVE  \/ cookie'[b] = cookie[b] /\ b # q.browser
             \/ b = q.browser /\ (cookie'[b] = NoToken \/ (cookie'[b] = q.fresh /\ q.pc = "reply"))
  <2>1. /\ cookie \in [Browsers -> Token \cup {NoToken}]
        /\ cookie' = [cookie EXCEPT ![q.browser] = IF q.pc = "clear" THEN NoToken ELSE q.fresh]
    BY <1>q DEF Reply, IInv, TypeOK
  <2> QED
    BY <1>q, <2>1
<1>3. q.fresh # NoToken => Bears(q)
  BY <1>q DEF Bears, InHand
<1>4. Bears(q) =>
        \/ q.fresh.login \in Gone
        \/ /\ q.fresh \in rows
           /\ \A g \in Handlers \ {h} : Bears(request[g]) => request[g].fresh.login # q.fresh.login
  BY <1>q DEF KeptInv, BearsOK
<1>5. OneBrowser'
  <2>1. ASSUME NEW b, NEW l, Linked(b, l)' PROVE Linked(b, l)
    <3>1. CASE b \in Browsers /\ cookie'[b] # NoToken /\ cookie'[b].login = l
      BY <1>q, <1>2, <3>1 DEF Linked
    <3>3. CASE b \in Browsers /\ handshake'[b] # NoToken /\ handshake'[b].login = l
      BY <1>u, <3>3 DEF Linked
    <3>2. ASSUME NEW g \in Handlers, request'[g].browser = b,
                 \/ request'[g].token # NoToken /\ request'[g].token.login = l
                 \/ request'[g].fresh # NoToken /\ request'[g].fresh.login = l
          PROVE  Linked(b, l)
      <4>1. g # h
        BY <1>1, <1>i, <3>2
      <4> QED
        BY <1>1, <3>2, <4>1 DEF Linked
    <3> QED
      BY <2>1, <3>1, <3>2, <3>3 DEF Linked
  <2> QED
    BY <1>u, <2>1 DEF KeptInv, OneBrowser
<1>6. \A t \in Known' : t \in Known \/ (t = q.fresh /\ t # NoToken)
  BY <1>1, <1>2, <1>i, <1>u DEF Known
<1>7. KnownOK'
  <2> SUFFICES ASSUME NEW t \in Known'
               PROVE  /\ \A row \in rows : NotAhead(t, row)
                      /\ \A g \in Handlers : Behind(t, request[g])'
    BY <1>u DEF KnownOK, NotAhead
  <2>1. /\ \A row \in rows : NotAhead(t, row)
        /\ \A g \in Handlers \ {h} : Behind(t, request[g])
    <3>1. CASE t \in Known
      BY <3>1 DEF KeptInv, KnownOK
    <3>2. CASE t = q.fresh /\ t # NoToken
      <4>1. t \in Token
        BY <3>2 DEF Request
      <4>2. ASSUME NEW row \in rows, row.login = t.login, t.login \notin Gone PROVE row = t
        BY <1>3, <1>4, <3>2, <4>2 DEF IInv, RowsDistinct
      <4>3. \A row \in rows : NotAhead(t, row)
        BY <4>1, <4>2 DEF NotAhead, Token
      <4>4. ASSUME NEW g \in Handlers \ {h}, request[g].fresh # NoToken,
                   request[g].fresh.login = t.login, t.login \notin Gone
            PROVE  FALSE
        <5>1. ~InHand(request[g])
          BY <1>3, <1>4, <3>2, <4>4 DEF IInv, HandsDistinct
        <5> QED
          BY <1>3, <1>4, <3>2, <4>4, <5>1 DEF Bears
      <4>5. \A g \in Handlers \ {h} : Behind(t, request[g])
        BY <4>4 DEF Behind
      <4> QED
        BY <4>3, <4>5
    <3> QED
      BY <1>6, <3>1, <3>2
  <2>2. ASSUME NEW g \in Handlers PROVE Behind(t, request[g])'
    <3>1. PICK s : s = request'[g] /\ Behind(t, s)
      <4>1. Behind(t, Idle)
        BY <1>i DEF Behind
      <4> QED
        BY <1>1, <2>1, <4>1
    <3> QED
      BY <1>u, <3>1 DEF Behind, InHand
  <2> QED
    BY <2>1, <2>2
<1>8. BearsOK'
  <2>1. ~Bears(Idle)
    BY <1>i DEF Bears
  <2>2. \A g \in Handlers : Bears(request'[g]) => g # h
    BY <1>1, <2>1
  <2> QED
    BY <1>1, <1>u, <2>2 DEF KeptInv, BearsOK, Bears, InHand
<1>9. SessionKeptApart'
  <2> SUFFICES ASSUME NEW b \in Browsers, cookie'[b] # NoToken,
                      cookie'[b].login \notin Gone \cup stranded
               PROVE  \/ cookie'[b] \in rows
                      \/ \E g \in Handlers : /\ request'[g].browser = b
                                             /\ request'[g].fresh # NoToken
                                             /\ request'[g].fresh.login = cookie'[b].login
    BY <1>u DEF SessionKeptApart, Over, Gone
  <2>1. CASE b # q.browser
    <3>1. cookie'[b] = cookie[b]
      BY <1>2, <2>1
    <3>2. cookie[b] \in rows \/ \E g \in Handlers : Carries(request[g], b)
      BY <3>1, KeptCarries DEF KeptInv
    <3>3. ~Carries(request[h], b)
      BY <1>q, <2>1 DEF Carries
    <3> QED
      BY <1>1, <3>1, <3>2, <3>3 DEF Carries
  <2>2. CASE b = q.browser
    BY <1>2, <1>3, <1>4, <2>2
  <2> QED
    BY <2>1, <2>2
<1>10. \A g \in Handlers : StateOK(request'[g]) /\ Drifts(request'[g], adrift)
  BY <1>1, <1>i DEF KeptInv, Drifts
<1> QED
  BY <1>u, <1>5, <1>7, <1>8, <1>9, <1>10 DEF KeptInv, StateOK, Drifts

LEMMA KeptStill ==
  ASSUME IInv, KeptInv, UNCHANGED <<rows, cookie, request, opened, Over, adrift, stranded>>,
         now' \in Nat, now <= now', SocketsOf
  PROVE  KeptInv'
<1>g. Gone' = Gone
  BY DEF Gone
<1>1. OneBrowser' /\ KnownOK' /\ BearsOK' /\ SessionKeptApart'
  <2>1. OneBrowser'
    <3>1. \A b, l : Linked(b, l)' => Linked(b, l)
      BY DEF Linked, SocketsOf
    <3> QED
      BY <1>g, <3>1 DEF KeptInv, OneBrowser
  <2>2. Known' \subseteq Known
    BY DEF Known, SocketsOf
  <2>3. KnownOK'
    BY <1>g, <2>2 DEF KeptInv, KnownOK, Behind, NotAhead, InHand
  <2>4. BearsOK'
    BY <1>g DEF KeptInv, BearsOK, Bears, InHand
  <2>5. SessionKeptApart'
    BY <1>g DEF KeptInv, SessionKeptApart, Over, Gone
  <2> QED
    BY <2>1, <2>3, <2>4, <2>5
<1>2. ASSUME NEW h \in Handlers PROVE StateOK(request[h])'
  <2>1. PICK q \in Request : q = request[h] /\ q = request'[h] /\ StateOK(q)
    BY DEF IInv, TypeOK, KeptInv
  <2>2. now \in Nat /\ RefreshAge \in Nat
    BY SessionsAssumption DEF SessionsAssumption, IInv, TypeOK
  <2>3. q.pc = "delete" => now' - q.token.iat > RefreshAge
    BY <2>1, <2>2 DEF StateOK, Token
  <2> QED
    BY <2>1, <2>3 DEF StateOK
<1>3. \A h \in Handlers : Drifts(request[h], adrift)'
  BY DEF KeptInv, Drifts
<1> QED
  BY <1>1, <1>2, <1>3 DEF KeptInv

LEMMA KeptRestart ==
  ASSUME IInv, KeptInv, Restart
  PROVE  KeptInv'
<1>i. Idle.token = NoToken /\ Idle.fresh = NoToken /\ StateOK(Idle)
  BY DEF Idle, StateOK
<1>u. /\ UNCHANGED <<now, rows, cookie, opened, adrift>>
      /\ Over \subseteq Over' /\ Gone \subseteq Gone' /\ Over' \subseteq Gone'
      /\ \A h \in Handlers : request'[h] = Idle
      /\ \A b \in Browsers : handshake'[b] = NoToken
  BY DEF Restart, Over, Gone
<1>1. OneBrowser'
  <2>1. \A b, l : Linked(b, l)' => Linked(b, l)
    BY <1>u, <1>i DEF Linked
  <2> QED
    BY <1>u, <2>1 DEF KeptInv, OneBrowser
<1>2. KnownOK' /\ BearsOK'
  <2>1. Known' \subseteq Known
    BY <1>u, <1>i DEF Known
  <2>2. \A h \in Handlers : request'[h].fresh = NoToken
    BY <1>u, <1>i
  <2>3. KnownOK'
    BY <1>u, <2>1, <2>2 DEF KeptInv, KnownOK, NotAhead, Behind
  <2>4. BearsOK'
    BY <2>2 DEF BearsOK, Bears
  <2> QED
    BY <2>3, <2>4
<1>3. SessionKeptApart'
  <2> SUFFICES ASSUME NEW b \in Browsers, cookie[b] # NoToken,
                      cookie[b].login \notin Gone' \cup stranded'
               PROVE  cookie[b] \in rows
    BY <1>u DEF SessionKeptApart, Over, Gone
  <2>1. stranded \subseteq stranded'
    BY DEF Restart
  <2>2. ASSUME NEW h \in Handlers, Carries(request[h], b) PROVE FALSE
    <3>0. cookie[b].login \notin Gone
      BY <1>u
    <3>1. PICK q \in Request : /\ q = request[h] /\ RequestOK(q) /\ Carries(q, b)
                               /\ Behind(cookie[b], q)
      BY <2>2, KnownFacts DEF IInv, TypeOK, KeptInv, KnownOK
    <3>2. CASE InHand(q)
      <4>1. q.op # "login"
        BY <3>0, <3>1, <3>2 DEF Behind, Carries
      <4>2. Renewing(q)
        BY <3>1, <3>2, <4>1 DEF RequestOK, InHand, Renewing
      <4>3. q.fresh.login \in HeldBy(Handlers)
        BY <3>1, <4>2, HeldMember
      <4>4. q.fresh.login \in Over'
        BY <4>3 DEF Restart, Over
      <4> QED
        BY <1>u, <3>1, <4>4 DEF Carries
    <3>3. CASE ~InHand(q)
      <4>1. q.fresh.login \in stranded'
        BY <3>1, <3>3 DEF Restart, InHand, Carries
      <4> QED
        BY <3>1, <4>1 DEF Carries
    <3> QED
      BY <3>2, <3>3
  <2>3. cookie[b].login \notin Gone \cup stranded
    BY <1>u, <2>1
  <2> QED
    BY <2>2, <2>3, KeptCarries DEF KeptInv
<1>4. \A h \in Handlers : StateOK(request[h])' /\ Drifts(request[h], adrift)'
  BY <1>u, <1>i DEF StateOK, Drifts
<1> QED
  BY <1>u, <1>1, <1>2, <1>3, <1>4 DEF KeptInv

LEMMA KeptNext ==
  ASSUME IInv, KeptInv, [Next]_vars
  PROVE  KeptInv'
<1>n. now \in Nat
  BY DEF IInv, TypeOK
<1>1. CASE UNCHANGED vars
  BY <1>n, <1>1, KeptStill DEF vars, clients, history, Over, SocketsOf
<1>2. CASE \E h \in Handlers, b \in Browsers :
             \/ \E u \in Users : Login(h, b, u)
             \/ Call(h, b) \/ SignOut(h, b) \/ UpdatePassword(h, b)
             \/ Connect(h, b) \/ SocketMessage(h, b)
  BY <1>2, KeptArrival
<1>3. CASE Tick
  BY <1>n, <1>3, KeptStill DEF Tick, clients, history, Over, SocketsOf
<1>4. ASSUME NEW b \in Browsers, Disconnect(b)
      PROVE  KeptInv'
  <2>1. SocketsOf
    BY <1>4 DEF Disconnect, SocketsOf, IInv, TypeOK
  <2> QED
    BY <1>n, <1>4, <2>1, KeptStill DEF Disconnect, history, Over
<1>5. ASSUME NEW u \in Users,
             \/ ForgotPassword(u)
             \/ \E h \in Handlers : ResetPassword(h, u)
             \/ \E status \in BOOLEAN : UpdateBlockStatus(u, status)
      PROVE  KeptInv'
  <2>1. CASE \E h \in Handlers : ResetPassword(h, u)
    BY <2>1, KeptArrival
  <2>2. CASE ForgotPassword(u) \/ \E status \in BOOLEAN : UpdateBlockStatus(u, status)
    BY <1>n, <2>2, KeptStill DEF ForgotPassword, UpdateBlockStatus, clients, history, Over, SocketsOf
  <2> QED
    BY <1>5, <2>1, <2>2
<1>6. ASSUME NEW h \in Handlers, Step(h) \/ CallFails(h) PROVE KeptInv'
  BY <1>6, KeptQuiet, KeptSign, KeptDelete, KeptInsert, KeptLogin, KeptReply, KeptFails DEF Step
<1>7. CASE Restart
  BY <1>7, KeptRestart
<1> QED
  BY <1>1, <1>2, <1>3, <1>4, <1>5, <1>6, <1>7 DEF Next

\* Whatever races with a renewal (logins, sockets, other requests of the browser, failures,
\* restarts), a browser has a cookie that is in the whitelist or a request of its own that
\* brings it the next one, unless its session was ended by a sign-out or deleteAllTokens,
\* lost by a renewal that was cut short, kept from the browser by a restart, or left adrift:
\* renewed by a socket, which drops the new token (chats.gateway.ts), or under the same
\* string by a request that presented the token of another login.
THEOREM SessionsKept == Spec => []SessionKeptApart
<1>1. Init => KeptInv
  <2> SUFFICES ASSUME Init PROVE KeptInv
    OBVIOUS
  <2>i. Idle.token = NoToken /\ Idle.fresh = NoToken /\ StateOK(Idle)
    BY DEF Idle, StateOK
  <2>1. \A h \in Handlers : request[h] = Idle
    BY DEF Init
  <2>2. \A b \in Browsers : cookie[b] = NoToken /\ handshake[b] = NoToken
    BY DEF Init
  <2>3. OneBrowser
    BY <2>i, <2>1, <2>2 DEF OneBrowser, Linked
  <2>4. Known = {}
    BY <2>i, <2>1, <2>2 DEF Known
  <2>5. KnownOK /\ BearsOK /\ SessionKeptApart
    BY <2>i, <2>1, <2>2, <2>4 DEF KnownOK, BearsOK, Bears, SessionKeptApart
  <2>6. \A h \in Handlers : Drifts(request[h], adrift)
    BY <2>i, <2>1 DEF Drifts
  <2> QED
    BY <2>i, <2>1, <2>2, <2>3, <2>5, <2>6 DEF KeptInv
<1>2. IInv /\ KeptInv /\ [Next]_vars => KeptInv'
  BY KeptNext
<1>3. KeptInv => SessionKeptApart
  BY DEF KeptInv
<1> QED
  BY <1>1, <1>2, <1>3, InitInvariant, NextInvariant, PTL DEF Spec

===============================================================================

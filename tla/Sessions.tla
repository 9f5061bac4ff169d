------------------------------- MODULE Sessions -------------------------------
(***************************************************************************)
(* Sessions: login, the middleware that verifies a cookie and renews a     *)
(* token older than four hours, sign-out, password changes that end every  *)
(* session of a user, suspension, and the socket that verifies the cookie  *)
(* of its handshake.                                                       *)
(*                                                                         *)
(* A token is a JWT with a row in the whitelist.  Signing is a function of *)
(* the payload {id, iat}, and iat counts whole seconds: two tokens of one  *)
(* user signed in the same second are one string, and the column is        *)
(* unique.  A step is one database statement with the code up to the next  *)
(* await; the steps of requests interleave.                                *)
(***************************************************************************)
EXTENDS Integers, Sequences, FiniteSets

CONSTANTS
  Users,
  Browsers,     \* cookie jars
  Handlers,     \* slots for the requests in flight
  RefreshAge,   \* age over which verify renews a token: 14400 seconds
  Expiry,       \* age at which a JWT expires: one day
  Sockets,      \* TRUE: browsers also open sockets
  NoToken, Nobody,
  Timeout,      \* a request settles within so many seconds
  MaxTime,      \* bound on the clock
  MaxLogins,    \* bound on accepted logins
  MaxPasswords, \* bound on the passwords of a user
  MaxFaults,    \* bound on rejected database calls
  MaxRestarts   \* bound on restarts of the process

ASSUME SessionsAssumption ==
  /\ IsFiniteSet(Handlers)
  /\ {RefreshAge, Expiry, Timeout, MaxTime, MaxLogins, MaxPasswords, MaxFaults,
      MaxRestarts} \subseteq Nat
  /\ Sockets \in BOOLEAN
  /\ Nobody \notin Users \cup Browsers
  /\ NoToken \notin [user : Users, iat : Nat, login : Nat]

VARIABLES
  now,        \* seconds
  rows,       \* the whitelist
  password,   \* per user, the number of the password that User.password holds
  resetting,  \* per user, whether password_reset_token is set
  blocked,    \* User.block_status
  cookie,     \* per browser, the jwt cookie or NoToken
  handshake,  \* per browser, the jwt cookie its socket was opened with
  request,    \* local state of the request in each slot
  opened,     \* history: the password that each accepted login used
  ended,      \* history: logins whose token sign-out or deleteAllTokens deleted
  lost,       \* history: logins whose token a renewal deleted and did not replace
  stranded,   \* history: logins whose new token a restart kept from the browser
  spared,     \* history: logins that a deleteAllTokens of the user missed
  adrift,     \* history: logins whose token was renewed by a socket, or by a request
              \* that presented the same string of another login
  faults, restarts

accounts == <<password, resetting, blocked>>
clients == <<cookie, handshake>>
history == <<opened, ended, lost, stranded, spared, adrift>>
environment == <<faults, restarts>>
vars == <<now, rows, accounts, clients, request, history, environment>>

\* login, the accepted login that the session began with, is history: the
\* code compares the string that user and iat determine.
Token == [user : Users, iat : Nat, login : Nat]
SameString(s, t) == s.user = t.user /\ s.iat = t.iat
RowsOf(t) == {r \in rows : SameString(r, t)}

(***************************************************************************)
(* A request in flight.  token is the cookie it presents, fresh the token  *)
(* it signed: not in the whitelist up to "insert", in Set-Cookie after it. *)
(***************************************************************************)
Ops == {"none", "login", "call", "signout", "change", "reset", "socket"}
PCs == {"idle", "check", "sign", "find", "delete", "insert", "load", "signout",
        "compare", "write", "purge", "reply", "clear"}
Request == [op : Ops, pc : PCs, browser : Browsers \cup {Nobody},
            user : Users \cup {Nobody}, pw : Nat, since : Nat,
            token : Token \cup {NoToken}, fresh : Token \cup {NoToken}]

Idle == [op |-> "none", pc |-> "idle", browser |-> Nobody, user |-> Nobody,
         pw |-> 0, since |-> 0, token |-> NoToken, fresh |-> NoToken]

Init ==
  /\ now = 0
  /\ rows = {}
  /\ password = [u \in Users |-> 1]
  /\ resetting = [u \in Users |-> FALSE]
  /\ blocked = [u \in Users |-> FALSE]
  /\ cookie = [b \in Browsers |-> NoToken]
  /\ handshake = [b \in Browsers |-> NoToken]
  /\ request = [h \in Handlers |-> Idle]
  /\ opened = <<>>
  /\ ended = {} /\ lost = {} /\ stranded = {} /\ spared = {} /\ adrift = {}
  /\ faults = 0 /\ restarts = 0

-----------------------------------------------------------------------------
(* Helpers                                                                 *)

\* A new request; since is when it arrived.
New(op, pc, u) ==
  [Idle EXCEPT !.op = op, !.pc = pc, !.user = u, !.since = now]

At(h, pc) == request[h].pc = pc
Set(h, r) == request' = [request EXCEPT ![h] = r]
Goto(h, pc) == Set(h, [request[h] EXCEPT !.pc = pc])

\* The handler is done.  Only a reply with Set-Cookie still changes state:
\* the header is sent with an error as well.
Settle(h) == IF request[h].fresh = NoToken THEN Set(h, Idle) ELSE Goto(h, "reply")

\* Where the routes that change sessions go on after the middleware.
AfterLoad == [signout |-> "signout", change |-> "compare"]

\* A renewal holds its login between deleting the token and inserting another.
Renewing(r) == r.pc = "insert" /\ r.op # "login"
HeldBy(H) == {request[h].fresh.login : h \in {g \in H : Renewing(request[g])}}
LoginsOf(u) == {r.login : r \in {s \in rows : s.user = u}}

\* Logins of u that deleteAllTokens does not see, for they have no row.
InFlight(u) ==
  {request[h].fresh.login :
     h \in {g \in Handlers : request[g].user = u /\ request[g].pc \in {"sign", "insert"}}}
Changing(u) ==
  {h \in Handlers : request[h].user = u /\ request[h].op \in {"change", "reset"}}
MayChange(u) == password[u] + Cardinality(Changing(u)) < MaxPasswords

-----------------------------------------------------------------------------
(* Requests arrive                                                         *)

\* POST /user/login with the password of the moment; a wrong one changes nothing.
Login(h, b, u) ==
  /\ At(h, "idle")
  /\ Len(opened) + Cardinality({g \in Handlers : At(g, "check")}) < MaxLogins
  /\ Set(h, [New("login", "check", u) EXCEPT !.browser = b, !.pw = password[u]])
  /\ UNCHANGED <<now, rows, accounts, clients, history, environment>>

\* The JWT itself verifies: it was signed here and has not expired.
Verifies(t) == t # NoToken /\ now - t.iat < Expiry

\* A route behind CurrentUserMiddleware: any other (call), /user/signout or
\* /user/updatePassword (change).
Arrive(h, b, op) ==
  LET t == cookie[b] IN
  /\ At(h, "idle")
  /\ Verifies(t)
  /\ op = "change" => MayChange(t.user)
  /\ Set(h, [New(op, "find", t.user) EXCEPT
                !.browser = b, !.token = t,
                !.pw = IF op = "change" THEN password[t.user] ELSE 0])
  /\ UNCHANGED <<now, rows, accounts, clients, history, environment>>

Call(h, b) == Arrive(h, b, "call")
SignOut(h, b) == Arrive(h, b, "signout")
UpdatePassword(h, b) == Arrive(h, b, "change")

SocketRequest(h, b, t) ==
  /\ At(h, "idle")
  /\ Verifies(t)
  /\ Set(h, [New("socket", "find", t.user) EXCEPT !.browser = b, !.token = t])

\* A socket opens with the cookie of the moment, which handleConnection verifies.
Connect(h, b) ==
  /\ Sockets
  /\ handshake[b] = NoToken
  /\ SocketRequest(h, b, cookie[b])
  /\ handshake' = [handshake EXCEPT ![b] = cookie[b]]
  /\ UNCHANGED <<now, rows, accounts, cookie, history, environment>>

\* Each message verifies the cookie of the handshake again.
SocketMessage(h, b) ==
  /\ SocketRequest(h, b, handshake[b])
  /\ UNCHANGED <<now, rows, accounts, clients, history, environment>>

Disconnect(b) ==
  /\ handshake[b] # NoToken
  /\ handshake' = [handshake EXCEPT ![b] = NoToken]
  /\ UNCHANGED <<now, rows, accounts, cookie, request, history, environment>>

\* POST /user/forgot-password: a new code overwrites the last one.
ForgotPassword(u) ==
  /\ ~resetting[u]
  /\ resetting' = [resetting EXCEPT ![u] = TRUE]
  /\ UNCHANGED <<now, rows, password, blocked, clients, request, history, environment>>

\* POST /user/reset-password with the code that was mailed last (1), or with null (0).
ResetPassword(h, u) ==
  /\ At(h, "idle")
  /\ MayChange(u)
  /\ \E code \in {0, 1} : Set(h, [New("reset", "compare", u) EXCEPT !.pw = code])
  /\ UNCHANGED <<now, rows, accounts, clients, history, environment>>

\* POST /user/:id/block-status: the update.  The read before it, which another update may
\* overtake, only spares writing the status that is there.
UpdateBlockStatus(u, status) ==
  /\ blocked[u] # status
  /\ blocked' = [blocked EXCEPT ![u] = status]
  /\ UNCHANGED <<now, rows, password, resetting, clients, request, history, environment>>

-----------------------------------------------------------------------------
(* Login                                                                   *)

CheckCredentials(h) ==
  LET r == request[h] IN
  /\ At(h, "check")
  /\ IF r.pw = password[r.user] /\ ~blocked[r.user]
     THEN /\ Set(h, [r EXCEPT !.pc = "sign",
                              !.fresh = [user |-> r.user, iat |-> now,
                                         login |-> Len(opened) + 1]])
          /\ opened' = Append(opened, r.pw)
     ELSE Set(h, Idle) /\ UNCHANGED opened
  /\ UNCHANGED <<now, rows, accounts, clients, ended, lost, stranded, spared, adrift, environment>>

\* Mutation: the token is dated back, to tolerate a slow clock.
SignTokenBackdated(h) ==
  /\ At(h, "sign")
  /\ Set(h, [request[h] EXCEPT !.pc = "insert", !.fresh.iat = now - 1])
  /\ UNCHANGED <<now, rows, accounts, clients, history, environment>>

\* scrypt has taken its time: the token is dated when it is signed.
SignToken(h) ==
  /\ At(h, "sign")
  /\ Set(h, [request[h] EXCEPT !.pc = "insert", !.fresh.iat = now])
  /\ UNCHANGED <<now, rows, accounts, clients, history, environment>>

-----------------------------------------------------------------------------
(* TokenService.verify                                                     *)

\* 'Token not found', or the row; its age is computed after the read.
FindToken(h) ==
  LET t == request[h].token IN
  /\ At(h, "find")
  /\ CASE RowsOf(t) = {}             -> Set(h, Idle)
       [] RowsOf(t) # {} /\ now - t.iat > RefreshAge  -> Goto(h, "delete")
       [] RowsOf(t) # {} /\ now - t.iat <= RefreshAge -> Goto(h, "load")
  /\ UNCHANGED <<now, rows, accounts, clients, history, environment>>

\* Mutation: a missing row counts as deleted, as with deleteMany.
DeleteTokenTolerant(h) ==
  LET r == request[h] IN
  /\ At(h, "delete")
  /\ rows' = rows \ RowsOf(r.token)
  /\ Set(h, [r EXCEPT !.pc = "insert",
                      !.fresh = [user |-> r.user, iat |-> now, login |-> r.token.login]])
  /\ UNCHANGED <<now, accounts, clients, history, environment>>

\* Deleting a missing row throws; else the new token is signed at once.
DeleteToken(h) ==
  LET r == request[h] IN
  /\ At(h, "delete")
  /\ \/ \E old \in RowsOf(r.token) :
          /\ rows' = rows \ {old}
          /\ Set(h, [r EXCEPT !.pc = "insert",
                              !.fresh = [user |-> r.user, iat |-> now, login |-> old.login]])
          /\ adrift' = IF r.op = "socket" \/ old # r.token THEN adrift \cup {old.login} ELSE adrift
     \/ RowsOf(r.token) = {} /\ Set(h, Idle) /\ UNCHANGED <<rows, adrift>>
  /\ UNCHANGED <<now, accounts, clients, opened, ended, lost, stranded, spared, environment>>

\* Mutation: verify's new token is not put into Set-Cookie.
InsertTokenNoCookie(h) ==
  LET r == request[h] IN
  /\ At(h, "insert")
  /\ IF RowsOf(r.fresh) = {}
     THEN /\ rows' = rows \cup {r.fresh}
          /\ Set(h, IF r.op = "login" THEN [r EXCEPT !.pc = "reply"]
                    ELSE [r EXCEPT !.pc = "load", !.fresh = NoToken])
          /\ UNCHANGED lost
     ELSE Set(h, Idle) /\ lost' = lost \cup HeldBy({h}) /\ UNCHANGED rows
  /\ UNCHANGED <<now, accounts, clients, opened, ended, stranded, spared, adrift, environment>>

\* generateNewToken's insert throws if the string is there already.  The
\* gateway drops the token that verify returns to it.
InsertToken(h) ==
  LET r == request[h] IN
  /\ At(h, "insert")
  /\ IF RowsOf(r.fresh) = {}
     THEN /\ rows' = rows \cup {r.fresh}
          /\ Set(h, CASE r.op = "login"  -> [r EXCEPT !.pc = "reply"]
                      [] r.op = "socket" -> [r EXCEPT !.pc = "load", !.fresh = NoToken]
                      [] OTHER           -> [r EXCEPT !.pc = "load"])
          /\ UNCHANGED lost
     ELSE Set(h, Idle) /\ lost' = lost \cup HeldBy({h}) /\ UNCHANGED rows
  /\ UNCHANGED <<now, accounts, clients, opened, ended, stranded, spared, adrift, environment>>

\* findOne, then 'user is suspended' or the handler of the route; the gateway
\* does not ask.
LoadUser(h) ==
  LET r == request[h] IN
  /\ At(h, "load")
  /\ IF r.op \in DOMAIN AfterLoad /\ ~blocked[r.user]
     THEN Goto(h, AfterLoad[r.op]) ELSE Settle(h)
  /\ UNCHANGED <<now, rows, accounts, clients, history, environment>>

-----------------------------------------------------------------------------
(* What sign-out and the password routes do                                *)

\* Mutation: sign-out only clears the cookie.
DeletePresentedNot(h) ==
  LET r == request[h] IN
  /\ At(h, "signout")
  /\ \/ \E old \in RowsOf(r.token) : ended' = ended \cup {old.login} /\ Goto(h, "clear")
     \/ RowsOf(r.token) = {} /\ Settle(h) /\ UNCHANGED ended
  /\ UNCHANGED <<now, rows, accounts, clients, opened, lost, stranded, spared, adrift, environment>>

\* logout deletes the token of the request's cookie, also if the middleware
\* has just renewed it: 'Invalid token for delete' then.
DeletePresented(h) ==
  LET r == request[h] IN
  /\ At(h, "signout")
  /\ \/ \E old \in RowsOf(r.token) :
          /\ rows' = rows \ {old}
          /\ ended' = ended \cup {old.login}
          /\ Goto(h, "clear")
     \/ RowsOf(r.token) = {} /\ Settle(h) /\ UNCHANGED <<rows, ended>>
  /\ UNCHANGED <<now, accounts, clients, opened, lost, stranded, spared, adrift, environment>>

\* updatePassword compares the current password, resetPassword the code; null is the code of
\* a user who asked for none.
Compare(h) ==
  LET r == request[h] IN
  /\ At(h, "compare")
  /\ IF IF r.op = "reset" THEN (r.pw = 1) = resetting[r.user] ELSE r.pw = password[r.user]
     THEN Goto(h, "write") ELSE Settle(h)
  /\ UNCHANGED <<now, rows, accounts, clients, history, environment>>

\* Mutation: resetPassword leaves the sessions alone.
WritePasswordResetKeeps(h) ==
  LET r == request[h] IN
  /\ At(h, "write")
  /\ password' = [password EXCEPT ![r.user] = @ + 1]
  /\ resetting' = IF r.op = "reset" THEN [resetting EXCEPT ![r.user] = FALSE] ELSE resetting
  /\ IF r.op = "reset" THEN Settle(h) ELSE Goto(h, "purge")
  /\ UNCHANGED <<now, rows, blocked, clients, history, environment>>

WritePassword(h) ==
  LET r == request[h] IN
  /\ At(h, "write")
  /\ password' = [password EXCEPT ![r.user] = @ + 1]
  /\ resetting' = IF r.op = "reset" THEN [resetting EXCEPT ![r.user] = FALSE] ELSE resetting
  /\ Goto(h, "purge")
  /\ UNCHANGED <<now, rows, blocked, clients, history, environment>>

DeleteAllTokens(h) ==
  LET u == request[h].user IN
  /\ At(h, "purge")
  /\ rows' = {r \in rows : r.user # u}
  /\ ended' = ended \cup LoginsOf(u)
  /\ spared' = spared \cup InFlight(u)
  /\ Settle(h)
  /\ UNCHANGED <<now, accounts, clients, opened, lost, stranded, adrift, environment>>

-----------------------------------------------------------------------------
(* Replies, time and failures                                              *)

\* The browser stores Set-Cookie when the reply arrives; replies arrive in any order.
Reply(h) ==
  LET r == request[h] IN
  /\ r.pc \in {"reply", "clear"}
  /\ cookie' = [cookie EXCEPT ![r.browser] = IF r.pc = "clear" THEN NoToken ELSE r.fresh]
  /\ Set(h, Idle)
  /\ UNCHANGED <<now, rows, accounts, handshake, history, environment>>

\* Real time: no request stays in flight for longer than Timeout.
Tick ==
  /\ now < MaxTime
  /\ \A h \in Handlers : ~At(h, "idle") => now - request[h].since < Timeout
  /\ now' = now + 1
  /\ UNCHANGED <<rows, accounts, clients, request, history, environment>>

\* Logins of users whose password the requests in H wrote, without the purge yet.
Unpurged(H) ==
  UNION {LoginsOf(request[h].user) \cup InFlight(request[h].user) :
           h \in {g \in H : At(g, "purge")}}

\* A database call rejects.  verify, login and the services throw to the client.
CallFails(h) ==
  LET r == request[h] IN
  /\ faults < MaxFaults
  /\ r.pc \in {"check", "find", "delete", "insert", "load", "signout", "compare",
               "write", "purge"}
  /\ faults' = faults + 1
  /\ IF r.pc = "insert" THEN Set(h, Idle) ELSE Settle(h)
  /\ lost' = lost \cup HeldBy({h})
  /\ spared' = spared \cup Unpurged({h})
  /\ UNCHANGED <<now, rows, accounts, clients, opened, ended, stranded, adrift, restarts>>

\* The process restarts: requests, their replies and the sockets are gone.
Restart ==
  /\ restarts < MaxRestarts
  /\ restarts' = restarts + 1
  /\ request' = [h \in Handlers |-> Idle]
  /\ handshake' = [b \in Browsers |-> NoToken]
  /\ lost' = lost \cup HeldBy(Handlers)
  /\ stranded' = stranded \cup
       {request[h].fresh.login :
          h \in {g \in Handlers : /\ request[g].fresh # NoToken
                                  /\ request[g].pc \notin {"sign", "insert"}}}
  /\ spared' = spared \cup Unpurged(Handlers)
  /\ UNCHANGED <<now, rows, accounts, cookie, opened, ended, adrift, faults>>

Step(h) ==
  \/ CheckCredentials(h) \/ SignToken(h)
  \/ FindToken(h) \/ DeleteToken(h) \/ InsertToken(h) \/ LoadUser(h)
  \/ DeletePresented(h) \/ Compare(h) \/ WritePassword(h) \/ DeleteAllTokens(h)
  \/ Reply(h)

Next ==
  \/ \E h \in Handlers, b \in Browsers :
       \/ \E u \in Users : Login(h, b, u)
       \/ Call(h, b) \/ SignOut(h, b) \/ UpdatePassword(h, b)
       \/ Connect(h, b) \/ SocketMessage(h, b)
  \/ \E b \in Browsers : Disconnect(b)
  \/ \E u \in Users :
       \/ ForgotPassword(u)
       \/ \E h \in Handlers : ResetPassword(h, u)
       \/ \E status \in BOOLEAN : UpdateBlockStatus(u, status)
  \/ \E h \in Handlers : Step(h) \/ CallFails(h)
  \/ Tick
  \/ Restart

Spec == Init /\ [][Next]_vars

-----------------------------------------------------------------------------
(* Properties                                                              *)

\* Every variable has its type.
TypeOK ==
  /\ now \in Nat
  /\ rows \subseteq Token
  /\ password \in [Users -> Nat]
  /\ resetting \in [Users -> BOOLEAN]
  /\ blocked \in [Users -> BOOLEAN]
  /\ cookie \in [Browsers -> Token \cup {NoToken}]
  /\ handshake \in [Browsers -> Token \cup {NoToken}]
  /\ request \in [Handlers -> Request]
  /\ opened \in Seq(Nat)
  /\ ended \subseteq Nat /\ lost \subseteq Nat
  /\ stranded \subseteq Nat /\ spared \subseteq Nat /\ adrift \subseteq Nat
  /\ faults \in Nat /\ restarts \in Nat

\* At most one token carries a session on, however many requests present an
\* old token at once: of the requests that find it only the one that deletes
\* it may insert another (TokenService.verify).
SessionNotForked ==
  /\ \A r, s \in rows : r.login = s.login => r = s
  /\ \A h \in Handlers : Renewing(request[h]) =>
       /\ \A r \in rows : r.login # request[h].fresh.login
       /\ \A g \in Handlers \ {h} :
            Renewing(request[g]) => request[g].fresh.login # request[h].fresh.login

\* The whitelist implements a set of sessions in which a session that was
\* signed out, ended by a password change or lost never lives again
\* (deleteToken, deleteAllTokens and the renewals that race with them).
LiveSessions == {r.login : r \in rows} \cup HeldBy(Handlers)
Abstract == INSTANCE SessionSet WITH live <- LiveSessions, over <- ended \cup lost
SessionsImplemented == Abstract!Spec

\* A browser whose session was neither ended nor lost can go on with it: its
\* cookie is in the whitelist, or a request of that browser is on its way to
\* bring it the token that replaced it (Set-Cookie in the middleware).
SessionKept ==
  \A b \in Browsers :
    LET t == cookie[b] IN
    t # NoToken /\ t.login \notin ended \cup lost \cup stranded =>
      \/ t \in rows
      \/ \E h \in Handlers : /\ request[h].browser = b
                             /\ request[h].fresh # NoToken
                             /\ request[h].fresh.login = t.login

\* Once a password change is done, every session opened with an earlier
\* password is over, except those that were in flight when deleteAllTokens
\* ran or whose deleteAllTokens failed (updatePassword, resetPassword).
PasswordChangeEnds ==
  \A r \in rows :
    \/ opened[r.login] = password[r.user]
    \/ r.login \in spared
    \/ \E h \in Handlers : request[h].user = r.user /\ At(h, "purge")
===============================================================================

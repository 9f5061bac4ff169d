# Vital Educators back end: a verification project

TLA+ models of the NestJS service in this repository (a marketplace of tutors and
students), the TLC runs that check them on small instances, and TLAPS proofs about
them for every value of their constants.

## How the system works, as far as the models care

One node process serves HTTP requests, Stripe webhooks, socket.io messages and cron
jobs. State lives in a PostgreSQL database reached through Prisma, in Stripe, and, for
sockets and cron jobs, in the memory of the process. Handlers are async functions. Code
between two awaits runs without interruption; every await lets another handler run. The
code uses no database transaction, lock or row version: each Prisma call is one atomic
statement, and the only other guard is a unique column of the schema. So the models take
one statement, one Stripe call or one emitted message as one step, together with the
synchronous code up to the next one, and interleave the steps of the requests in flight.
A restart drops the requests in flight and everything kept in memory.

The parts call each other as follows. `UsersService` makes an account and asks
`TutorsService` and `StudentsService` for its Stripe customer; `TokenService` keeps the
whitelist that `CurrentUserMiddleware` and `ChatsGateway` consult on every request and
socket event; `StudentsService` sells tutors for credits or, through the webhook of
`StripeController`, for money; `ConversationService` asks the purchase and subscription
tables whether contact details may pass, and `TaskSchadularsService` to remind a tutor
who does not answer. Mail, S3 and Cloudinary are only written to.

## Inventory

| component | state | operations | what is hard | what makes it correct | module |
|---|---|---|---|---|---|
| Wallet (`students`) | `StudentPayment`, `StudentPurchase`, `PurchaseDispute` | view, buy with credits, admin changes, disputes and their award, status of a purchase | check and write are several awaits apart; failures after the debit | a purchase is paid, once; credits are neither lost nor made up, short of an overlap that the code does not exclude | `Wallet`, `Ledger` |
| Stripe payments (`stripe`, `students`) | Stripe customers and intents, `StudentPayment.customerId` | make customer and intent, webhook of a payment | retried and overlapping deliveries, restarts | who paid gets the tutor | `Wallet` |
| Sessions (`token`, `middleware`, `users`, `chats`) | whitelist, `User.password`, reset code, block status, cookies | login, verify and renew, sign-out, password change and reset, block | parallel requests renew one token; stale cookies and handshakes | a session is carried by one token, kept until it is ended, over once ended | `Sessions`, `SessionSet` |
| Chat (`chats`, `flagged-messages`) | `Conversation`, `Chats`, `FlaggedMessage`, connection table | connect, message of either side, broadcast, mark as seen, approve a student, archive a refusal, the pages | table and jobs in memory, list and broadcasts in any order | no message and no mark is missed; contact details wait for access; one reply is saved and ends the reminder | `Chat` |
| Scheduler (`task-schadulars`) | job registry in memory | reminders of a reply, of a new tutor, of feedback | lost in a restart, started and stopped by different handlers | a reminder runs as long as what it asks for is missing, and no longer | `Chat`, `Feedback`, `Accounts` |
| Tutor subscriptions (`tutors`, `stripe`) | `Subscription` beside Stripe's | view, subscribe, cancel, end at once, reinstate, webhooks | local write before the remote call; events out of order, repeated, dropped | active means paid; the record agrees with Stripe in the end | `Subscription` |
| Feedback (`feedback`) | `Feedback`, its weekly job | give, ask for, reply, approve or reject, pages | ids of three tables compared; find then update; job in memory | mails reach and pages name the right two users; a reply stands | `Feedback` |
| Approval (`tutors`, `documents`, `qualifications`, `referees`, `admin`) | documents, names, approval flags, referees with reviews | upload, ask for a name, decide, change a referee, review | an admin decides on what was read while the tutor submits more | what was submitted is approved or pending; who has to know is told | `Approval` |
| Subject offers, search, profile (`subject-offers`, `tutors`) | `SubjectOffer`, block status, `deActivate` | create, change, remove, search, profile | two paths write what one search must find | search and profile agree | `Directory` |
| Accounts (`users`, `admin`) | `User` and its role rows, `Alert`, the daily job | register, confirm, resend, change address or picture, delete | several statements, no transaction; a deletion is a renaming | an answered registration is whole; a link works; who left is left alone | `Accounts` |
| Notices, mailing list (`notifications`, `resources`, `subscriptions`) | `Notification`, `Subscriptions` | post, archive, mail a resource's link, subscribe | the row first, readers and mails later | pages and mails agree | `Notices` |
| Mail templates, stored files, wiring, rows of one owner | none that others depend on | | | | not modelled |

## How the project is laid out

Each module in the table is a specification of its own, parameterised by constants. Some
are composed: `Directory` EXTENDS `Approval` and adds the offers of two tutors to what is
kept of one of them, `Notices` EXTENDS `Accounts`, whose users are its readers. Two
abstract specifications stand beside the detailed ones: `Ledger` is what a wallet promises
and `Wallet` implements it for every student whose wallet was never written from an outdated
read; `SessionSet` is what the whitelist promises and `Sessions` implements it always. Modules named `MC...` give
values to constants for TLC; modules named `...Proofs` hold the theorems. A definition that
is called a mutant, a mutation or a slip in its comment is the code with a plausible mistake in it; no
specification uses it, and putting it in the place of the definition it is named after
makes TLC find a property violated.

Nothing in the code keeps two requests apart, and some interleavings, failures and restarts
do harm. The properties are stated of every behaviour all the same, and name what they set
aside: a history variable records where such a step happened, and the property says that
the harm is limited to that. These variables are named in the section of their module, under
'Set aside'. What they set aside does happen, and is among the findings or the hazards.

## Module Wallet

`payment`, `purchases` and `disputes` are the three tables, `customers` and `intents` what
Stripe holds, `handler[h]` the local variables of the request in slot `h` with the place
where it waits (`pc`). Requests arrive by `ViewRecord`, `CreditPurchase`,
`AccumulateCredits`, `CloseDispute`, `StripePurchaseIntent`; any number of them may be about
one student. `FindRecord`, `CreateCustomer` and `InsertRecord` are
`getStudentPaymentRecord`, which each of them goes through. `Gate` is the check of credits
and of earlier purchases in `creditPurchase`, `WriteCredits` the update that sets credits to
the number computed from what was read, `GrantPurchase` the insert. A payment is made by
`Pay`; `Deliver`, `LookupCustomer`, `RecordSale` and `Acknowledge` are the webhook.
`CallFails` rejects any one call, and does in each place what the code's `catch` does there;
`Crash` is a restart. The system starts with no payment records, as after registration whose
`createPaymentRecord` failed or has not run; the record is made by the first request that
needs it.

Set aside: `stale[h]` holds what the request in slot `h` has read and another request has
changed since, the credits or the live purchases of its student; `torn` holds the students
whose wallet was written from stale credits. Both stay empty while no two requests about
one student overlap, so the properties contain what the code does one request at a time.

- `wallet_credits` (one student, two overlapping requests, one rejected call, one restart,
  credits added or removed up to one at a time, a tutor id that does not exist): `TypeOK`
  (no wallet is negative), `WalletMadeOnce`, `NoSecondPurchase` (a second purchase of a
  tutor is added only by a request whose check another one made stale),
  `CreditsCoverPurchases` (a student who is not torn has bought no more than was given) and
  `AtomicLedger`, the refinement of `Ledger`. Two requests are enough for every race of a
  read and a write; the accumulator of minus two reaches the clamp at zero.
- `wallet_payments` (two students, one intent, one restart, no rejected call): a sale
  recorded by the webhook is of the student who paid (`StripeSaleIsPaid`), and what was paid
  is sold (`PaidIsSold`). Steps of handlers are weakly fair, for a promise of the database or
  of Stripe settles; deliveries are strongly fair, for Stripe retries until it is answered
  200 and the slots, that other requests may take again and again, are a bound of the model
  only. A rejected call in the webhook is excluded: the code answers 200 all the same and the
  sale is lost.
- `wallet_race` finds the disagreement listed below.

A delivery repeated after its acknowledgement is not modelled.

Proved in `WalletProofs`, from `WalletAssumption`, for any constants: `TypeCorrect`,
`StripeSalesArePaid`, `WalletsMadeOnce`. `StripeSaleIsPaid` is not inductive by itself: that
the webhook finds the right student rests on whose each Stripe customer is, in the table, in
the intents and in the requests that hold one they have not stored yet (`WalletsOwned`,
`IntentsOwned`, `RequestOK`). `Grows` says what no step undoes, so that what a request read
stays true until it uses it.

Proved in `WalletAccountProofs`, from the same assumption and no other: `CreditsCovered`,
`NoTutorBoughtTwice` and `ImplementsLedger`. The invariant `SInv` adds to the one above that
what a request has read is still in the tables, or marked as stale (`Fresh`: the credits,
the absence of a live purchase, a credit to take), and that the credits of a student who is
not torn, the purchases made with credits and the debits on their way to a purchase never
exceed what was given (`Covered`). The refinement maps each step to `Adjust`, `Reserve`,
`Settle`, `Forfeit` (a rejected call or a restart between debit and insert: the credit is
gone) or a stutter of `Ledger`, and a write from stale credits to the step that makes its
student loose; the accounts of the others go on.

## Module Sessions

A token is `[user, iat, login]`: the JWT signs user and second, so two tokens of one user
and second are one string, and the whitelist's column is unique; `login` names the session
it carries, and is history. `rows` is the whitelist, `cookie[b]` what the browser `b`
holds, `handshake[b]` what its socket was opened with, `now` the time in seconds.
`FindToken`, `DeleteToken` and `InsertToken` are `TokenService.verify` of an old token,
`CheckCredentials`, `SignToken` and `InsertToken` a login, `LoadUser` the rest of the
middleware, `DeletePresented` the sign-out, `Compare` (a null code is equal to a
column that is null, as in the code), `WritePassword` and `DeleteAllTokens` the password
routes, `UpdateBlockStatus` the block of a user in one step (the read before the update only
spares writing the status that is there), `Reply` the arrival of an answer with its cookie,
which may come later than that of a younger request. A socket's event verifies the cookie
of its handshake. A request settles within `Timeout` seconds.

Set aside: `lost` (a renewal was cut short between delete and insert), `stranded` (a restart
kept the new cookie from the browser), `spared` (sessions in flight while `deleteAllTokens`
ran, or whose `deleteAllTokens` failed), `adrift` (renewed by a socket, which drops the new
token, or by a request that presented the same string of another login).

- `sessions_http` (two browsers of one user, two logins, one rejected call): a browser
  keeps its session until it is ended (`SessionKept`). Tokens are renewed after three
  seconds here; the run needs `3 * Timeout <= RefreshAge`, which the real four hours give.
  With slower requests, or with password changes or restarts in between, a string that was
  deleted may be issued again in the second it was first signed, and a browser's dead
  cookie becomes that of another session: the corner case is left out of this run by its
  constants, and nowhere else.
- `sessions_all` (one browser with socket, two requests at once, two logins, a password
  change, a restart): `SessionNotForked`, `PasswordChangeEnds`, `SessionsImplemented`.
- `sessions_socket` finds the disagreement listed below.

No liveness is stated: the code promises none for a session. Left out: wrong passwords,
which change nothing; deleted users; the tutor's subscription that `findOne` reads; the
token of a registration.

Proved in `SessionsProofs`, from `SessionsAssumption`: `TypeCorrect`,
`SessionsNotForked`, and `ImplementsSessionSet`, the refinement of `SessionSet`: every step
opens one session, closes some, or does not show. `SessionNotForked` is not inductive: a
session is also carried by a token that was signed and not inserted yet. The invariant says
that a session in hand belongs to one request and to no row (`HandsDistinct`), that rows
carry different sessions (`RowsDistinct`), and that neither is over.

`PasswordChangesEnd` is proved there too: by `CurrentInv`, every row and every session in
hand is of the password in force, spared, or of a user whose tokens a request has still to
delete.

`SessionsKept` is `SessionKept` of every behaviour, with sockets, password changes and
restarts: the sessions that are `adrift` are set aside in its statement
(`SessionKeptApart`), and no hypothesis is made. Without sockets, and with constants that
keep a string from being issued twice, nothing is adrift and the theorem says what
`sessions_http` checks. A token can be adrift without a socket, for tokens of one user and
second are one string: if a login's row is deleted (signed out, or purged by a change of the
password) within the second it was signed in, and a second login of the same user inserts
the same string in that second, the first browser, whose cookie is dead, has a cookie that
passes again, and its renewal deletes the row of the other. The invariant `KeptInv` says
that browsers and sessions stay apart (`OneBrowser`), that a token a browser knows is older
than the one replacing it (`KnownOK`), so that a late answer or a late renewal cannot undo a
newer one, that a new token on its way is in the whitelist and on its way once (`BearsOK`),
and which requests can set a session adrift (`Drifts`).

## Module Chat

`conversations`, `chats` and `flagged` are tables; `jobs` is the registry of the scheduler
and `table` the gateway's map of connections, both lost in a restart. `request[h]` is a
message in flight: `ReadSubscription` and `ReadPurchase` are the two reads behind the gate
on contact details, `FlagMessage` the row written for a refusal, `FindNone` and `FindFirst`
the lookup of the conversation (in no order, so any of the pair's), `CreateConversation`
and `StartReminder` a first message, `MarkReplied` and `StopReminder` a first reply,
`SaveMessage` and `Broadcast` the end of both. The statement and the code that resumes with
its result are separate steps where that code changes memory. A socket is registered
(`HandleConnection`), its messages are read (`ReadChats`) and sent (`EmitChats`), with
awaits in between; `view[k]` is all a client has been sent, `ticks[k]` what it has been sent
as seen. A client is taken to add what it receives to what it has: the front end is not in
this repository. Messages carry one bit of data, whether `is_valid_msg` accepts them.
`SeenMsg`, `MarkSeen`, `TellSeen` and `SeenFails` are `seenMsg`, one statement per message
and one emission at the end: it takes any ids, and tells only the sender of the first. The
pages (`GetTutorStudents`, `GetPendingStudents`, `FindChatTutors`, `FlaggedPage`) are
operators over the tables.

Set aside: `before` (conversations made before the last restart, whose jobs it ended),
`early` (a reply came between the row of its conversation and the start of the job),
`failed` (the save of a reply was rejected). `open` and `paid` are no excuses: they record
in which requests a pair had access, and which messages they saved.

- `chat_overlap` (one student, one tutor with a tab that connects, two messages at once, one
  change among access, archive and seen, one rejected call or restart): `TypeOK`,
  `NoMissedMessage`, `ContactGate`, `ChatHasConversation`, `ReminderKept`, `SeenShown`,
  `ReplySettles`. It is registering before reading that makes `NoMissedMessage` and
  `SeenShown` true: what the read misses is broadcast to a socket already in the table.
  `ContactGate` asks for access at some time between the arrival of the message and its save,
  so access that ended earlier does not do; access that ends between the read and the save
  does. Two overlapping first messages open two conversations here. Of two overlapping first
  replies both are marked, one stops the job and is saved, and the other finds no job, throws
  and is lost: `ReplySettles` says that one gets through, and that a replied conversation is
  reminded of no more.
- `chat_live` (two messages, one approval, no change, rejected call or restart):
  `MessageArrives`, under weak fairness of each handler's own steps, for statements settle
  and the event loop runs on, and `ChatHasConversation` with the pages of pending students.
  In this run the tutor's id in table `Tutor` is the user id, for otherwise an approval
  changes no conversation (see below).

The deadlock check is on: with no message in flight the system may `Rest`, with one in
flight it must always be able to move.

Proved in `ChatProofs`, from `ChatAssumption`: `TypeCorrect`, `NoMessageMissed`,
`RemindersKept`. The invariant `IInv` adds to them what a handler holds between two of its
statements (`RequestOK`): one that stops a reminder has marked its conversation, one that
broadcasts has saved its message for its receiver. `NoMissedMessage` says nothing of the
time before a socket is ready, so it is not inductive: `SocketOK` says that a socket is in
the table from its registration on, and that each of its messages has come with the list
that was read, with a broadcast, or will. `Grows` says what no step undoes, so that other
requests' parts of `RequestOK` stay true (`OthersKeep`).

Further invariants carry the other theorems. `ContactsArePaid`: by `GateInv`, a request past
the gate is clean or its pair was `open` at some time since it came. `SeenIsShown`: by `SeenInv`, what
was told before a socket read its list was marked when it read it, and what was told later has
been sent to it (`Ticked`). `MessagesHaveConversation`: by `TalkInv`, a message past the lookup has a
conversation of its pair, a saved one has, and the approvals have reached what they are said
to have reached; that two tutors do not share an id in table `Tutor`, its primary key, is
part of `ChatAssumption`, without which a page could show one tutor the students of another;
`FindChatTutors` shows a student's last three conversations, so the property asks it for the
message of a student with up to three. `RepliesSettle`, with overlap, failures and restarts:
by `ReplyInv`, only tutors' requests mark and stop, a conversation is about to start one job at
most and has none before, and where a marked conversation has a job or is about to get one, a
request is about to stop it or its reply was early.

Left out: `sendMsg` from a client with role TUTOR ends at a refusal after the same reads, as
`SendMsg` says; messages to users that are no tutors; tutors without a subscription record;
the status `REJECTED`, which no code sets; the filter of bad words.

## Module Subscription

`record` is table `Subscription`, `customers` and `subs` what Stripe keeps, `events` what
Stripe has not been answered for yet. A request finds the record (`FindRecord`), or makes a
customer and inserts it (`CreateCustomer`, `InsertRecord`, where the unique `userId` refuses
the second of two), writes what it is about to do (`WriteRecord`) and then tells Stripe
(`CallStripe`, `StripeRefuses`). An event carries the subscription as it was when the event
was made. `HandleEvent` takes the oldest, `HandleEventLate` another one, `AnswerLost` leaves
an event that was handled to be delivered again, and `EventFails` is a rejected update,
which the code answers 200 except after 'deleted'. `InvoicePaid`, `InvoiceFails`,
`PeriodEnds` and `Expires` are what Stripe does by itself. `paid` is history.

Set aside: `strayed` holds the tutors of whom Stripe or the network refused a call that the
record announced already, of whom an event was handled late or its update dropped, or who have
two subscriptions at a time. In each of these cases record and Stripe do differ, until the next
event if there is one. `ActiveWasPaid` sets nothing aside, but says 'was paid once': a late
event does revive a subscription that was paid and then cancelled.

- `subscription` (two tutors, two customers and subscriptions, three requests, two changes by
  Stripe, one rejected call, restart, lost answer or late event): `ActiveWasPaid` and
  `RecordFollows` (every event finds the record of who subscribed, however many calls
  race to make it; at rest the record says what Stripe says, unless the tutor has `strayed`:
  a call refused, an event late or dropped, two subscriptions at a time), and
  `EventuallyAgrees`, under weak fairness of the webhook, for Stripe delivers until it is
  answered 200, and of each handler's steps, for calls settle. Three requests are enough for
  two that race and one that finds what they left.

Proved in `SubscriptionProofs`, from `SubscriptionAssumption`: `TypeCorrect`,
`ActivesWerePaid` and `RecordsFollow`. The inductive
invariant relates each record to Stripe: it names a customer and a subscription of its own
tutor, a subscription is of the customer that its owner's record names, and what an event
or a request in flight carries is of the tutor it is for (`RecordOK`, `SubOK`, `EventOK`,
`RequestOK`). Customers, subscriptions and the customer of a record are never taken back
(`Grows`), so what a request read before a call to Stripe is true after it. This gives the
first half of `RecordFollows`, that every event finds its record (`EventsFind`). The second,
agreement at rest, needs to know what is under way: by `FollowInv`, a tutor that has not
strayed has one open subscription at most; the last event about it that is on its way tells
its state; and when there is none, the record says that state already, or a request that
wrote it ahead of Stripe (`Ahead`) has still to call.

Cards, dates, plans, alerts and mails are left out.

## Module Feedback

Tables `User`, `Tutor` and `Student` number their rows on their own: `TutorRow` and
`StudentRow` map the id of a user to the id of the row. `feedbacks` holds ids of the latter
two, requests and jobs hold the first, and the code compares the ones with the others.
`Gate` is the check that the tutor or the student has a subscription record (`RecordMade`: a
student may ask for one, no guard forbids it), behind which `create` stops the weekly job;
`InsertFeedback`, `LookAndAsk`, `FindFeedback`, `WriteReply`, `TellReply`, `WriteStatus` and
`LookAndRemind` are the statements after it. A stored reply that is empty counts as none, as
in the code. A mail carries its address and the two names that the template puts in place of
the tutor's and the student's (`ReviewMails` swaps them, as `feedback.service.ts:54` does).
`FindAll` and `FindAllForAdmin` are the pages.

Set aside: `late` (pairs whose job was started when their feedback had passed the gate or was
there, and not stopped since), `doubled` (feedbacks with two replies under way at a time),
`broken` (feedbacks of which a request was cut short). The names in the mail on the review
itself are not claimed to be in place, for they are not.

- `feedback` (user 1 a tutor, users 2 and 3 students, the row of student 3 having the id of
  user 2, so that comparing the wrong ids finds a wrong row; two feedbacks, two requests at
  once of four, one rejected call or restart): `MailsReachParty`, `PagesShowParty`,
  `FeedbackStopsJob`, `ReplyStands`. The last says that a stored reply that is not empty is
  replaced only if two were under way at a time, and that its student hears of it; it assumes
  weak fairness of each handler's steps. Four requests are enough for a feedback, its
  subscription gate aside, two replies to it, and a decision, or for a job that is started
  around it.

Proved in `FeedbackProofs`, from `FeedbackAssumption`, for any numberings of the three
tables: `TypeCorrect`, `MailsReach`, `PagesShow`, `FeedbackEndsJob`, and `RepliesKept`, the
safety half of `ReplyStands`. The invariant adds that a stored row is of the two users in
`authors` (`RowsOK`), that a request has its pair until it has the row and then a row that
exists (`Held`), that a job of a pair whose feedback is given *or about to be inserted* is in
`late` (`JobsOK`), and that a request about to write a reply has either found no reply stored
or is one of two (`RepliesOK`).

## Modules Approval and Directory

`documents` is the tutor's row, with what is pending and what is approved of each kind;
`flags` are the approval columns, `names` the name and the requested one, each in its parts,
`referees` the rows with their reviews. Uploads and names are numbered. An upload with an
empty url takes a pending one back (`cleared`). A decision on documents reads them
(`ReadDocuments`) and writes later (`WriteDecision`), then reads them again
(`CheckApproved`), raises a flag (`RaiseGovernment`) and takes over the parts of the name
that the admin's page showed (`Rename`). The tutor may upload in between.
`InsertQualification` and `StoreReview` are followed by the flag in a step of its own
(`Notice`); a referee is looked up, inserted or changed, and mailed. One tutor is modelled,
since no handler touches two.

Two routes write the approval columns from an unchecked body: the admin's
(`UpdateTutorDetail`) and the tutor's own PATCH `/tutor` (`UpdateTutor`), which spreads the
body into the row and computes the column of the account from the columns the body names. A
body is any member of the constant `Bodies`, so a page that was loaded before a flag was
raised lowers it again.

`Directory` adds the offers of two tutors, their block status and `deActivate`, the search
(`FilterTutor`), the profile (`GetTutorProfile`) and the admin's list of users (`AllUsers`).
PATCH `/tutor` may set `deActivate`, DELETE `/tutor` answers that it did and stores nothing;
the search leaves out who is blocked or deactivated, the profile does not.

Set aside: `crossed` (documents and parts of a name submitted while a decision on what was
there before was under way, which wipes the one and clears the other), `lowered` (flags that a
body has set back to `NOT_ADDED`), `bypassed` (an approval by the route under `/document`,
which raises no flag), `broken` (a request was cut short).

- `approval` (two kinds of documents, two parts of a name, two addresses and referees, two
  uploads, one offer, two requests at once of four, one rejected call or restart; two bodies:
  the government's column lowered, as a stale page has it, and all columns approved):
  `SubmittedStands` (the last upload is approved, or pending where an admin looks for it; each
  part of the last name asked for is in force or asked); `ApprovedStands`; `NothingOwed` (at
  rest, what was submitted has raised its flag, or a body has lowered it since, and referees
  are mailed); `DirectoryAgrees` (search and profile agree on the offers and ratings of tutors
  who are neither blocked nor deactivated). Two requests at once and four in all are enough
  for a decision, an upload or a body in the middle of it, and what comes after.

Proved in `DirectoryProofs`, from `ApprovalAssumption` and `DirectoryAssumption`, of the
composed specification and any bodies: `TypeCorrect`, `SubmissionsStand`, `ApprovalsStand`,
`NothingForgotten`, `SearchAgrees`. None is inductive alone. `DocsStand` and `NamesStand` add
what decisions under way have read: what they are about to write is the last upload, or
the upload is marked as crossed. `NothingLost` replaces 'at rest' by 'raised or lowered, or
about to be raised by a request in flight' for each flag, and 'mailed, or about to be mailed'
for each address. `OffersOK` says that every stored title is in lower case.

Left out: urls, ratings and wording, the day after which a link expires, prices and post
codes, the order and paging of the search. Bodies of POST `/document` are taken to name urls
only, though the type of the request has a status too.

## Modules Accounts and Notices

Registration writes the user (`InsertUser`) and then one row after the other (`CreateRow`,
in the order of `After`), each of which may be rejected or lost in a restart; only the
subscription's record may be missing from what is answered, and an admin who cancels or
reinstates the subscription makes it (`MakeRecord`). Links carry numbered tokens
(`WriteToken`, `MailLink`, `ConfirmEmail`). `Found` is `findOne`, behind every request that is
signed in, and `CurrentTutor` the middleware of the tutor's routes. A deletion reads the address and writes it with
a suffix (`WriteDeleted`); rows and jobs stay. `StartJob` and `RunJob` are the daily
reminder. `Notices` adds the rows of notices, whose readers are looked up after the row is
inserted (`NotifyReaders`), their pages (`PageOf`) and the mailing list.

A mail is a record of what its template is given: of whom it is, where it goes and which link
or notice it carries (`Confirm`, `Remind`, `Notify`, `ResourceLink`; `Invitation` in
`Approval`, `AskedMail` and its like in `Feedback`). The layout is left out; a global notice
goes out by a template of its own, with the same three.

Set aside: `excused` (a row whose insert was refused, or that its tutor removed), `cut` (a
link lost with its request), `missed` (an address whose insert into the mailing list was
refused or cut short), and the audience of a notice whose lookup failed after the insert,
which is emptied: the poster is answered all the same and nobody is mailed.

- `accounts` (two addresses, two users, two requests on accounts and one on notices in flight
  of four, three tokens, one rejected call or restart): `AnsweredWhole`, `LinkWorks`,
  `NoticesAgree`, `DeletedLeftAlone`. Four requests are enough for a registration, a second
  one or a resent link that overlaps it, a deletion and a notice.

Passwords and sessions of the same users are in `Sessions`, the requested name in
`Approval`, blocking in `Sessions` and `Directory`. Left out: DELETE `/user/all`, a
developer's route that empties table `User`, after which nothing said here of an account
holds; and, of the body of PATCH `/user`, which is not checked, all columns but the address.

Proved in `NoticesProofs`, from `AccountsAssumption` and `NoticesAssumption`: `TypeCorrect`,
`RegistrationsWhole`, `LinksWork`, `NoticesReach` and `DeletedAlone`. The inductive invariant
`Inv` says what a request in flight has done so far (`RequestOK`: it knows its user, and a
registration has left the rows of the statements `Before` its own), without which the answer
could not be known to be whole; that a user without a token is confirmed (`LinksOK`); that a
deleted account has a suffix (`Renamed`), which is why a later mail goes elsewhere; and that
who was to be mailed a notice is still who it is for (`AudiencesOK`). Every step on the
accounts also `Grows`: users and roles stay, and a row is lost only with an excuse, so that
the notices need not know which step it was.

## Bounds

`MaxCredits`, `MaxPurchases`, `MaxDisputes`, `MaxIntents`, `MaxLogins`, `MaxPasswords`,
`MaxTime`, `MaxMessages`, `MaxApprovals`, `MaxChanges`, `MaxCustomers`, `MaxSubs`,
`MaxFeedbacks`, `MaxUploads`, `MaxReferees`, `MaxOffers`, `MaxUsers`, `MaxTokens`,
`MaxSuffixes`, `MaxNotices` and `MaxRequests` stop actions whose number the
program does not limit; `MaxFaults`, `MaxCrashes` and `MaxRestarts` count what the
environment does. They appear in guards only, and the theorems hold for all their values.
Two or three handlers and one or two users are enough because every check in this code is
a read and a later write of the same few rows: an interleaving that matters is one of two
requests, or of a request with a restart, a webhook or an admin. A run allows deadlock
(`CHECK_DEADLOCK FALSE`) where its bounds, once used up, stop the system; sessions and chats
can always go on.

## What is proved and what is only checked

Every invariant of the passing runs, the action properties and both refinements are proved,
for all values of the constants that the modules' named assumptions allow and with no other
hypothesis: requests may overlap in every way, calls be rejected and the process restart.
What the properties set aside is in their statements, as history variables.

Only model-checked are the liveness properties: `PaidIsSold`, `MessageArrives`,
`EventuallyAgrees` and the second half of `ReplyStands`. They rest on fairness, and so on
ENABLED, which the prover does not handle. `SessionKept` is checked by `sessions_http` and
proved in the form `SessionKeptApart`, which sets aside what is adrift. The runs
`sessions_socket` and `wallet_race` show violations and have nothing to prove.

## What the checks found

- `sessions_socket` (`chats.gateway.ts:269`): a socket event that verifies a token older
  than four hours replaces it and drops the replacement; the user is logged out.
- `wallet_race` (`students.service.ts:166`): two overlapping purchases of one tutor with
  credits both pass 'already purchased' and both are recorded; since both write the number
  of credits they computed, the student pays one credit for the two.

Met while modelling, at the lines named; the models say what the code does in each case:

- Signing out with a token older than four hours deletes nothing, for the middleware has
  replaced it; the answer carries the new cookie (`users.controller.ts:81`).
- 'Student approved' is answered after an update by the tutor's id in table `Tutor`, where
  conversations hold the tutor's user id, so that nothing changes unless the two ids are
  equal (`tutors.service.ts:499`); the list of pending students uses the same id.
- A tutor whose subscription record could not be made is registered, and then locked out:
  `findOne`, behind every request, reads the record (`users.service.ts:87`, `:223`).
- The daily job mails the address of the registration even after the account was deleted,
  throws once the tutoring details are removed, and ends with the process. A list of
  referees or subjects that is empty is not missing (`!referees`). An approved tutor is
  reminded for ever (`email-remainder.ts:229`).
- An account made again at the address of a deleted one cannot be deleted: the suffixed
  address is taken.
- The gate of feedback, 'bought a subscription', passes with any record, an inactive one
  too; 'Feedback already request' compares ids of different tables and so never refuses the
  pair that is meant (`feedback.service.ts`). The weekly job mails on though feedback was
  given, if it was started after (`review-request.ts:291`). The names in a mail are swapped
  (`feedback.service.ts:54`).
- 'Monthly subscription has been activated' is mailed for a subscription whose first invoice
  is not paid yet (`stripe.controller.ts:72`).
- The search counts the ratings of rejected feedback (`tutors.service.ts:431`), pages through
  rows in no order, shows deleted tutors, and fails for a level it does not know.
- The update that stores a changed card is built and never awaited, and Prisma runs a
  statement only when it is: the card in table `Subscription` stays (`stripe.controller.ts:182`).
- `seenMsg` marks any ids and tells the sender of the first only (`chats.gateway.ts:245`).
- PATCH `/tutor` writes the approval columns and `deActivate` that the page sends along, so
  that a page older than a flag lowers it (`tutors.controller.ts:68`).
- Asking for a new name alone sets the documents to PENDING; a tutor's change of the profile
  resets `is_account_approved`; changing a referee to a taken address is answered 'Referee
  not found'; an admin's decision raises the alert that the tutor updated documents.

## Not modelled

- Mail templates and the provider: text and layout; the provider's errors are swallowed
  where it is called. Who is mailed about what is in the modules.
- Files and images: S3 and Cloudinary, outside the process; that a new picture is told to
  the admins is `UpdatePicture` in `Accounts`.
- DELETE `/user/all`, a developer's route that empties table `User`.
- Rows of one owner that nothing else reads: resources, a student's profile, the list of
  purchased tutors.
- Wiring, validation of requests, formatting: they keep no state.
- The front end, the database and Stripe themselves, beyond what the code relies on.

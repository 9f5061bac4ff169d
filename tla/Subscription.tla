------------------------------ MODULE Subscription ------------------------------
(***************************************************************************)
(* The monthly subscription of a tutor: the record in table Subscription,  *)
(* the subscriptions that Stripe keeps, and the events by which Stripe     *)
(* tells the webhook what became of them.                                  *)
(*                                                                         *)
(* A request of the tutor or of an admin finds the record, or makes it     *)
(* with a new Stripe customer, writes what it is about to do, and then     *)
(* tells Stripe.  An event carries the state of a subscription when it was *)
(* made, and is delivered any time later.  The card, the dates and the     *)
(* plan of the record, the alerts and the mails are left out.              *)
(***************************************************************************)
EXTENDS Integers, SequencesExt

CONSTANTS
  Tutors,
  Handlers,      \* slots for the requests in flight
  NoRecord, Nobody,
  MaxCustomers,  \* bound on Stripe customers
  MaxSubs,       \* bound on Stripe subscriptions
  MaxRequests,   \* bound on requests
  MaxChanges,    \* bound on what Stripe does to subscriptions by itself
  MaxFaults      \* bound on rejected calls, restarts and events out of order

ASSUME SubscriptionAssumption ==
  /\ NoRecord \notin [customer : Nat, sub : Nat, active : BOOLEAN, cancelled : BOOLEAN]
  /\ Nobody \notin Tutors
  /\ {MaxCustomers, MaxSubs, MaxRequests, MaxChanges, MaxFaults} \subseteq Nat

VARIABLES
  record,     \* table Subscription: by tutor
  customers,  \* the owners of the Stripe customers, in the order of their making
  subs,       \* the subscriptions at Stripe, in the order of their making
  events,     \* events not answered yet, oldest first
  request,    \* local state of the request in each slot
  paid,       \* history: subscriptions that were paid once
  strayed,    \* history: tutors with a refused call, a lost or late event, or
              \* two subscriptions at a time
  requests, changes, faults

stripe == <<customers, subs, paid>>
bounds == <<requests, changes, faults>>
vars == <<record, stripe, events, request, strayed, bounds>>

\* sub 0 is the empty id.
Record == [customer : Nat, sub : Nat, active : BOOLEAN, cancelled : BOOLEAN]

Statuses == {"incomplete", "active", "past_due", "ended"}
Sub == [customer : Nat, status : Statuses, cancelling : BOOLEAN]
Event == [sub : Nat, deleted : BOOLEAN, status : Statuses, cancelling : BOOLEAN]

Ops == {"view", "create", "cancel", "instant", "reinstate", "adminReinstate"}
Request == [pc : {"idle", "find", "customer", "insert", "subscribe", "write", "stripe"},
            op : Ops, tutor : Tutors \cup {Nobody}, customer : Nat, sub : Nat]

Idle == [pc |-> "idle", op |-> "view", tutor |-> Nobody, customer |-> 0, sub |-> 0]

Init ==
  /\ record = [t \in Tutors |-> NoRecord]
  /\ customers = <<>> /\ subs = <<>> /\ events = <<>>
  /\ request = [h \in Handlers |-> Idle]
  /\ paid = {} /\ strayed = {}
  /\ requests = 0 /\ changes = 0 /\ faults = 0

-----------------------------------------------------------------------------
(* Helpers                                                                 *)

At(h, pc) == request[h].pc = pc
Set(h, r) == request' = [request EXCEPT ![h] = r]
Goto(h, pc) == Set(h, [request[h] EXCEPT !.pc = pc])
Settle(h) == Set(h, Idle)

Owner(s) == customers[subs[s].customer]
Open(s) == s # 0 /\ subs[s].status # "ended"
OpenOf(t) == {s \in DOMAIN subs : Owner(s) = t /\ Open(s)}

Emit(s, state) ==
  Append(events, [sub |-> s, deleted |-> state.status = "ended",
                  status |-> state.status, cancelling |-> state.cancelling])

\* Stripe changes a subscription, and makes an event of it.
Change(s, state) ==
  /\ subs' = [subs EXCEPT ![s] = state]
  /\ events' = Emit(s, state)

-----------------------------------------------------------------------------
(* Requests                                                                *)

Start(h, t, op) ==
  /\ At(h, "idle")
  /\ requests < MaxRequests
  /\ requests' = requests + 1
  /\ Set(h, [Idle EXCEPT !.pc = "find", !.op = op, !.tutor = t])
  /\ UNCHANGED <<record, stripe, events, strayed, changes, faults>>

\* What a request does with the record it was given.
WithRecord(h, rec) ==
  LET r == request[h]
      held == [r EXCEPT !.customer = rec.customer, !.sub = rec.sub]
  IN CASE r.op = "view" -> Settle(h)
       [] r.op = "create" -> Set(h, [held EXCEPT !.pc = "subscribe"])
       [] r.op \in {"cancel", "instant", "reinstate"} -> Set(h, [held EXCEPT !.pc = "write"])
       [] r.op = "adminReinstate" ->
            IF rec.cancelled THEN Set(h, [r EXCEPT !.pc = "find", !.op = "reinstate"])
            ELSE Settle(h)

FindRecord(h) ==
  LET rec == record[request[h].tutor]
  IN /\ At(h, "find")
     /\ IF rec = NoRecord THEN Goto(h, "customer") ELSE WithRecord(h, rec)
     /\ UNCHANGED <<record, stripe, events, strayed, bounds>>

CreateCustomer(h) ==
  /\ At(h, "customer")
  /\ Len(customers) < MaxCustomers
  /\ customers' = Append(customers, request[h].tutor)
  /\ Set(h, [request[h] EXCEPT !.pc = "insert", !.customer = Len(customers) + 1])
  /\ UNCHANGED <<record, subs, paid, events, strayed, bounds>>

\* Mutant: the second insert replaces the record.
InsertRecordUpsert(h) ==
  LET r == request[h]
      new == [customer |-> r.customer, sub |-> 0, active |-> FALSE, cancelled |-> FALSE]
  IN /\ At(h, "insert")
     /\ record' = [record EXCEPT ![r.tutor] = new] /\ WithRecord(h, new)
     /\ UNCHANGED <<stripe, events, strayed, bounds>>

\* The second of two inserts meets the unique userId and fails.
InsertRecord(h) ==
  LET r == request[h]
      new == [customer |-> r.customer, sub |-> 0, active |-> FALSE, cancelled |-> FALSE]
  IN /\ At(h, "insert")
     /\ IF record[r.tutor] = NoRecord
        THEN record' = [record EXCEPT ![r.tutor] = new] /\ WithRecord(h, new)
        ELSE Settle(h) /\ UNCHANGED record
     /\ UNCHANGED <<stripe, events, strayed, bounds>>

\* Mutant: a trial, in a status the webhook does not expect.
CreateSubscriptionTrial(h) ==
  LET new == [customer |-> request[h].customer, status |-> "trialing", cancelling |-> FALSE]
  IN /\ At(h, "subscribe")
     /\ Len(subs) < MaxSubs
     /\ subs' = Append(subs, new)
     /\ events' = Emit(Len(subs) + 1, new)
     /\ strayed' = strayed \cup {t \in {request[h].tutor} : OpenOf(t) # {}}
     /\ Settle(h)
     /\ UNCHANGED <<record, customers, paid, bounds>>

\* The subscription is incomplete until its first invoice is paid.
CreateSubscription(h) ==
  LET new == [customer |-> request[h].customer, status |-> "incomplete", cancelling |-> FALSE]
  IN /\ At(h, "subscribe")
     /\ Len(subs) < MaxSubs
     /\ subs' = Append(subs, new)
     /\ events' = Emit(Len(subs) + 1, new)
     /\ strayed' = strayed \cup {t \in {request[h].tutor} : OpenOf(t) # {}}
     /\ Settle(h)
     /\ UNCHANGED <<record, customers, paid, bounds>>

\* cancelSubscription, cancelSubscriptionInstant and reinstateSubscription
\* write the record first.
WriteRecord(h) ==
  LET t == request[h].tutor
  IN /\ At(h, "write")
     /\ record' = [record EXCEPT ![t] =
          CASE request[h].op = "cancel" -> [@ EXCEPT !.cancelled = TRUE]
            [] request[h].op = "reinstate" -> [@ EXCEPT !.cancelled = FALSE]
            [] request[h].op = "instant" ->
                 [@ EXCEPT !.cancelled = FALSE, !.sub = 0, !.active = FALSE]]
     /\ Goto(h, "stripe")
     /\ UNCHANGED <<stripe, events, strayed, bounds>>

\* Mutant: Stripe is not told of a reinstatement.
CallStripeSilent(h) ==
  LET r == request[h]
      now == subs[r.sub]
      next == CASE r.op = "instant" -> [now EXCEPT !.status = "ended"]
                [] r.op = "cancel" -> [now EXCEPT !.cancelling = TRUE]
                [] OTHER -> now
  IN /\ At(h, "stripe")
     /\ Open(r.sub)
     /\ IF next = now THEN UNCHANGED <<subs, events>> ELSE Change(r.sub, next)
     /\ Settle(h)
     /\ UNCHANGED <<record, customers, paid, strayed, bounds>>

\* Stripe makes no event of an update that changes nothing.
CallStripe(h) ==
  LET r == request[h]
      now == subs[r.sub]
      next == IF r.op = "instant" THEN [now EXCEPT !.status = "ended"]
              ELSE [now EXCEPT !.cancelling = r.op = "cancel"]
  IN /\ At(h, "stripe")
     /\ Open(r.sub)
     /\ IF next = now THEN UNCHANGED <<subs, events>> ELSE Change(r.sub, next)
     /\ Settle(h)
     /\ UNCHANGED <<record, customers, paid, strayed, bounds>>

\* There is no such subscription, or it is over: what was written stays.
StripeRefuses(h) ==
  /\ At(h, "stripe")
  /\ ~Open(request[h].sub)
  /\ strayed' = strayed \cup {t \in {request[h].tutor} : OpenOf(t) # {}}
  /\ Settle(h)
  /\ UNCHANGED <<record, stripe, events, bounds>>

\* A call is rejected, and the handler throws.
CallFails(h) ==
  /\ ~At(h, "idle")
  /\ faults < MaxFaults
  /\ faults' = faults + 1
  /\ strayed' = IF At(h, "stripe") THEN strayed \cup {request[h].tutor} ELSE strayed
  /\ Settle(h)
  /\ UNCHANGED <<record, stripe, events, requests, changes>>

-----------------------------------------------------------------------------
(* The webhook                                                             *)

\* getSubscriptionByCustomerId: the tutors whose record has the customer.
Holder(e) == {t \in Tutors : record[t] # NoRecord /\ record[t].customer = subs[e.sub].customer}

\* Mutant: any status that is not over counts.
ApplyUnended(e) ==
  record' = [t \in Tutors |->
    IF t \notin Holder(e) THEN record[t]
    ELSE [record[t] EXCEPT !.sub = e.sub, !.active = e.status # "ended",
                           !.cancelled = e.cancelling]]
\* 'customer.subscription.deleted', or else 'created', which falls through to
\* 'updated'; without a record nothing is written.
Apply(e) ==
  record' = [t \in Tutors |->
    IF t \notin Holder(e) THEN record[t]
    ELSE IF e.deleted THEN [record[t] EXCEPT !.sub = 0, !.active = FALSE]
    ELSE [record[t] EXCEPT !.sub = e.sub, !.active = e.status = "active",
                               !.cancelled = e.cancelling]]

\* The update after 'deleted' throws without a record.
Handles(e) == e.deleted => Holder(e) # {}

HandleEvent ==
  /\ events # <<>> /\ Handles(Head(events))
  /\ Apply(Head(events))
  /\ events' = Tail(events)
  /\ UNCHANGED <<stripe, request, strayed, bounds>>

Fault(t) ==
  /\ faults < MaxFaults
  /\ faults' = faults + 1
  /\ strayed' = strayed \cup {t}

\* A later event is handled before an earlier one.
HandleEventLate(i) ==
  /\ i \in 2..Len(events) /\ Handles(events[i])
  /\ Apply(events[i])
  /\ events' = RemoveAt(events, i)
  /\ Fault(Owner(events[i].sub))
  /\ UNCHANGED <<stripe, request, requests, changes>>

\* The statement succeeds and the answer is lost: Stripe will deliver again.
AnswerLost ==
  /\ events # <<>> /\ Handles(Head(events))
  /\ faults < MaxFaults
  /\ faults' = faults + 1
  /\ Apply(Head(events))
  /\ UNCHANGED <<stripe, events, request, strayed, requests, changes>>

\* A rejected update is caught and answered 200; the update after 'deleted' is
\* not, and Stripe delivers the event again.
EventFails ==
  /\ events # <<>>
  /\ IF Head(events).deleted
     THEN faults < MaxFaults /\ faults' = faults + 1 /\ UNCHANGED <<events, strayed>>
     ELSE events' = Tail(events) /\ Fault(Owner(Head(events).sub))
  /\ UNCHANGED <<record, stripe, request, requests, changes>>

-----------------------------------------------------------------------------
(* Stripe, and the process                                                 *)

ByStripe(s, from, to) ==
  /\ s \in DOMAIN subs /\ subs[s].status \in from
  /\ changes < MaxChanges
  /\ changes' = changes + 1
  /\ Change(s, [subs[s] EXCEPT !.status = to])
  /\ UNCHANGED <<record, customers, request, strayed, requests, faults>>

InvoicePaid(s) == ByStripe(s, {"incomplete", "past_due"}, "active") /\ paid' = paid \cup {s}
InvoiceFails(s) == ByStripe(s, {"active"}, "past_due") /\ UNCHANGED paid
PeriodEnds(s) ==
  /\ s \in DOMAIN subs /\ subs[s].cancelling
  /\ ByStripe(s, {"active", "past_due"}, "ended") /\ UNCHANGED paid

\* Nobody pays the first invoice: an event 'updated' says so.
Expires(s) ==
  /\ s \in DOMAIN subs /\ subs[s].status = "incomplete"
  /\ changes < MaxChanges
  /\ changes' = changes + 1
  /\ subs' = [subs EXCEPT ![s].status = "ended"]
  /\ events' = Append(events, [sub |-> s, deleted |-> FALSE, status |-> "ended",
                               cancelling |-> subs[s].cancelling])
  /\ UNCHANGED <<record, customers, paid, request, strayed, requests, faults>>

\* The requests in flight are lost.
Restart ==
  /\ faults < MaxFaults
  /\ faults' = faults + 1
  /\ strayed' = strayed \cup {request[h].tutor : h \in {g \in Handlers : At(g, "stripe")}}
  /\ request' = [h \in Handlers |-> Idle]
  /\ UNCHANGED <<record, stripe, events, requests, changes>>

-----------------------------------------------------------------------------
Continue(h) ==
  \/ FindRecord(h) \/ CreateCustomer(h) \/ InsertRecord(h)
  \/ CreateSubscription(h) \/ WriteRecord(h) \/ CallStripe(h) \/ StripeRefuses(h)

Next ==
  \/ \E h \in Handlers, t \in Tutors, op \in Ops : Start(h, t, op)
  \/ \E h \in Handlers : Continue(h) \/ CallFails(h)
  \/ HandleEvent \/ AnswerLost \/ EventFails
  \/ \E i \in DOMAIN events : HandleEventLate(i)
  \/ \E s \in DOMAIN subs : InvoicePaid(s) \/ InvoiceFails(s) \/ PeriodEnds(s) \/ Expires(s)
  \/ Restart

Spec == Init /\ [][Next]_vars

\* Calls settle, and Stripe delivers an event until it is answered 200.
FairSpec == Spec /\ WF_vars(HandleEvent) /\ \A h \in Handlers : WF_vars(Continue(h))

-----------------------------------------------------------------------------
(* Properties                                                              *)

TypeOK ==
  /\ record \in [Tutors -> Record \cup {NoRecord}]
  /\ customers \in Seq(Tutors) /\ subs \in Seq(Sub) /\ events \in Seq(Event)
  /\ request \in [Handlers -> Request]
  /\ paid \subseteq DOMAIN subs /\ strayed \subseteq Tutors
  /\ requests \in 0..MaxRequests /\ changes \in 0..MaxChanges /\ faults \in 0..MaxFaults

\* A record that reads active names a subscription of the tutor's own that was
\* paid, whatever was late, repeated or refused.
ActiveWasPaid ==
  \A t \in Tutors : record[t] # NoRecord /\ record[t].active =>
    record[t].sub \in paid /\ Owner(record[t].sub) = t

\* However many calls of getSubscription race to make the record, Stripe never
\* bills a customer that no record names: every event finds the record of the
\* tutor who subscribed.
EventsFindRecord ==
  \A i \in DOMAIN events : Holder(events[i]) = {Owner(events[i].sub)}

\* Does the record of t say what Stripe says?
Agrees(t) ==
  \/ record[t] = NoRecord
  \/ /\ OpenOf(t) = {} => ~record[t].active
     /\ \A s \in OpenOf(t) : /\ record[t].sub = s
                            /\ record[t].active = (subs[s].status = "active")
                            /\ record[t].cancelled = subs[s].cancelling

\* Part of RecordFollows: between requests and with no event on its way, the record agrees with Stripe,
\* unless a call was refused, an event came late or was dropped, or the tutor
\* subscribed twice.
AgreesAtRest ==
  events = <<>> =>
    \A t \in Tutors \ strayed :
      (\A h \in Handlers : ~(At(h, "stripe") /\ request[h].tutor = t)) => Agrees(t)

\* The record follows Stripe.
RecordFollows == EventsFindRecord /\ AgreesAtRest

\* A disagreement never lasts: what the record says ahead of Stripe, or Stripe
\* ahead of the record, is made good by a later step.
EventuallyAgrees == \A t \in Tutors : []<>(t \in strayed \/ Agrees(t))
================================================================================

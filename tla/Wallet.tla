------------------------------- MODULE Wallet -------------------------------
(***************************************************************************)
(* The student wallet: credits, tutor purchases, disputes and the Stripe   *)
(* payments that pay for purchases.                                        *)
(*                                                                         *)
(* Every handler is an async function.  It runs to its next await without  *)
(* interruption, so a step below is one database statement or one Stripe   *)
(* call together with the synchronous code up to the next one.  The        *)
(* handlers use no transaction: the steps of two requests interleave.      *)
(***************************************************************************)
EXTENDS Integers, Sequences, FiniteSets

CONSTANTS
  Students,      \* user ids of students
  Tutors,        \* tutor ids that requests name
  KnownTutors,   \* the tutor ids that the User table holds
  Handlers,      \* slots for the requests in flight
  Accumulators,  \* what an admin may add to a wallet, "can be either +/-"
  NoRecord,      \* a payment row that does not exist
  Nobody,        \* a user or tutor id that a request does not have
  MaxCredits,    \* bound: no credit is added to a wallet that was given so many
  MaxPurchases,  \* bound: no credit purchase starts after so many sales
  MaxDisputes,   \* bound on rows of PurchaseDispute
  MaxIntents,    \* bound on Stripe payment intents
  MaxFaults,     \* bound on rejected database or Stripe calls
  MaxCrashes     \* bound on restarts of the process

ASSUME WalletAssumption ==
  /\ KnownTutors \subseteq Tutors
  /\ IsFiniteSet(Handlers)
  /\ Accumulators \subseteq Int
  /\ Nobody \notin Students \cup Tutors
  /\ NoRecord \notin [customer : Nat \ {0}, credits : Nat]
  /\ {MaxCredits, MaxPurchases, MaxDisputes, MaxIntents, MaxFaults, MaxCrashes}
       \subseteq Nat

VARIABLES
  payment,    \* StudentPayment by userId (unique), or NoRecord
  customers,  \* Stripe customers in the order they were made, with the student
  purchases,  \* StudentPurchase rows, the id of a row is its position
  disputes,   \* PurchaseDispute rows
  intents,    \* Stripe payment intents and the delivery of their webhook
  handler,    \* local state of the request in each slot
  granted,    \* history: credits added to a wallet, per student
  stale,      \* history: what each request relies on that another one changed
  torn,       \* history: students whose wallet an outdated request wrote
  faults,     \* rejected calls so far
  crashes     \* restarts so far

tables == <<payment, purchases, disputes>>
stripe == <<customers, intents>>
history == <<granted, stale, torn>>
environment == <<faults, crashes>>
vars == <<tables, stripe, handler, history, environment>>

PaymentRow == [customer : Nat \ {0}, credits : Nat]
PurchaseRow == [user : Students, tutor : KnownTutors,
                method : {"Credit", "Stripe"},
                status : {"Active", "Deleted", "Suspended"}]
DisputeRow == [purchase : Nat \ {0}, status : {"Open", "Closed"}]
\* NoCustomer pays for something else: the invoice of a tutor's subscription.
NoCustomer == 0
IntentRow == [customer : Nat, student : Students \cup {Nobody},
              tutor : Tutors \cup {Nobody}, paid : BOOLEAN, acked : BOOLEAN]

(***************************************************************************)
(* A request in flight.  op is the service method; creditPurchase is       *)
(* "credit" until it calls accumulateCredits and "debit" from there.  pc   *)
(* is the statement it is about to make.                                   *)
(***************************************************************************)
Ops == {"none", "view", "credit", "debit", "adjust", "close", "intent", "webhook"}
PCs == {"idle", "find", "customer", "insert", "gate", "write", "grant",
        "close", "intent", "lookup", "sale", "ack"}
Request == [op : Ops, pc : PCs, user : Students \cup {Nobody},
            tutor : Tutors \cup {Nobody}, delta : Int, id : Nat,
            credits : Nat, customer : Nat]

Idle == [op |-> "none", pc |-> "idle", user |-> Nobody, tutor |-> Nobody,
         delta |-> 0, id |-> 0, credits |-> 0, customer |-> NoCustomer]

Init ==
  /\ payment = [s \in Students |-> NoRecord]
  /\ customers = <<>>
  /\ purchases = <<>>
  /\ disputes = <<>>
  /\ intents = <<>>
  /\ handler = [h \in Handlers |-> Idle]
  /\ granted = [s \in Students |-> 0]
  /\ stale = [h \in Handlers |-> {}]
  /\ torn = {}
  /\ faults = 0
  /\ crashes = 0

-----------------------------------------------------------------------------
(* Helpers                                                                 *)

\* Mutation: the clamp is dropped.
NonNegativeUnclamped(n) == n

\* The code keeps a wallet from going below zero: "non -ve only".
NonNegative(n) == IF n > 0 THEN n ELSE 0

\* hasStudentPurchaseTutor: the rows that stop a second credit purchase.
LivePurchases(s, t) ==
  {i \in DOMAIN purchases : /\ purchases[i].user = s
                            /\ purchases[i].tutor = t
                            /\ purchases[i].status # "Deleted"}

\* What getStudentPaymentRecord returns to, by method.
AfterRecord(op) ==
  CASE op = "view"   -> "idle"
    [] op = "credit" -> "gate"
    [] op = "intent" -> "intent"
    [] OTHER         -> "write"

\* What accumulateCredits returns to, by method.
AfterWrite(op) ==
  CASE op = "debit" -> "grant"
    [] op = "close" -> "close"
    [] OTHER        -> "idle"

Set(h, r) == handler' = [handler EXCEPT ![h] = IF r.pc = "idle" THEN Idle ELSE r]
Reply(h) == Set(h, Idle)
Goto(h, pc) == Set(h, [handler[h] EXCEPT !.pc = pc])
At(h, pc) == handler[h].pc = pc

\* The promise of getStudentPaymentRecord resolves with row.
Resume(h, row) ==
  Set(h, [handler[h] EXCEPT !.pc = AfterRecord(handler[h].op),
                            !.credits = row.credits, !.customer = row.customer])

\* The service keeps requests about one student apart nowhere: a request takes
\* any idle slot, and relies on nothing yet.
Arrives(h, r) ==
  /\ At(h, "idle")
  /\ Set(h, r)
  /\ stale' = [stale EXCEPT ![h] = {}]
  /\ UNCHANGED <<granted, torn>>

\* Between reading the credits of s and the write that depends on them; a
\* credit purchase depends on the credits it checked until it has debited.
HoldsCredits(h, s) ==
  /\ handler[h].user = s
  /\ At(h, "gate") \/ At(h, "write") \/ (handler[h].op = "debit" /\ ~At(h, "grant"))

\* Between the check for an earlier purchase and the insert.
HoldsCheck(h, s, t) ==
  handler[h].op = "debit" /\ handler[h].user = s /\ handler[h].tutor = t

\* The requests in slots H rely on data that has just changed.
Outdate(H, data) ==
  stale' = [h \in Handlers |-> IF h \in H THEN stale[h] \cup {data} ELSE stale[h]]

BelowCreditBound(s) == granted[s] < MaxCredits
InFlight(op) == {h \in Handlers : handler[h].op = op}

-----------------------------------------------------------------------------
(* Requests arrive                                                         *)

\* GET /students/payment-record, /students/purchase-record and the admin's
\* purchase-records: each fetches the wallet, which makes one if need be.
ViewRecord(h, s) ==
  /\ Arrives(h, [Idle EXCEPT !.op = "view", !.pc = "find", !.user = s])
  /\ UNCHANGED <<tables, stripe, environment>>

CreditPurchase(h, s, t) ==
  /\ Len(purchases) < MaxPurchases
  /\ Arrives(h, [Idle EXCEPT !.op = "credit", !.pc = "find", !.user = s, !.tutor = t])
  /\ UNCHANGED <<tables, stripe, environment>>

AccumulateCredits(h, s, n) ==
  /\ BelowCreditBound(s)
  /\ Arrives(h, [Idle EXCEPT !.op = "adjust", !.pc = "find", !.user = s, !.delta = n])
  /\ UNCHANGED <<tables, stripe, environment>>

StripePurchaseIntent(h, s, t) ==
  /\ Len(intents) + Cardinality(InFlight("intent")) < MaxIntents
  /\ Arrives(h, [Idle EXCEPT !.op = "intent", !.pc = "find", !.user = s, !.tutor = t])
  /\ UNCHANGED <<tables, stripe, environment>>

\* closeDispute reads the dispute and its purchase, whatever its status.
CloseDispute(h, d, awardCredit) ==
  LET s == purchases[disputes[d].purchase].user
      pc == IF awardCredit THEN "find" ELSE "close" IN
  /\ awardCredit => BelowCreditBound(s)
  /\ Arrives(h, [Idle EXCEPT !.op = "close", !.pc = pc, !.user = s, !.id = d,
                         !.delta = IF awardCredit THEN 1 ELSE 0])
  /\ UNCHANGED <<tables, stripe, environment>>

\* fileDispute is one insert; it checks neither the owner of the purchase nor
\* whether the purchase is in dispute already.
FileDispute(p) ==
  /\ Len(disputes) < MaxDisputes
  /\ disputes' = Append(disputes, [purchase |-> p, status |-> "Open"])
  /\ UNCHANGED <<payment, purchases, stripe, handler, history, environment>>

\* setPurchaseStatus is one update, from any status to any other.
SetPurchaseStatus(p, status) ==
  /\ purchases[p].status # status
  /\ purchases' = [purchases EXCEPT ![p].status = status]
  /\ IF status = "Deleted" THEN UNCHANGED stale
     ELSE Outdate({h \in Handlers : HoldsCheck(h, purchases[p].user, purchases[p].tutor)},
                  "purchases")
  /\ UNCHANGED <<payment, disputes, stripe, handler, granted, torn, environment>>

-----------------------------------------------------------------------------
(* Steps of getStudentPaymentRecord and createPaymentRecord                *)

FindRecord(h) ==
  /\ At(h, "find")
  /\ LET row == payment[handler[h].user] IN
       IF row # NoRecord THEN Resume(h, row) ELSE Goto(h, "customer")
  /\ UNCHANGED <<tables, stripe, history, environment>>

CreateCustomer(h) ==
  /\ At(h, "customer")
  /\ customers' = Append(customers, handler[h].user)
  /\ Set(h, [handler[h] EXCEPT !.pc = "insert", !.customer = Len(customers) + 1])
  /\ UNCHANGED <<tables, intents, history, environment>>

\* Mutation: an upsert in place of the insert.
InsertRecordUpsert(h) ==
  LET s == handler[h].user
      row == [customer |-> handler[h].customer, credits |-> 0] IN
  /\ At(h, "insert")
  /\ payment' = [payment EXCEPT ![s] = row]
  /\ Resume(h, row)
  /\ UNCHANGED <<purchases, disputes, stripe, history, environment>>

\* userId is unique: the second insert for one student throws to the client.
InsertRecord(h) ==
  LET s == handler[h].user
      row == [customer |-> handler[h].customer, credits |-> 0] IN
  /\ At(h, "insert")
  /\ IF payment[s] = NoRecord
     THEN payment' = [payment EXCEPT ![s] = row] /\ Resume(h, row)
     ELSE Reply(h) /\ UNCHANGED payment
  /\ UNCHANGED <<purchases, disputes, stripe, history, environment>>

-----------------------------------------------------------------------------
(* Steps of creditPurchase, accumulateCredits and closeDispute             *)

\* Mutation: the purchase is granted without a debit.
GateNoDebit(h) ==
  LET r == handler[h] IN
  /\ At(h, "gate")
  /\ IF r.credits <= 0 \/ LivePurchases(r.user, r.tutor) # {}
     THEN Reply(h)
     ELSE Set(h, [r EXCEPT !.op = "debit", !.pc = "grant"])
  /\ UNCHANGED <<tables, stripe, history, environment>>

\* Mutation: an empty wallet passes the check.
GateOffByOne(h) ==
  LET r == handler[h] IN
  /\ At(h, "gate")
  /\ IF r.credits < 0 \/ LivePurchases(r.user, r.tutor) # {}
     THEN Reply(h)
     ELSE Set(h, [r EXCEPT !.op = "debit", !.pc = "find", !.delta = -1])
  /\ UNCHANGED <<tables, stripe, history, environment>>

\* Mutation: the check for an earlier purchase is dropped.
GateUnchecked(h) ==
  LET r == handler[h] IN
  /\ At(h, "gate")
  /\ IF r.credits <= 0
     THEN Reply(h)
     ELSE Set(h, [r EXCEPT !.op = "debit", !.pc = "find", !.delta = -1])
  /\ UNCHANGED <<tables, stripe, history, environment>>

\* 'insufficient credit', then 'already purchased', else take a credit.
Gate(h) ==
  LET r == handler[h] IN
  /\ At(h, "gate")
  /\ IF r.credits <= 0 \/ LivePurchases(r.user, r.tutor) # {}
     THEN Reply(h)
     ELSE Set(h, [r EXCEPT !.op = "debit", !.pc = "find", !.delta = -1])
  /\ UNCHANGED <<tables, stripe, history, environment>>

\* accumulateCredits writes the sum it computed from the row it read.
WriteCredits(h) ==
  LET r == handler[h]
      s == r.user IN
  /\ At(h, "write")
  /\ payment' = [payment EXCEPT ![s].credits = NonNegative(r.credits + r.delta)]
  /\ granted' = [granted EXCEPT ![s] = @ + NonNegative(r.delta)]
  /\ Outdate({g \in Handlers \ {h} : HoldsCredits(g, s)}, "credits")
  /\ torn' = IF "credits" \in stale[h] THEN torn \cup {s} ELSE torn
  /\ Goto(h, AfterWrite(r.op))
  /\ UNCHANGED <<purchases, disputes, stripe, environment>>

\* A purchase row for the request, unless its tutor does not exist: the
\* foreign key then rejects the insert.
InsertPurchase(h, method) ==
  LET r == handler[h] IN
  IF r.tutor \in KnownTutors
  THEN /\ purchases' = Append(purchases, [user |-> r.user, tutor |-> r.tutor,
                                          method |-> method, status |-> "Active"])
       /\ Outdate({g \in Handlers \ {h} : HoldsCheck(g, r.user, r.tutor)}, "purchases")
  ELSE UNCHANGED <<purchases, stale>>

\* The insert that ends creditPurchase; an unknown tutor makes it throw.
GrantPurchase(h) ==
  /\ At(h, "grant")
  /\ InsertPurchase(h, "Credit")
  /\ Reply(h)
  /\ UNCHANGED <<payment, disputes, stripe, granted, torn, environment>>

MarkClosed(h) ==
  /\ At(h, "close")
  /\ disputes' = [disputes EXCEPT ![handler[h].id].status = "Closed"]
  /\ Reply(h)
  /\ UNCHANGED <<payment, purchases, stripe, history, environment>>

-----------------------------------------------------------------------------
(* Paying with Stripe                                                      *)

CreateIntent(h) ==
  LET r == handler[h] IN
  /\ At(h, "intent")
  /\ intents' = Append(intents, [customer |-> r.customer, student |-> r.user,
                                 tutor |-> r.tutor, paid |-> FALSE, acked |-> FALSE])
  /\ Reply(h)
  /\ UNCHANGED <<tables, customers, history, environment>>

\* Stripe: the student pays, which makes the event payment_intent.succeeded.
Pay(i) ==
  /\ ~intents[i].paid
  /\ intents' = [intents EXCEPT ![i].paid = TRUE]
  /\ UNCHANGED <<tables, customers, handler, history, environment>>

\* Stripe: a tutor's subscription is charged; its payment intent succeeds too.
ChargeSubscription ==
  /\ Len(intents) + Cardinality(InFlight("intent")) < MaxIntents
  /\ intents' = Append(intents, [customer |-> NoCustomer, student |-> Nobody,
                                 tutor |-> Nobody, paid |-> TRUE, acked |-> FALSE])
  /\ UNCHANGED <<tables, customers, handler, history, environment>>

\* Mutation: the webhook answers 200 before it records the sale.
DeliverAckFirst(h, i) ==
  /\ intents[i].paid /\ ~intents[i].acked
  /\ intents' = [intents EXCEPT ![i].acked = TRUE]
  /\ Arrives(h, [Idle EXCEPT !.op = "webhook", !.pc = "lookup", !.id = i,
                         !.user = intents[i].student])
  /\ UNCHANGED <<tables, customers, environment>>

\* Stripe posts the event until a delivery is answered with 200, again while
\* an earlier delivery is in flight if the answer takes too long.
Deliver(h, i) ==
  /\ intents[i].paid /\ ~intents[i].acked
  /\ Arrives(h, [Idle EXCEPT !.op = "webhook", !.pc = "lookup", !.id = i,
                         !.user = intents[i].student])
  /\ UNCHANGED <<tables, stripe, environment>>

\* Mutation: the lookup takes any wallet that exists.
LookupCustomerAny(h) ==
  /\ At(h, "lookup")
  /\ \E s \in {u \in Students : payment[u] # NoRecord} :
       Set(h, [handler[h] EXCEPT !.pc = "sale", !.user = s,
                                 !.tutor = intents[handler[h].id].tutor])
  /\ UNCHANGED <<tables, stripe, history, environment>>

\* The student is found by the Stripe customer, not by the metadata.
LookupCustomer(h) ==
  LET i == handler[h].id
      owners == {s \in Students : payment[s] # NoRecord
                                  /\ payment[s].customer = intents[i].customer} IN
  /\ At(h, "lookup")
  /\ \/ \E s \in owners :
          Set(h, [handler[h] EXCEPT !.pc = "sale", !.user = s,
                                    !.tutor = intents[i].tutor])
     \/ owners = {} /\ Goto(h, "ack")
  /\ UNCHANGED <<tables, stripe, history, environment>>

\* No check for an earlier sale of the same intent; errors are only logged.
RecordSale(h) ==
  /\ At(h, "sale")
  /\ InsertPurchase(h, "Stripe")
  /\ Goto(h, "ack")
  /\ UNCHANGED <<payment, disputes, stripe, granted, torn, environment>>

Acknowledge(h) ==
  /\ At(h, "ack")
  /\ intents' = [intents EXCEPT ![handler[h].id].acked = TRUE]
  /\ Reply(h)
  /\ UNCHANGED <<tables, customers, history, environment>>

-----------------------------------------------------------------------------
(* Failures                                                                *)

\* A statement or a Stripe call is rejected and changes nothing.
\* getStudentPaymentRecord takes a rejected find for a missing row, the
\* webhook logs the error and still answers 200, the others answer with it.
CallFails(h) ==
  /\ ~At(h, "idle") /\ ~At(h, "ack")
  /\ faults < MaxFaults
  /\ faults' = faults + 1
  /\ CASE At(h, "find")               -> Goto(h, "customer")
       [] handler[h].op = "webhook"   -> Goto(h, "ack")
       [] OTHER                       -> Reply(h)
  /\ UNCHANGED <<tables, stripe, history, crashes>>

\* The process dies and restarts: requests in flight are gone.
Crash ==
  /\ crashes < MaxCrashes
  /\ \E h \in Handlers : ~At(h, "idle")
  /\ crashes' = crashes + 1
  /\ handler' = [h \in Handlers |-> Idle]
  /\ UNCHANGED <<tables, stripe, history, faults>>

-----------------------------------------------------------------------------
Arrive(h) ==
  \/ \E s \in Students : ViewRecord(h, s)
  \/ \E s \in Students, t \in Tutors : CreditPurchase(h, s, t)
  \/ \E s \in Students, n \in Accumulators : AccumulateCredits(h, s, n)
  \/ \E s \in Students, t \in Tutors : StripePurchaseIntent(h, s, t)
  \/ \E d \in DOMAIN disputes, a \in BOOLEAN : CloseDispute(h, d, a)
  \/ \E i \in DOMAIN intents : Deliver(h, i)

Step(h) ==
  \/ FindRecord(h) \/ CreateCustomer(h) \/ InsertRecord(h)
  \/ Gate(h) \/ WriteCredits(h) \/ GrantPurchase(h) \/ MarkClosed(h)
  \/ CreateIntent(h) \/ LookupCustomer(h) \/ RecordSale(h) \/ Acknowledge(h)

Next ==
  \/ \E h \in Handlers : Arrive(h) \/ Step(h) \/ CallFails(h)
  \/ \E p \in DOMAIN purchases : FileDispute(p)
  \/ \E p \in DOMAIN purchases, status \in {"Active", "Deleted", "Suspended"} :
       SetPurchaseStatus(p, status)
  \/ \E i \in DOMAIN intents : Pay(i)
  \/ ChargeSubscription
  \/ Crash

Spec == Init /\ [][Next]_vars

\* Calls settle and Stripe keeps retrying.  The slots are a bound of the model,
\* so a delivery that finds one free again and again gets one: strong fairness.
Fairness ==
  /\ \A h \in Handlers : WF_vars(Step(h))
  /\ \A i \in 1..MaxIntents :
       SF_vars(i \in DOMAIN intents /\ \E h \in Handlers : Deliver(h, i))

FairSpec == Spec /\ Fairness

-----------------------------------------------------------------------------
(* Properties                                                              *)

CreditSales(s) == {i \in DOMAIN purchases : /\ purchases[i].user = s
                                            /\ purchases[i].method = "Credit"}
Granting(s) == {h \in Handlers : At(h, "grant") /\ handler[h].user = s}

\* Rows and requests have the shape their readers expect; in particular a
\* wallet never holds a negative number of credits (students.service.ts:112).
TypeOK ==
  /\ payment \in [Students -> PaymentRow \cup {NoRecord}]
  /\ customers \in Seq(Students)
  /\ purchases \in Seq(PurchaseRow)
  /\ disputes \in Seq(DisputeRow)
  /\ intents \in Seq(IntentRow)
  /\ handler \in [Handlers -> Request]
  /\ granted \in [Students -> Nat]
  /\ stale \in [Handlers -> SUBSET {"credits", "purchases"}]
  /\ torn \subseteq Students
  /\ faults \in Nat
  /\ crashes \in Nat

\* A Stripe purchase belongs to the student who made and paid the intent, and
\* is for the tutor of that intent: the webhook finds the student by the
\* Stripe customer, which no interleaving attaches to another student.
StripeSaleIsPaid ==
  \A i \in DOMAIN purchases : purchases[i].method = "Stripe" =>
    \E j \in DOMAIN intents : /\ intents[j].paid
                              /\ intents[j].student = purchases[i].user
                              /\ intents[j].tutor = purchases[i].tutor

\* A wallet is made once: racing first requests of a student, and a failed
\* read taken for a missing row, never replace the row and its customer.
WalletMadeOnce ==
  [][\A s \in Students : payment[s] # NoRecord =>
       /\ payment'[s] # NoRecord
       /\ payment'[s].customer = payment[s].customer]_vars

\* The request in slot h adds a purchase, and what its check found still holds
\* or is marked as changed since.
CheckStands(h) ==
  "purchases" \in stale[h] \/ LivePurchases(handler[h].user, handler[h].tutor) = {}
AddsCreditPurchase(h) ==
  At(h, "grant") /\ handler'[h] # handler[h] /\ purchases' # purchases

\* 'already purchased' (students.service.ts:166), as far as the code goes:
\* whatever else is in flight, a credit purchase is added while another one
\* of that tutor is not deleted only if that one appeared after the check.
NoSecondPurchase == [][\A h \in Handlers : AddsCreditPurchase(h) => CheckStands(h)]_vars

\* 'already purchased' as it reads: no credit purchase of a tutor is added
\* while a purchase of that tutor is not deleted.  Two overlapping requests
\* violate it.
OnePurchasePerTutor ==
  [][\A i \in DOMAIN purchases' \ DOMAIN purchases :
       purchases'[i].method = "Credit" =>
         LivePurchases(purchases'[i].user, purchases'[i].tutor) = {}]_vars

\* 'insufficient credit' (students.service.ts:165): whatever else is in
\* flight, fails or is cut off, the tutors a student got for credits are no
\* more than the credits the student was given, unless a request wrote the
\* wallet that another one had written since it read the credits.
CreditsCoverPurchases ==
  \A s \in Students \ torn : Cardinality(CreditSales(s)) <= granted[s]

\* The reads and the later writes of the wallet behave as an account whose
\* changes are atomic, until a student's wallet is written from an outdated
\* read: from then on nothing is promised of that student, all of the others.
Account == INSTANCE Ledger WITH
  balance <- [s \in Students |-> IF payment[s] = NoRecord THEN 0 ELSE payment[s].credits],
  escrow <- [s \in Students |-> Cardinality(Granting(s))],
  sold <- [s \in Students |-> Cardinality(CreditSales(s))],
  loose <- torn
AtomicLedger == Account!Spec

\* What a student paid for is sold to the student in the end, although the
\* process may restart while it handles the webhook.
PaidIsSold ==
  \A i \in 1..MaxIntents : \A s \in Students, t \in KnownTutors :
    (i \in DOMAIN intents /\ intents[i].paid /\ intents[i].student = s
                          /\ intents[i].tutor = t)
    ~> (\E j \in DOMAIN purchases : /\ purchases[j].method = "Stripe"
                                    /\ purchases[j].user = s
                                    /\ purchases[j].tutor = t)
=============================================================================

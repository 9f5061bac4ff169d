---------------------------- MODULE WalletProofs ----------------------------
(***************************************************************************)
(* Proofs about the student wallet, for any number of students, tutors and *)
(* requests in flight, whatever fails and whenever the process restarts.   *)
(***************************************************************************)
EXTENDS Wallet, SequenceTheorems, FiniteSetTheorems, TLAPS

(***************************************************************************)
(* The inductive invariant: beside the types, whose the Stripe customers   *)
(* are, and what a request relies on that it read before its last await.   *)
(***************************************************************************)
IsCustomerOf(c, s) == c \in 1..Len(customers) /\ customers[c] = s

WalletsOwned ==
  \A s \in Students : payment[s] # NoRecord => IsCustomerOf(payment[s].customer, s)

IntentsOwned ==
  \A i \in 1..Len(intents) : intents[i].customer # NoCustomer =>
    IsCustomerOf(intents[i].customer, intents[i].student)

DisputesRefer ==
  \A d \in 1..Len(disputes) : disputes[d].purchase \in 1..Len(purchases)

StudentPCs == {"find", "customer", "insert", "gate", "write", "grant", "intent", "sale"}

RequestOK(r) ==
  /\ r.pc = "idle" => r = Idle
  /\ r.pc \in StudentPCs => r.user \in Students
  /\ r.pc \in {"insert", "intent"} => IsCustomerOf(r.customer, r.user)
  /\ r.pc = "write" => payment[r.user] # NoRecord
  /\ r.op = "webhook" <=> r.pc \in {"lookup", "sale", "ack"}
  /\ r.op = "webhook" => r.id \in 1..Len(intents) /\ intents[r.id].paid
  /\ r.pc = "sale" => r.user = intents[r.id].student /\ r.tutor = intents[r.id].tutor

HistoryOK ==
  /\ granted \in [Students -> Nat]
  /\ stale \in [Handlers -> SUBSET {"credits", "purchases"}]
  /\ torn \subseteq Students

IInv ==
  /\ TypeOK
  /\ WalletsOwned
  /\ IntentsOwned
  /\ DisputesRefer
  /\ \A h \in Handlers : RequestOK(handler[h])
  /\ StripeSaleIsPaid

(***************************************************************************)
(* What no step undoes: a Stripe customer keeps its student, an intent its *)
(* data and its payment, a wallet its existence and its customer.          *)
(***************************************************************************)
Grows ==
  /\ \A c \in 1..Len(customers) : c \in 1..Len(customers') /\ customers'[c] = customers[c]
  /\ \A i \in 1..Len(intents) :
       /\ i \in 1..Len(intents')
       /\ intents'[i].customer = intents[i].customer
       /\ intents'[i].student = intents[i].student
       /\ intents'[i].tutor = intents[i].tutor
       /\ intents[i].paid => intents'[i].paid
  /\ \A s \in Students : payment[s] # NoRecord =>
       payment'[s] # NoRecord /\ payment'[s].customer = payment[s].customer

\* What a request relies on survives every step of the others.
LEMMA GrowsKeeps ==
  ASSUME TypeOK, Grows, NEW r \in Request, RequestOK(r)
  PROVE  RequestOK(r)'
<1>1. r.pc \in {"insert", "intent"} => IsCustomerOf(r.customer, r.user)'
  BY DEF Grows, RequestOK, IsCustomerOf
<1>2. r.pc = "write" => payment'[r.user] # NoRecord
  BY DEF Grows, RequestOK, StudentPCs
<1>3. r.op = "webhook" => r.id \in 1..Len(intents') /\ intents'[r.id].paid
  BY DEF Grows, RequestOK
<1>4. r.pc = "sale" => r.user = intents'[r.id].student /\ r.tutor = intents'[r.id].tutor
  BY DEF Grows, RequestOK
<1> QED
  BY <1>1, <1>2, <1>3, <1>4 DEF RequestOK

LEMMA IdleOK == Idle \in Request /\ RequestOK(Idle)
BY DEF Idle, Request, Ops, PCs, NoCustomer, RequestOK, StudentPCs

\* A step that moves one request to r keeps all requests in order if r is.
LEMMA SetKeeps ==
  ASSUME IInv, Grows, NEW h \in Handlers, NEW r \in Request, Set(h, r),
         r.pc # "idle" => RequestOK(r)'
  PROVE  /\ handler' \in [Handlers -> Request]
         /\ \A g \in Handlers : RequestOK(handler[g])'
<1>1. Idle \in Request /\ RequestOK(Idle)'
  BY IdleOK, GrowsKeeps DEF IInv
<1>2. handler' = [handler EXCEPT ![h] = IF r.pc = "idle" THEN Idle ELSE r]
  BY DEF Set
<1>3. handler' \in [Handlers -> Request]
  BY <1>1, <1>2 DEF IInv, TypeOK
<1>4. ASSUME NEW g \in Handlers PROVE RequestOK(handler[g])'
  <2>1. CASE g = h
    BY <2>1, <1>1, <1>2 DEF IInv, TypeOK, RequestOK, IsCustomerOf
  <2>2. CASE g # h
    <3>1. handler'[g] = handler[g] /\ handler[g] \in Request /\ RequestOK(handler[g])
      BY <2>2, <1>2 DEF IInv, TypeOK
    <3>2. RequestOK(handler[g])'
      BY <3>1, GrowsKeeps DEF IInv
    <3> QED
      BY <3>1, <3>2 DEF RequestOK, IsCustomerOf
  <2> QED
    BY <2>1, <2>2
<1> QED
  BY <1>3, <1>4

\* A step that touches neither the database nor Stripe.
LEMMA LocalStep ==
  ASSUME IInv, NEW h \in Handlers, NEW r \in Request, Set(h, r),
         r.pc # "idle" => RequestOK(r),
         UNCHANGED <<tables, stripe>>, HistoryOK', faults' \in Nat, crashes' \in Nat
  PROVE  IInv' /\ Grows
<1>1. Grows
  BY DEF IInv, TypeOK, Grows, tables, stripe
<1>2. r.pc # "idle" => RequestOK(r)'
  BY <1>1, GrowsKeeps DEF IInv
<1>3. TypeOK'
  BY <1>1, <1>2, SetKeeps DEF IInv, TypeOK, HistoryOK, tables, stripe
<1>4. (\A g \in Handlers : RequestOK(handler[g]))'
  BY <1>1, <1>2, SetKeeps
<1>5. (WalletsOwned /\ IntentsOwned /\ DisputesRefer /\ StripeSaleIsPaid)'
  BY DEF IInv, WalletsOwned, IntentsOwned, DisputesRefer, StripeSaleIsPaid,
         IsCustomerOf, tables, stripe
<1> QED
  BY <1>1, <1>3, <1>4, <1>5 DEF IInv

LEMMA HistoryKept ==
  ASSUME TypeOK
  PROVE  /\ HistoryOK
         /\ UNCHANGED history => HistoryOK'
         /\ \A h \in Handlers : \A r : Arrives(h, r) => HistoryOK'
BY DEF TypeOK, HistoryOK, history, Arrives

LEMMA OutdateKeeps ==
  ASSUME TypeOK, NEW H, NEW data \in {"credits", "purchases"}, Outdate(H, data)
  PROVE  stale' \in [Handlers -> SUBSET {"credits", "purchases"}]
BY DEF TypeOK, Outdate

\* The tables are sequences of rows of their type.
LEMMA Tables ==
  ASSUME TypeOK
  PROVE  /\ Len(customers) \in Nat /\ DOMAIN customers = 1..Len(customers)
         /\ Len(purchases) \in Nat /\ DOMAIN purchases = 1..Len(purchases)
         /\ Len(disputes) \in Nat /\ DOMAIN disputes = 1..Len(disputes)
         /\ Len(intents) \in Nat /\ DOMAIN intents = 1..Len(intents)
         /\ \A c \in 1..Len(customers) : customers[c] \in Students
         /\ \A p \in 1..Len(purchases) : purchases[p] \in PurchaseRow
         /\ \A d \in 1..Len(disputes) : disputes[d] \in DisputeRow
         /\ \A i \in 1..Len(intents) : intents[i] \in IntentRow
BY LenProperties, ElementOfSeq DEF TypeOK

LEMMA ArriveKeeps ==
  ASSUME IInv, NEW h \in Handlers, Arrive(h)
  PROVE  IInv' /\ Grows
<1>1. UNCHANGED <<tables, stripe>> /\ HistoryOK' /\ faults' \in Nat /\ crashes' \in Nat
  <2>1. UNCHANGED <<tables, stripe, faults, crashes>> /\ \E r : Arrives(h, r)
    BY DEF Arrive, ViewRecord, CreditPurchase, AccumulateCredits, StripePurchaseIntent,
           CloseDispute, Deliver, environment
  <2> QED
    BY <2>1, HistoryKept DEF IInv, TypeOK
<1>2. ASSUME NEW s \in Students, ViewRecord(h, s) PROVE IInv' /\ Grows
  <2> DEFINE r == [Idle EXCEPT !.op = "view", !.pc = "find", !.user = s]
  <2>1. r \in Request /\ r.pc = "find"
    BY IdleOK DEF Request, Ops, PCs
  <2>2. RequestOK(r)
    BY <2>1 DEF RequestOK, Idle, StudentPCs
  <2>3. Set(h, r)
    BY <1>2 DEF ViewRecord, Arrives
  <2> HIDE DEF r
  <2> QED
    BY <2>1, <2>2, <2>3, <1>1, LocalStep
<1>3. ASSUME NEW s \in Students, NEW t \in Tutors, CreditPurchase(h, s, t) PROVE IInv' /\ Grows
  <2> DEFINE r == [Idle EXCEPT !.op = "credit", !.pc = "find", !.user = s, !.tutor = t]
  <2>1. r \in Request /\ r.pc = "find"
    BY IdleOK DEF Request, Ops, PCs
  <2>2. RequestOK(r)
    BY <2>1 DEF RequestOK, Idle, StudentPCs
  <2>3. Set(h, r)
    BY <1>3 DEF CreditPurchase, Arrives
  <2> HIDE DEF r
  <2> QED
    BY <2>1, <2>2, <2>3, <1>1, LocalStep
<1>4. ASSUME NEW s \in Students, NEW n \in Accumulators, AccumulateCredits(h, s, n) PROVE IInv' /\ Grows
  <2> DEFINE r == [Idle EXCEPT !.op = "adjust", !.pc = "find", !.user = s, !.delta = n]
  <2>1. r \in Request /\ r.pc = "find"
    BY WalletAssumption, IdleOK DEF Request, Ops, PCs
  <2>2. RequestOK(r)
    BY <2>1 DEF RequestOK, Idle, StudentPCs
  <2>3. Set(h, r)
    BY <1>4 DEF AccumulateCredits, Arrives
  <2> HIDE DEF r
  <2> QED
    BY <2>1, <2>2, <2>3, <1>1, LocalStep
<1>5. ASSUME NEW s \in Students, NEW t \in Tutors, StripePurchaseIntent(h, s, t) PROVE IInv' /\ Grows
  <2> DEFINE r == [Idle EXCEPT !.op = "intent", !.pc = "find", !.user = s, !.tutor = t]
  <2>1. r \in Request /\ r.pc = "find"
    BY IdleOK DEF Request, Ops, PCs
  <2>2. RequestOK(r)
    BY <2>1 DEF RequestOK, Idle, StudentPCs
  <2>3. Set(h, r)
    BY <1>5 DEF StripePurchaseIntent, Arrives
  <2> HIDE DEF r
  <2> QED
    BY <2>1, <2>2, <2>3, <1>1, LocalStep
<1>6. ASSUME NEW d \in DOMAIN disputes, NEW a \in BOOLEAN, CloseDispute(h, d, a)
      PROVE  IInv' /\ Grows
  <2> DEFINE s == purchases[disputes[d].purchase].user
             pc == IF a THEN "find" ELSE "close"
             n == IF a THEN 1 ELSE 0
             r == [Idle EXCEPT !.op = "close", !.pc = pc, !.user = s, !.id = d,
                               !.delta = n]
  <2>1. d \in Nat /\ s \in Students
    BY Tables DEF IInv, DisputesRefer, PurchaseRow
  <2>2. n \in Int /\ pc \in {"find", "close"}
    OBVIOUS
  <2>3. Set(h, r)
    BY <1>6 DEF CloseDispute, Arrives
  <2> HIDE DEF s, pc, n
  <2>4. r \in Request
    BY <2>1, <2>2, IdleOK DEF Request, Ops, PCs
  <2>5. RequestOK(r)
    BY <2>1, <2>2 DEF RequestOK, Idle, StudentPCs
  <2> HIDE DEF r
  <2> QED
    BY <2>3, <2>4, <2>5, <1>1, LocalStep
<1>7. ASSUME NEW i \in DOMAIN intents, Deliver(h, i) PROVE IInv' /\ Grows
  <2> DEFINE r == [Idle EXCEPT !.op = "webhook", !.pc = "lookup", !.id = i,
                               !.user = intents[i].student]
  <2>1. i \in Nat /\ i \in 1..Len(intents) /\ intents[i].paid
        /\ intents[i].student \in Students \cup {Nobody}
    BY <1>7, Tables DEF IInv, IntentRow, Deliver
  <2>2. r \in Request
    BY <2>1, IdleOK DEF Request, Ops, PCs
  <2>3. RequestOK(r)
    BY <2>1 DEF RequestOK, Idle, StudentPCs
  <2>4. Set(h, r)
    BY <1>7 DEF Deliver, Arrives
  <2> HIDE DEF r
  <2> QED
    BY <2>2, <2>3, <2>4, <1>1, LocalStep
<1> QED
  BY <1>2, <1>3, <1>4, <1>5, <1>6, <1>7 DEF Arrive

-----------------------------------------------------------------------------
(* Steps of a request that only read, and failures                         *)

\* A request at work is in order, and a change of its pc keeps its shape.
LEMMA AtWork ==
  ASSUME IInv, NEW h \in Handlers
  PROVE  handler[h] \in Request /\ RequestOK(handler[h])
BY DEF IInv, TypeOK

LEMMA FindRecordKeeps ==
  ASSUME IInv, NEW h \in Handlers, FindRecord(h)
  PROVE  IInv' /\ Grows
<1> DEFINE s == handler[h].user
           row == payment[s]
<1>1. /\ UNCHANGED <<tables, stripe>> /\ HistoryOK' /\ faults' \in Nat /\ crashes' \in Nat
      /\ s \in Students /\ handler[h].op # "webhook"
  BY AtWork, HistoryKept DEF FindRecord, environment, IInv, TypeOK, At, RequestOK, StudentPCs
<1>2. CASE row # NoRecord
  <2> DEFINE r == [handler[h] EXCEPT !.pc = AfterRecord(handler[h].op),
                                     !.credits = row.credits, !.customer = row.customer]
  <2>1. Set(h, r)
    BY <1>2 DEF FindRecord, Resume
  <2>2. row \in PaymentRow /\ IsCustomerOf(row.customer, s)
    BY <1>1, <1>2 DEF IInv, TypeOK, WalletsOwned
  <2>3. AfterRecord(handler[h].op) \in {"idle", "gate", "intent", "write"}
    BY DEF AfterRecord
  <2>4. r \in Request
    BY <2>2, <2>3, AtWork DEF Request, PCs, PaymentRow
  <2>5. /\ r.pc \in {"idle", "gate", "intent", "write"} /\ r.user = s
        /\ r.customer = row.customer /\ r.op = handler[h].op
    BY <2>3, AtWork DEF Request
  <2> HIDE DEF r, s, row
  <2>6. r.pc # "idle" => RequestOK(r)
    BY <1>1, <1>2, <2>2, <2>5 DEF RequestOK, StudentPCs, s, row
  <2> QED
    BY <2>1, <2>4, <2>6, <1>1, LocalStep
<1>3. CASE row = NoRecord
  <2> DEFINE r == [handler[h] EXCEPT !.pc = "customer"]
  <2>1. Set(h, r)
    BY <1>3 DEF FindRecord, Goto
  <2>2. r \in Request /\ r.pc = "customer" /\ r.user = s /\ r.op = handler[h].op
    BY AtWork DEF Request, PCs
  <2> HIDE DEF r
  <2>3. RequestOK(r)
    BY <1>1, <2>2 DEF RequestOK, StudentPCs
  <2> QED
    BY <2>1, <2>2, <2>3, <1>1, LocalStep
<1> QED
  BY <1>2, <1>3

LEMMA GateKeeps ==
  ASSUME IInv, NEW h \in Handlers, Gate(h)
  PROVE  IInv' /\ Grows
<1>1. /\ UNCHANGED <<tables, stripe>> /\ HistoryOK' /\ faults' \in Nat /\ crashes' \in Nat
      /\ handler[h].user \in Students
  BY AtWork, HistoryKept DEF Gate, environment, IInv, TypeOK, At, RequestOK, StudentPCs
<1>2. CASE Reply(h)
  BY <1>1, <1>2, IdleOK, LocalStep DEF Reply
<1>3. CASE ~Reply(h)
  <2> DEFINE r == [handler[h] EXCEPT !.op = "debit", !.pc = "find", !.delta = -1]
  <2>1. Set(h, r)
    BY <1>3 DEF Gate
  <2> -1 \in Int
    OBVIOUS
  <2>2. /\ r \in Request /\ r.pc = "find" /\ r.op = "debit"
        /\ r.user = handler[h].user
    BY AtWork DEF Request, PCs, Ops
  <2> HIDE DEF r
  <2>3. RequestOK(r)
    BY <1>1, <2>2 DEF RequestOK, StudentPCs
  <2> QED
    BY <2>1, <2>2, <2>3, <1>1, LocalStep
<1> QED
  BY <1>2, <1>3

LEMMA LookupKeeps ==
  ASSUME IInv, NEW h \in Handlers, LookupCustomer(h)
  PROVE  IInv' /\ Grows
<1> DEFINE i == handler[h].id
<1>1. /\ UNCHANGED <<tables, stripe>> /\ HistoryOK' /\ faults' \in Nat /\ crashes' \in Nat
      /\ handler[h].op = "webhook" /\ i \in 1..Len(intents) /\ intents[i].paid
  BY AtWork, HistoryKept DEF LookupCustomer, environment, IInv, TypeOK, At, RequestOK
<1>2. ASSUME NEW s \in Students, payment[s] # NoRecord,
             payment[s].customer = intents[i].customer,
             Set(h, [handler[h] EXCEPT !.pc = "sale", !.user = s,
                                       !.tutor = intents[i].tutor])
      PROVE  IInv' /\ Grows
  <2> DEFINE r == [handler[h] EXCEPT !.pc = "sale", !.user = s, !.tutor = intents[i].tutor]
  <2>1. intents[i] \in IntentRow /\ Len(intents) \in Nat
    BY <1>1, Tables DEF IInv
  <2>2. r \in Request
    BY <2>1, AtWork DEF Request, PCs, IntentRow
  <2>3. r.pc = "sale" /\ r.user = s /\ r.tutor = intents[i].tutor /\ r.id = i
        /\ r.op = "webhook"
    BY <1>1, AtWork DEF Request
  <2>4. payment[s].customer # NoCustomer
    BY <1>2 DEF IInv, TypeOK, PaymentRow, NoCustomer
  <2>5. s = intents[i].student
    BY <1>1, <1>2, <2>4 DEF IInv, WalletsOwned, IntentsOwned, IsCustomerOf
  <2> HIDE DEF r
  <2>6. RequestOK(r)
    BY <1>1, <2>3, <2>5 DEF RequestOK, StudentPCs
  <2> QED
    BY <1>2, <2>2, <2>6, <1>1, LocalStep DEF r
<1>3. CASE Goto(h, "ack")
  <2> DEFINE r == [handler[h] EXCEPT !.pc = "ack"]
  <2>1. r \in Request /\ r.pc = "ack" /\ r.op = "webhook" /\ r.id = i
    BY <1>1, AtWork DEF Request, PCs
  <2> HIDE DEF r
  <2>2. RequestOK(r)
    BY <1>1, <2>1 DEF RequestOK, StudentPCs
  <2> QED
    BY <1>3, <2>1, <2>2, <1>1, LocalStep DEF Goto, r
<1> QED
  BY <1>2, <1>3 DEF LookupCustomer

LEMMA CallFailsKeeps ==
  ASSUME IInv, NEW h \in Handlers, CallFails(h)
  PROVE  IInv' /\ Grows
<1>1. UNCHANGED <<tables, stripe>> /\ HistoryOK' /\ faults' \in Nat /\ crashes' \in Nat
  BY HistoryKept DEF CallFails, IInv, TypeOK
<1>2. CASE Reply(h)
  BY <1>1, <1>2, IdleOK, LocalStep DEF Reply
<1>3. CASE At(h, "find") /\ Goto(h, "customer")
  <2> DEFINE r == [handler[h] EXCEPT !.pc = "customer"]
  <2>1. /\ r \in Request /\ r.pc = "customer" /\ r.user = handler[h].user
        /\ r.op = handler[h].op
    BY AtWork DEF Request, PCs
  <2>2. handler[h].user \in Students /\ handler[h].op # "webhook"
    BY <1>3, AtWork DEF RequestOK, At, StudentPCs
  <2> HIDE DEF r
  <2>3. RequestOK(r)
    BY <2>1, <2>2 DEF RequestOK, StudentPCs
  <2> QED
    BY <1>3, <2>1, <2>3, <1>1, LocalStep DEF Goto, r
<1>4. CASE handler[h].op = "webhook" /\ Goto(h, "ack")
  <2> DEFINE r == [handler[h] EXCEPT !.pc = "ack"]
  <2>1. /\ r \in Request /\ r.pc = "ack" /\ r.op = "webhook"
        /\ r.id = handler[h].id
    BY <1>4, AtWork DEF Request, PCs
  <2>2. handler[h].id \in 1..Len(intents) /\ intents[handler[h].id].paid
    BY <1>4, AtWork DEF RequestOK
  <2> HIDE DEF r
  <2>3. RequestOK(r)
    BY <2>1, <2>2 DEF RequestOK, StudentPCs
  <2> QED
    BY <1>4, <2>1, <2>3, <1>1, LocalStep DEF Goto, r
<1> QED
  BY <1>2, <1>3, <1>4 DEF CallFails

-----------------------------------------------------------------------------
(* Steps of a request that change the database or Stripe                   *)

LEMMA CreateCustomerKeeps ==
  ASSUME IInv, NEW h \in Handlers, CreateCustomer(h)
  PROVE  IInv' /\ Grows
<1> DEFINE s == handler[h].user
           c == Len(customers) + 1
           next == [handler[h] EXCEPT !.pc = "insert", !.customer = c]
<1>1. s \in Students /\ handler[h].op # "webhook"
  BY AtWork DEF CreateCustomer, At, RequestOK, StudentPCs
<1>2. /\ customers' = Append(customers, s) /\ Set(h, next)
      /\ UNCHANGED <<payment, purchases, disputes, intents, granted, stale, torn, faults, crashes>>
  BY DEF CreateCustomer, tables, history, environment
<1>3. /\ customers' \in Seq(Students) /\ Len(customers') = c /\ c \in Nat \ {0}
      /\ customers'[c] = s
      /\ \A k \in 1..Len(customers) : k \in 1..Len(customers') /\ customers'[k] = customers[k]
  BY <1>1, <1>2, AppendProperties, Tables DEF IInv, TypeOK
<1>4. Grows
  BY <1>2, <1>3 DEF Grows
<1>5. /\ next \in Request /\ next.pc = "insert" /\ next.user = s /\ next.customer = c
      /\ next.op = handler[h].op
  BY <1>3, AtWork DEF Request, PCs
<1> HIDE DEF next, s, c
<1> PICK r \in Request : r = next
  BY <1>5
<1>6. RequestOK(r)'
  BY <1>1, <1>3, <1>5 DEF RequestOK, StudentPCs, IsCustomerOf
<1>7. TypeOK' /\ (\A g \in Handlers : RequestOK(handler[g]))'
  BY <1>2, <1>3, <1>4, <1>5, <1>6, SetKeeps DEF IInv, TypeOK
<1>8. (WalletsOwned /\ IntentsOwned)'
  BY <1>2, <1>3 DEF IInv, WalletsOwned, IntentsOwned, IsCustomerOf
<1>9. (DisputesRefer /\ StripeSaleIsPaid)'
  BY <1>2 DEF IInv, DisputesRefer, StripeSaleIsPaid
<1> QED
  BY <1>4, <1>7, <1>8, <1>9 DEF IInv

LEMMA InsertRecordKeeps ==
  ASSUME IInv, NEW h \in Handlers, InsertRecord(h)
  PROVE  IInv' /\ Grows
<1> DEFINE s == handler[h].user
           row == [customer |-> handler[h].customer, credits |-> 0]
           next == [handler[h] EXCEPT !.pc = AfterRecord(handler[h].op),
                                      !.credits = row.credits, !.customer = row.customer]
<1>1. s \in Students /\ handler[h].op # "webhook" /\ IsCustomerOf(handler[h].customer, s)
  BY AtWork DEF InsertRecord, At, RequestOK, StudentPCs
<1>2. UNCHANGED <<customers, intents, purchases, disputes, granted, stale, torn, faults, crashes>>
  BY DEF InsertRecord, stripe, history, environment
<1>3. CASE payment[s] # NoRecord
  <2>1. UNCHANGED <<tables, stripe, history, faults, crashes>> /\ Set(h, Idle)
    BY <1>2, <1>3 DEF InsertRecord, Reply, tables, stripe, history
  <2> QED
    BY <2>1, IdleOK, LocalStep, HistoryKept DEF IInv, TypeOK
<1>4. CASE payment[s] = NoRecord
  <2>1. payment' = [payment EXCEPT ![s] = row] /\ Set(h, next)
    BY <1>4 DEF InsertRecord, Resume
  <2>2. row \in PaymentRow /\ row # NoRecord /\ handler[h].customer \in Nat \ {0}
    BY <1>1, WalletAssumption, Tables DEF IsCustomerOf, PaymentRow, IInv
  <2>3. payment' \in [Students -> PaymentRow \cup {NoRecord}]
    BY <2>1, <2>2 DEF IInv, TypeOK
  <2>4. Grows
    BY <1>2, <1>4, <2>1 DEF Grows, IInv, TypeOK
  <2>5. AfterRecord(handler[h].op) \in {"idle", "gate", "intent", "write"}
    BY DEF AfterRecord
  <2>6. next \in Request
    BY <2>2, <2>5, AtWork DEF Request, PCs
  <2>7. /\ next.pc \in {"idle", "gate", "intent", "write"} /\ next.user = s
        /\ next.customer = handler[h].customer /\ next.op = handler[h].op
    BY <2>5, AtWork DEF Request
  <2>8. payment'[s] = row
    BY <1>1, <2>1 DEF IInv, TypeOK
  <2>9. row.customer = handler[h].customer
    OBVIOUS
  <2> HIDE DEF next, s, row
  <2> PICK r \in Request : r = next
    BY <2>6
  <2>10. r.pc # "idle" => RequestOK(r)'
    BY <1>1, <1>2, <2>2, <2>7, <2>8 DEF RequestOK, StudentPCs, IsCustomerOf
  <2>11. TypeOK' /\ (\A g \in Handlers : RequestOK(handler[g]))'
    BY <1>2, <2>1, <2>3, <2>4, <2>6, <2>10, SetKeeps DEF IInv, TypeOK
  <2>12. WalletsOwned'
    BY <1>1, <1>2, <2>1, <2>8, <2>9 DEF IInv, TypeOK, WalletsOwned, IsCustomerOf
  <2>13. (IntentsOwned /\ DisputesRefer /\ StripeSaleIsPaid)'
    BY <1>2 DEF IInv, IntentsOwned, DisputesRefer, StripeSaleIsPaid, IsCustomerOf
  <2> QED
    BY <2>4, <2>11, <2>12, <2>13 DEF IInv
<1> QED
  BY <1>3, <1>4

LEMMA WriteCreditsKeeps ==
  ASSUME IInv, NEW h \in Handlers, WriteCredits(h)
  PROVE  IInv' /\ Grows
<1> DEFINE s == handler[h].user
           n == NonNegative(handler[h].credits + handler[h].delta)
           pc == AfterWrite(handler[h].op)
           next == [handler[h] EXCEPT !.pc = pc]
<1>1. s \in Students /\ handler[h].op # "webhook" /\ payment[s] \in PaymentRow
  BY AtWork DEF WriteCredits, At, RequestOK, StudentPCs, IInv, TypeOK
<1>2. /\ payment' = [payment EXCEPT ![s].credits = n] /\ Set(h, next)
      /\ UNCHANGED <<customers, intents, purchases, disputes, faults, crashes>>
  BY DEF WriteCredits, Goto, stripe, environment
<1>3. /\ granted' = [granted EXCEPT ![s] = @ + NonNegative(handler[h].delta)]
      /\ \E H : Outdate(H, "credits")
      /\ torn' \in {torn, torn \cup {s}}
  BY DEF WriteCredits
<1>4. n \in Nat /\ NonNegative(handler[h].delta) \in Nat
  BY AtWork DEF NonNegative, Request
<1>5. HistoryOK'
  BY <1>1, <1>3, <1>4, OutdateKeeps DEF IInv, TypeOK, HistoryOK
<1>6. pc \in {"idle", "grant", "close"}
  BY DEF AfterWrite
<1>7. next \in Request /\ next.pc = pc /\ next.user = s /\ next.op = handler[h].op
  BY <1>6, AtWork DEF Request, PCs
<1> HIDE DEF n, pc, next, s
<1> PICK r \in Request : r = next
  BY <1>7
<1>8. /\ payment' \in [Students -> PaymentRow \cup {NoRecord}]
      /\ \A u \in Students : payment[u] # NoRecord =>
           payment'[u] # NoRecord /\ payment'[u].customer = payment[u].customer
      /\ \A u \in Students : payment'[u] # NoRecord => payment[u] # NoRecord
  BY <1>1, <1>2, <1>4, WalletAssumption DEF IInv, TypeOK, PaymentRow
<1>9. Grows
  BY <1>2, <1>8 DEF Grows
<1>10. r.pc # "idle" => RequestOK(r)'
  BY <1>1, <1>6, <1>7 DEF RequestOK, StudentPCs
<1>11. TypeOK' /\ (\A g \in Handlers : RequestOK(handler[g]))'
  BY <1>2, <1>5, <1>7, <1>8, <1>9, <1>10, SetKeeps DEF IInv, TypeOK, HistoryOK
<1>12. WalletsOwned'
  BY <1>2, <1>8 DEF IInv, WalletsOwned, IsCustomerOf
<1>13. (IntentsOwned /\ DisputesRefer /\ StripeSaleIsPaid)'
  BY <1>2 DEF IInv, IntentsOwned, DisputesRefer, StripeSaleIsPaid, IsCustomerOf
<1> QED
  BY <1>9, <1>11, <1>12, <1>13 DEF IInv

\* A new purchase row: disputes keep their rows, and it is paid for.
LEMMA SaleKeeps ==
  ASSUME IInv, NEW row \in PurchaseRow, UNCHANGED <<disputes, intents>>,
         purchases' = Append(purchases, row),
         row.method = "Stripe" =>
           \E j \in 1..Len(intents) : /\ intents[j].paid
                                     /\ intents[j].student = row.user
                                     /\ intents[j].tutor = row.tutor
  PROVE  purchases' \in Seq(PurchaseRow) /\ (DisputesRefer /\ StripeSaleIsPaid)'
<1>1. /\ purchases' \in Seq(PurchaseRow) /\ Len(purchases') = Len(purchases) + 1
      /\ \A i \in 1..Len(purchases) : purchases'[i] = purchases[i]
      /\ purchases'[Len(purchases) + 1] = row
      /\ Len(purchases) \in Nat
  BY AppendProperties, Tables DEF IInv, TypeOK
<1>2. DOMAIN purchases' = 1..(Len(purchases) + 1)
  BY <1>1, LenProperties
<1>3. DisputesRefer'
  BY <1>1 DEF IInv, DisputesRefer
<1>4. DOMAIN purchases = 1..Len(purchases) /\ DOMAIN intents = 1..Len(intents)
  BY Tables DEF IInv
<1>5. ASSUME NEW i \in DOMAIN purchases', purchases'[i].method = "Stripe"
      PROVE  \E j \in DOMAIN intents : /\ intents[j].paid
                                       /\ intents[j].student = purchases'[i].user
                                       /\ intents[j].tutor = purchases'[i].tutor
  <2>1. CASE i \in 1..Len(purchases)
    BY <2>1, <1>1, <1>4, <1>5 DEF IInv, StripeSaleIsPaid
  <2>2. CASE i = Len(purchases) + 1
    BY <2>2, <1>1, <1>4, <1>5
  <2> QED
    BY <2>1, <2>2, <1>1, <1>2
<1>6. StripeSaleIsPaid'
  BY <1>5 DEF StripeSaleIsPaid
<1> QED
  BY <1>1, <1>3, <1>6

\* A request ends: its slot is idle again.
LEMMA ReplyKeeps ==
  ASSUME IInv, Grows, NEW h \in Handlers, Reply(h)
  PROVE  handler' \in [Handlers -> Request] /\ (\A g \in Handlers : RequestOK(handler[g]))'
<1>1. Idle \in Request /\ Set(h, Idle) /\ Idle.pc = "idle"
  BY IdleOK DEF Reply, Idle
<1> QED
  BY <1>1, SetKeeps

LEMMA InsertKeeps ==
  ASSUME IInv, NEW h \in Handlers, NEW method, InsertPurchase(h, method)
  PROVE  stale' \in [Handlers -> SUBSET {"credits", "purchases"}]
BY OutdateKeeps DEF InsertPurchase, IInv, TypeOK

LEMMA GrantPurchaseKeeps ==
  ASSUME IInv, NEW h \in Handlers, GrantPurchase(h)
  PROVE  IInv' /\ Grows
<1> DEFINE row == [user |-> handler[h].user, tutor |-> handler[h].tutor,
                   method |-> "Credit", status |-> "Active"]
<1>1. handler[h].user \in Students /\ Reply(h)
  BY AtWork DEF GrantPurchase, At, RequestOK, StudentPCs
<1>2. /\ UNCHANGED <<payment, customers, intents, disputes, granted, torn, faults, crashes>>
      /\ stale' \in [Handlers -> SUBSET {"credits", "purchases"}]
  BY InsertKeeps DEF GrantPurchase, stripe, environment
<1>3. Grows
  BY <1>2 DEF Grows, IInv, TypeOK
<1>4. purchases' \in Seq(PurchaseRow) /\ (DisputesRefer /\ StripeSaleIsPaid)'
  <2>1. CASE handler[h].tutor \in KnownTutors
    <3>1. row \in PurchaseRow /\ row.method # "Stripe" /\ purchases' = Append(purchases, row)
      BY <1>1, <2>1 DEF PurchaseRow, GrantPurchase, InsertPurchase
    <3> HIDE DEF row
    <3> QED
      BY <1>2, <3>1, SaleKeeps
  <2>2. CASE handler[h].tutor \notin KnownTutors
    BY <2>2, <1>2 DEF GrantPurchase, InsertPurchase, IInv, TypeOK, DisputesRefer, StripeSaleIsPaid
  <2> QED
    BY <2>1, <2>2
<1>5. (WalletsOwned /\ IntentsOwned)'
  BY <1>2 DEF IInv, WalletsOwned, IntentsOwned, IsCustomerOf
<1> QED
  BY <1>1, <1>2, <1>3, <1>4, <1>5, ReplyKeeps DEF IInv, TypeOK

LEMMA RecordSaleKeeps ==
  ASSUME IInv, NEW h \in Handlers, RecordSale(h)
  PROVE  IInv' /\ Grows
<1> DEFINE row == [user |-> handler[h].user, tutor |-> handler[h].tutor,
                   method |-> "Stripe", status |-> "Active"]
           next == [handler[h] EXCEPT !.pc = "ack"]
           i == handler[h].id
<1>1. /\ handler[h].user \in Students /\ Set(h, next) /\ handler[h].op = "webhook"
      /\ i \in 1..Len(intents) /\ intents[i].paid
      /\ handler[h].user = intents[i].student /\ handler[h].tutor = intents[i].tutor
  BY AtWork DEF RecordSale, At, Goto, RequestOK, StudentPCs
<1>2. /\ UNCHANGED <<payment, customers, intents, disputes, granted, torn, faults, crashes>>
      /\ stale' \in [Handlers -> SUBSET {"credits", "purchases"}]
  BY InsertKeeps DEF RecordSale, stripe, environment
<1>3. Grows
  BY <1>2 DEF Grows, IInv, TypeOK
<1>4. purchases' \in Seq(PurchaseRow) /\ (DisputesRefer /\ StripeSaleIsPaid)'
  <2>1. CASE handler[h].tutor \in KnownTutors
    <3>1. /\ row \in PurchaseRow /\ purchases' = Append(purchases, row)
          /\ row.user = intents[i].student /\ row.tutor = intents[i].tutor
      BY <1>1, <2>1 DEF PurchaseRow, RecordSale, InsertPurchase
    <3> HIDE DEF row
    <3> QED
      BY <1>1, <1>2, <3>1, SaleKeeps
  <2>2. CASE handler[h].tutor \notin KnownTutors
    BY <2>2, <1>2 DEF RecordSale, InsertPurchase, IInv, TypeOK, DisputesRefer, StripeSaleIsPaid
  <2> QED
    BY <2>1, <2>2
<1>5. (WalletsOwned /\ IntentsOwned)'
  BY <1>2 DEF IInv, WalletsOwned, IntentsOwned, IsCustomerOf
<1>6. next \in Request /\ next.pc = "ack" /\ next.op = "webhook" /\ next.id = i
  BY <1>1, AtWork DEF Request, PCs
<1> HIDE DEF next, i
<1> PICK r \in Request : r = next
  BY <1>6
<1>7. RequestOK(r)'
  BY <1>1, <1>2, <1>6 DEF RequestOK, StudentPCs
<1>8. TypeOK' /\ (\A g \in Handlers : RequestOK(handler[g]))'
  BY <1>1, <1>2, <1>3, <1>4, <1>7, SetKeeps DEF IInv, TypeOK
<1> QED
  BY <1>3, <1>4, <1>5, <1>8 DEF IInv

LEMMA MarkClosedKeeps ==
  ASSUME IInv, NEW h \in Handlers, MarkClosed(h)
  PROVE  IInv' /\ Grows
<1> DEFINE d == handler[h].id
<1>1. /\ disputes' = [disputes EXCEPT ![d].status = "Closed"] /\ Reply(h)
      /\ UNCHANGED <<payment, purchases, customers, intents, granted, stale, torn, faults, crashes>>
  BY DEF MarkClosed, stripe, history, environment
<1>2. Grows
  BY <1>1 DEF Grows, IInv, TypeOK
<1>3. disputes' \in Seq(DisputeRow) /\ DisputesRefer'
  <2>1. CASE d \in 1..Len(disputes)
    <3>1. disputes[d] \in DisputeRow
      BY <2>1, Tables DEF IInv
    <3> PICK row \in DisputeRow : row = [disputes[d] EXCEPT !.status = "Closed"]
      BY <3>1 DEF DisputeRow
    <3>2. disputes' = [disputes EXCEPT ![d] = row] /\ row.purchase = disputes[d].purchase
      BY <1>1, <3>1 DEF DisputeRow
    <3> HIDE DEF d
    <3>3. /\ disputes' \in Seq(DisputeRow) /\ Len(disputes') = Len(disputes)
          /\ \A k \in 1..Len(disputes) : disputes'[k] = IF k = d THEN row ELSE disputes[k]
      BY <2>1, <3>2, ExceptSeq DEF IInv, TypeOK
    <3> QED
      BY <1>1, <3>2, <3>3 DEF IInv, DisputesRefer
  <2>2. CASE d \notin 1..Len(disputes)
    <3>1. disputes' = disputes
      BY <1>1, <2>2, Tables DEF IInv, TypeOK
    <3> QED
      BY <1>1, <3>1 DEF IInv, TypeOK, DisputesRefer
  <2> QED
    BY <2>1, <2>2
<1>4. (WalletsOwned /\ IntentsOwned /\ StripeSaleIsPaid)'
  BY <1>1 DEF IInv, WalletsOwned, IntentsOwned, IsCustomerOf, StripeSaleIsPaid
<1> QED
  BY <1>1, <1>2, <1>3, <1>4, ReplyKeeps DEF IInv, TypeOK

-----------------------------------------------------------------------------
(* Stripe's payment intents                                                *)

\* Intents change only by growing or by being paid or acknowledged; a sale
\* that was paid for stays paid for.
LEMMA IntentsKeep ==
  ASSUME IInv, UNCHANGED <<payment, purchases, disputes, customers>>,
         intents' \in Seq(IntentRow), Grows,
         \A i \in 1..Len(intents') :
           i \notin 1..Len(intents) /\ intents'[i].customer # NoCustomer =>
             IsCustomerOf(intents'[i].customer, intents'[i].student)
  PROVE  (WalletsOwned /\ IntentsOwned /\ DisputesRefer /\ StripeSaleIsPaid)'
<1>1. (WalletsOwned /\ DisputesRefer)'
  BY DEF IInv, WalletsOwned, DisputesRefer, IsCustomerOf
<1>2. ASSUME NEW i \in 1..Len(intents'), intents'[i].customer # NoCustomer
      PROVE  IsCustomerOf(intents'[i].customer, intents'[i].student)
  <2>1. CASE i \in 1..Len(intents)
    BY <2>1, <1>2 DEF IInv, IntentsOwned, Grows
  <2> QED
    BY <2>1, <1>2
<1>3. IntentsOwned'
  BY <1>2 DEF IntentsOwned, IsCustomerOf
<1>4. DOMAIN intents = 1..Len(intents) /\ DOMAIN intents' = 1..Len(intents')
  BY Tables, LenProperties DEF IInv
<1>5. StripeSaleIsPaid'
  BY <1>4 DEF IInv, StripeSaleIsPaid, Grows
<1> QED
  BY <1>1, <1>3, <1>5

LEMMA NewIntent ==
  ASSUME IInv, NEW row \in IntentRow, intents' = Append(intents, row),
         UNCHANGED <<payment, purchases, disputes, customers>>,
         row.customer # NoCustomer => IsCustomerOf(row.customer, row.student)
  PROVE  /\ intents' \in Seq(IntentRow) /\ Grows
         /\ (WalletsOwned /\ IntentsOwned /\ DisputesRefer /\ StripeSaleIsPaid)'
<1>1. /\ intents' \in Seq(IntentRow) /\ Len(intents') = Len(intents) + 1
      /\ \A i \in 1..Len(intents) : intents'[i] = intents[i]
      /\ intents'[Len(intents) + 1] = row
      /\ Len(intents) \in Nat
  BY AppendProperties, Tables DEF IInv, TypeOK
<1>2. Grows
  BY <1>1 DEF Grows, IInv, TypeOK
<1>3. \A i \in 1..Len(intents') : i \notin 1..Len(intents) => i = Len(intents) + 1
  BY <1>1
<1> QED
  BY <1>1, <1>2, <1>3, IntentsKeep

LEMMA IntentUpdated ==
  ASSUME IInv, NEW i \in 1..Len(intents), NEW row \in IntentRow,
         intents' = [intents EXCEPT ![i] = row],
         row.customer = intents[i].customer, row.student = intents[i].student,
         row.tutor = intents[i].tutor, intents[i].paid => row.paid,
         UNCHANGED <<payment, purchases, disputes, customers>>
  PROVE  /\ intents' \in Seq(IntentRow) /\ Grows
         /\ (WalletsOwned /\ IntentsOwned /\ DisputesRefer /\ StripeSaleIsPaid)'
<1>1. /\ intents' \in Seq(IntentRow) /\ Len(intents') = Len(intents)
      /\ \A k \in 1..Len(intents) : intents'[k] = IF k = i THEN row ELSE intents[k]
  BY ExceptSeq DEF IInv, TypeOK
<1>2. Grows
  BY <1>1 DEF Grows, IInv, TypeOK
<1> QED
  BY <1>1, <1>2, IntentsKeep

LEMMA CreateIntentKeeps ==
  ASSUME IInv, NEW h \in Handlers, CreateIntent(h)
  PROVE  IInv' /\ Grows
<1> DEFINE row == [customer |-> handler[h].customer, student |-> handler[h].user,
                   tutor |-> handler[h].tutor, paid |-> FALSE, acked |-> FALSE]
<1>1. IsCustomerOf(row.customer, row.student) /\ row \in IntentRow
  BY AtWork DEF CreateIntent, At, RequestOK, Request, IntentRow
<1>2. intents' = Append(intents, row) /\ Reply(h)
      /\ UNCHANGED <<payment, purchases, disputes, customers, granted, stale, torn, faults, crashes>>
  BY DEF CreateIntent, tables, history, environment
<1> HIDE DEF row
<1>3. /\ intents' \in Seq(IntentRow) /\ Grows
      /\ (WalletsOwned /\ IntentsOwned /\ DisputesRefer /\ StripeSaleIsPaid)'
  BY <1>1, <1>2, NewIntent
<1> QED
  BY <1>2, <1>3, ReplyKeeps DEF IInv, TypeOK

LEMMA AcknowledgeKeeps ==
  ASSUME IInv, NEW h \in Handlers, Acknowledge(h)
  PROVE  IInv' /\ Grows
<1> DEFINE i == handler[h].id
<1>1. i \in 1..Len(intents)
  BY AtWork DEF Acknowledge, At, RequestOK
<1>2. intents[i] \in IntentRow
  BY <1>1, Tables DEF IInv
<1> PICK row \in IntentRow : row = [intents[i] EXCEPT !.acked = TRUE]
  BY <1>2 DEF IntentRow
<1>3. /\ intents' = [intents EXCEPT ![i] = row] /\ Reply(h)
      /\ row.customer = intents[i].customer /\ row.student = intents[i].student
      /\ row.tutor = intents[i].tutor /\ row.paid = intents[i].paid
  BY <1>2 DEF Acknowledge, IntentRow
<1>4. UNCHANGED <<payment, purchases, disputes, customers, granted, stale, torn, faults, crashes>>
  BY DEF Acknowledge, tables, history, environment
<1> HIDE DEF i
<1>5. /\ intents' \in Seq(IntentRow) /\ Grows
      /\ (WalletsOwned /\ IntentsOwned /\ DisputesRefer /\ StripeSaleIsPaid)'
  BY <1>1, <1>3, <1>4, IntentUpdated
<1> QED
  BY <1>3, <1>4, <1>5, ReplyKeeps DEF IInv, TypeOK

\* A step that leaves the requests alone.
LEMMA OutsideKeeps ==
  ASSUME IInv, Grows, UNCHANGED handler
  PROVE  /\ handler' \in [Handlers -> Request]
         /\ (\A g \in Handlers : RequestOK(handler[g]))'
<1>1. ASSUME NEW g \in Handlers PROVE RequestOK(handler[g])'
  <2> PICK r \in Request : r = handler[g]
    BY AtWork
  <2>1. RequestOK(r)'
    BY AtWork, GrowsKeeps DEF IInv
  <2> QED
    BY <2>1 DEF RequestOK, IsCustomerOf
<1> QED
  BY <1>1 DEF IInv, TypeOK

LEMMA PayKeeps ==
  ASSUME IInv, NEW i \in DOMAIN intents, Pay(i)
  PROVE  IInv' /\ Grows
<1>1. i \in 1..Len(intents) /\ intents[i] \in IntentRow
  BY Tables DEF IInv
<1> PICK row \in IntentRow : row = [intents[i] EXCEPT !.paid = TRUE]
  BY <1>1 DEF IntentRow
<1>2. /\ intents' = [intents EXCEPT ![i] = row]
      /\ row.customer = intents[i].customer /\ row.student = intents[i].student
      /\ row.tutor = intents[i].tutor /\ row.paid
  BY <1>1 DEF Pay, IntentRow
<1>3. UNCHANGED <<payment, purchases, disputes, customers, handler, granted, stale, torn,
                  faults, crashes>>
  BY DEF Pay, tables, history, environment
<1>4. /\ intents' \in Seq(IntentRow) /\ Grows
      /\ (WalletsOwned /\ IntentsOwned /\ DisputesRefer /\ StripeSaleIsPaid)'
  BY <1>1, <1>2, <1>3, IntentUpdated
<1> QED
  BY <1>3, <1>4, OutsideKeeps DEF IInv, TypeOK

LEMMA ChargeSubscriptionKeeps ==
  ASSUME IInv, ChargeSubscription
  PROVE  IInv' /\ Grows
<1> PICK row \in IntentRow :
      row = [customer |-> NoCustomer, student |-> Nobody, tutor |-> Nobody,
             paid |-> TRUE, acked |-> FALSE]
  BY DEF IntentRow, NoCustomer
<1>1. intents' = Append(intents, row) /\ row.customer = NoCustomer
  BY DEF ChargeSubscription
<1>2. UNCHANGED <<payment, purchases, disputes, customers, handler, granted, stale, torn,
                  faults, crashes>>
  BY DEF ChargeSubscription, tables, history, environment
<1>3. /\ intents' \in Seq(IntentRow) /\ Grows
      /\ (WalletsOwned /\ IntentsOwned /\ DisputesRefer /\ StripeSaleIsPaid)'
  BY <1>1, <1>2, NewIntent
<1> QED
  BY <1>2, <1>3, OutsideKeeps DEF IInv, TypeOK

-----------------------------------------------------------------------------
(* Single statements and the crash                                         *)

LEMMA FileDisputeKeeps ==
  ASSUME IInv, NEW p \in DOMAIN purchases, FileDispute(p)
  PROVE  IInv' /\ Grows
<1>1. /\ p \in 1..Len(purchases) /\ p \in Nat \ {0}
      /\ Len(purchases) \in Nat /\ Len(disputes) \in Nat
  BY Tables DEF IInv
<1> PICK row \in DisputeRow : row = [purchase |-> p, status |-> "Open"]
  BY <1>1 DEF DisputeRow
<1>2. disputes' = Append(disputes, row) /\ row.purchase = p
  BY DEF FileDispute
<1>3. UNCHANGED <<payment, purchases, customers, intents, handler, granted, stale, torn,
                  faults, crashes>>
  BY DEF FileDispute, stripe, history, environment
<1>4. /\ disputes' \in Seq(DisputeRow) /\ Len(disputes') = Len(disputes) + 1
      /\ \A d \in 1..Len(disputes) : disputes'[d] = disputes[d]
      /\ disputes'[Len(disputes) + 1] = row
  BY <1>2, AppendProperties DEF IInv, TypeOK
<1>5. DisputesRefer'
  BY <1>1, <1>2, <1>3, <1>4 DEF IInv, DisputesRefer
<1>6. Grows
  BY <1>3 DEF Grows, IInv, TypeOK
<1>7. (WalletsOwned /\ IntentsOwned /\ StripeSaleIsPaid)'
  BY <1>3 DEF IInv, WalletsOwned, IntentsOwned, IsCustomerOf, StripeSaleIsPaid
<1> QED
  BY <1>3, <1>4, <1>5, <1>6, <1>7, OutsideKeeps DEF IInv, TypeOK

LEMMA SetPurchaseStatusKeeps ==
  ASSUME IInv, NEW p \in DOMAIN purchases,
         NEW status \in {"Active", "Deleted", "Suspended"}, SetPurchaseStatus(p, status)
  PROVE  IInv' /\ Grows
<1>1. p \in 1..Len(purchases) /\ purchases[p] \in PurchaseRow
  BY Tables DEF IInv
<1> PICK row \in PurchaseRow : row = [purchases[p] EXCEPT !.status = status]
  BY <1>1 DEF PurchaseRow
<1>2. /\ purchases' = [purchases EXCEPT ![p] = row] /\ row.user = purchases[p].user
      /\ row.tutor = purchases[p].tutor /\ row.method = purchases[p].method
  BY <1>1 DEF SetPurchaseStatus, PurchaseRow
<1>3. /\ UNCHANGED <<payment, disputes, customers, intents, handler, granted, torn,
                     faults, crashes>>
      /\ stale' \in [Handlers -> SUBSET {"credits", "purchases"}]
  BY OutdateKeeps DEF SetPurchaseStatus, stripe, environment, IInv, TypeOK
<1>4. /\ purchases' \in Seq(PurchaseRow) /\ Len(purchases') = Len(purchases)
      /\ \A k \in 1..Len(purchases) : purchases'[k] = IF k = p THEN row ELSE purchases[k]
  BY <1>1, <1>2, ExceptSeq DEF IInv, TypeOK
<1>5. DOMAIN purchases' = 1..Len(purchases) /\ DOMAIN purchases = 1..Len(purchases)
  BY <1>4, Tables, LenProperties DEF IInv
<1>6. StripeSaleIsPaid'
  BY <1>2, <1>3, <1>4, <1>5 DEF IInv, StripeSaleIsPaid
<1>7. Grows
  BY <1>3 DEF Grows, IInv, TypeOK
<1>8. (WalletsOwned /\ IntentsOwned /\ DisputesRefer)'
  BY <1>3, <1>4 DEF IInv, WalletsOwned, IntentsOwned, IsCustomerOf, DisputesRefer
<1> QED
  BY <1>3, <1>4, <1>6, <1>7, <1>8, OutsideKeeps DEF IInv, TypeOK

LEMMA CrashKeeps ==
  ASSUME IInv, Crash
  PROVE  IInv' /\ Grows
<1>1. /\ UNCHANGED <<tables, stripe, history, faults>> /\ crashes' \in Nat
      /\ handler' = [h \in Handlers |-> Idle]
  BY DEF Crash, IInv, TypeOK
<1>2. Grows
  BY <1>1 DEF Grows, IInv, TypeOK, tables, stripe
<1>3. Idle \in Request /\ RequestOK(Idle)'
  BY <1>2, IdleOK, GrowsKeeps DEF IInv
<1>4. handler' \in [Handlers -> Request] /\ (\A g \in Handlers : RequestOK(handler[g]))'
  BY <1>1, <1>3 DEF RequestOK, IsCustomerOf
<1>5. (WalletsOwned /\ IntentsOwned /\ DisputesRefer /\ StripeSaleIsPaid)'
  BY <1>1 DEF IInv, WalletsOwned, IntentsOwned, IsCustomerOf, DisputesRefer,
              StripeSaleIsPaid, tables, stripe
<1> QED
  BY <1>1, <1>2, <1>4, <1>5 DEF IInv, TypeOK, tables, stripe, history

-----------------------------------------------------------------------------
(* The theorems                                                            *)

LEMMA NextKeeps == IInv /\ [Next]_vars => IInv' /\ (UNCHANGED vars \/ Grows)
<1> SUFFICES ASSUME IInv, [Next]_vars PROVE IInv' /\ (UNCHANGED vars \/ Grows)
  OBVIOUS
<1>1. CASE UNCHANGED vars
  <2>1. UNCHANGED <<payment, customers, purchases, disputes, intents, handler,
                    granted, stale, torn, faults, crashes>>
    BY <1>1 DEF vars, tables, stripe, history, environment
  <2>2. Grows
    BY <2>1 DEF Grows, IInv, TypeOK
  <2>3. (WalletsOwned /\ IntentsOwned /\ DisputesRefer /\ StripeSaleIsPaid)'
    BY <2>1 DEF IInv, WalletsOwned, IntentsOwned, IsCustomerOf, DisputesRefer,
                StripeSaleIsPaid
  <2> QED
    BY <1>1, <2>1, <2>2, <2>3, OutsideKeeps DEF IInv, TypeOK
<1>2. ASSUME NEW h \in Handlers, Arrive(h) PROVE IInv' /\ Grows
  BY <1>2, ArriveKeeps
<1>3. ASSUME NEW h \in Handlers, Step(h) PROVE IInv' /\ Grows
  BY <1>3, FindRecordKeeps, CreateCustomerKeeps, InsertRecordKeeps, GateKeeps,
     WriteCreditsKeeps, GrantPurchaseKeeps, MarkClosedKeeps, CreateIntentKeeps,
     LookupKeeps, RecordSaleKeeps, AcknowledgeKeeps DEF Step
<1>4. ASSUME NEW h \in Handlers, CallFails(h) PROVE IInv' /\ Grows
  BY <1>4, CallFailsKeeps
<1> QED
  BY <1>1, <1>2, <1>3, <1>4, FileDisputeKeeps, SetPurchaseStatusKeeps, PayKeeps,
     ChargeSubscriptionKeeps, CrashKeeps DEF Next

LEMMA InitIInv == Init => IInv
<1> SUFFICES ASSUME Init PROVE IInv
  OBVIOUS
<1>1. TypeOK
  BY IdleOK, EmptySeq DEF Init, TypeOK
<1>2. \A h \in Handlers : RequestOK(handler[h])
  BY IdleOK DEF Init
<1> QED
  BY <1>1, <1>2 DEF Init, IInv, WalletsOwned, IntentsOwned, DisputesRefer, StripeSaleIsPaid

LEMMA Invariance == Spec => []IInv
<1>1. IInv /\ [Next]_vars => IInv'
  BY NextKeeps
<1> QED
  BY <1>1, InitIInv, PTL DEF Spec

\* Rows, requests and Stripe objects keep their shape in every execution; in
\* particular no wallet ever holds a negative number of credits, whatever an
\* admin takes from it and however the updates race.
THEOREM TypeCorrect == Spec => []TypeOK
<1>1. IInv => TypeOK
  BY DEF IInv
<1> QED
  BY <1>1, Invariance, PTL

\* Every purchase the webhook records is of a paid intent of the student who
\* owns the purchase, for the tutor of that intent.
THEOREM StripeSalesArePaid == Spec => []StripeSaleIsPaid
<1>1. IInv => StripeSaleIsPaid
  BY DEF IInv
<1> QED
  BY <1>1, Invariance, PTL

\* A wallet is made once: no race of first requests and no failed read ever
\* replaces it or its Stripe customer.
THEOREM WalletsMadeOnce == Spec => WalletMadeOnce
<1> DEFINE Keeps == \A s \in Students : payment[s] # NoRecord =>
                      /\ payment'[s] # NoRecord
                      /\ payment'[s].customer = payment[s].customer
<1>1. IInv /\ [Next]_vars => [Keeps]_vars
  BY NextKeeps DEF Grows
<1> QED
  BY <1>1, Invariance, PTL DEF Spec, WalletMadeOnce

===============================================================================

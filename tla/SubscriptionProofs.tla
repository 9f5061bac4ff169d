--------------------------- MODULE SubscriptionProofs ---------------------------
(***************************************************************************)
(* Proofs about the subscriptions of tutors, for any numbers of tutors,    *)
(* requests, customers and subscriptions, whatever overlaps, fails, comes  *)
(* late or twice, or is lost in a restart.                                 *)
(***************************************************************************)
EXTENDS Subscription, SequenceTheorems, TLAPS

-----------------------------------------------------------------------------
(* The inductive invariant                                                 *)

Has(t) == record[t] # NoRecord

\* The record of a tutor names a customer, and a subscription, of that tutor.
RecordOK(t) ==
  Has(t) =>
    /\ record[t].customer \in DOMAIN customers /\ customers[record[t].customer] = t
    /\ record[t].sub # 0 => record[t].sub \in DOMAIN subs /\ Owner(record[t].sub) = t
    /\ record[t].active => record[t].sub \in paid

\* A subscription is of the customer that its owner's record names.
SubOK(s) ==
  /\ subs[s].customer \in DOMAIN customers
  /\ Has(Owner(s)) /\ record[Owner(s)].customer = subs[s].customer
  /\ subs[s].status = "active" => s \in paid

EventOK(e) == e.sub \in DOMAIN subs /\ (e.status = "active" => e.sub \in paid)

Calls == {"cancel", "instant", "reinstate"}
RequestOK(r) ==
  /\ r.pc # "idle" => r.tutor \in Tutors
  /\ r.pc = "insert" => r.customer \in DOMAIN customers /\ customers[r.customer] = r.tutor
  /\ r.pc \in {"subscribe", "write", "stripe"} => Has(r.tutor)
  /\ r.pc = "subscribe" => r.customer = record[r.tutor].customer
  /\ r.pc \in {"write", "stripe"} =>
       r.op \in Calls /\ (r.sub # 0 => r.sub \in DOMAIN subs /\ Owner(r.sub) = r.tutor)

RowsOK == (\A t \in Tutors : RecordOK(t)) /\ (\A s \in DOMAIN subs : SubOK(s))
EventsOK == \A i \in DOMAIN events : EventOK(events[i])
RequestsOK == \A h \in Handlers : RequestOK(request[h])

Inv == TypeOK /\ RowsOK /\ EventsOK /\ RequestsOK

LEMMA IdleTyped == Idle \in Request /\ Idle.pc = "idle"
BY DEF Idle, Request, Ops

\* What is made stays: customers, subscriptions with theirs, and records with theirs.
Grows ==
  /\ DOMAIN customers \subseteq DOMAIN customers'
  /\ \A c \in DOMAIN customers : customers'[c] = customers[c]
  /\ DOMAIN subs \subseteq DOMAIN subs'
  /\ \A s \in DOMAIN subs : subs'[s].customer = subs[s].customer
  /\ paid \subseteq paid'
  /\ \A t \in Tutors : Has(t) => Has(t)' /\ record'[t].customer = record[t].customer

LEMMA OwnersKept ==
  ASSUME RowsOK, Grows, NEW s \in DOMAIN subs
  PROVE  customers'[subs'[s].customer] = Owner(s)
BY DEF RowsOK, SubOK, Grows, Owner

LEMMA RequestsKept ==
  ASSUME Inv, Grows, NEW S \in SUBSET Handlers, \A g \in Handlers \ S : request'[g] = request[g],
         \A h \in S : RequestOK(request[h])'
  PROVE  RequestsOK'
<1> SUFFICES ASSUME NEW g \in Handlers
             PROVE  RequestOK(request[g])'
  BY DEF RequestsOK
<1>1. CASE g \in S
  BY <1>1
<1>2. CASE g \notin S
  <2>1. request'[g] = request[g] /\ RequestOK(request[g])
    BY <1>2 DEF Inv, RequestsOK
  <2>2. request[g].sub \in DOMAIN subs => customers'[subs'[request[g].sub].customer] = Owner(request[g].sub)
    BY OwnersKept DEF Inv
  <2>3. RequestOK(request[g])'
    BY <2>1, <2>2 DEF RequestOK, Grows, Has, Owner
  <2> QED
    BY <2>3
<1> QED
  BY <1>1, <1>2

\* An event that was on its way, or is of a subscription that is paid if it says so.
LEMMA EventsKept ==
  ASSUME Inv, Grows,
         \A i \in DOMAIN events' : \/ \E j \in DOMAIN events : events'[i] = events[j]
                                   \/ /\ events'[i].sub \in DOMAIN subs'
                                      /\ events'[i].status = "active" => events'[i].sub \in paid'
  PROVE  EventsOK'
BY DEF Inv, EventsOK, EventOK, Grows

LEMMA SetFields ==
  ASSUME TypeOK, NEW h \in Handlers, NEW r \in Request, Set(h, r)
  PROVE  /\ request' \in [Handlers -> Request] /\ request'[h] = r
         /\ \A g \in Handlers \ {h} : request'[g] = request[g]
BY DEF TypeOK, Set

\* A step of one request that touches no table.
LEMMA MoveKeeps ==
  ASSUME Inv, NEW h \in Handlers, NEW r \in Request, Set(h, r), RequestOK(r),
         strayed' \subseteq Tutors, UNCHANGED <<record, stripe, events>>,
         requests' \in 0..MaxRequests, changes' \in 0..MaxChanges, faults' \in 0..MaxFaults
  PROVE  Inv'
<1>1. /\ request' \in [Handlers -> Request] /\ request'[h] = r
      /\ \A g \in Handlers \ {h} : request'[g] = request[g]
      /\ UNCHANGED <<record, customers, subs, paid, events>>
  BY SetFields DEF Inv, stripe
<1>2. TypeOK'
  BY <1>1 DEF Inv, TypeOK
<1>3. RowsOK' /\ EventsOK'
  BY <1>1 DEF Inv, RowsOK, RecordOK, SubOK, EventsOK, EventOK, Has, Owner
<1>4. RequestsOK'
  BY <1>1 DEF Inv, RequestsOK, RequestOK, Has, Owner
<1> QED
  BY <1>2, <1>3, <1>4 DEF Inv

LEMMA SettleKeeps ==
  ASSUME Inv, NEW h \in Handlers, Settle(h),
         strayed' \subseteq Tutors, UNCHANGED <<record, stripe, events>>,
         requests' \in 0..MaxRequests, changes' \in 0..MaxChanges, faults' \in 0..MaxFaults
  PROVE  Inv'
BY IdleTyped, MoveKeeps DEF Settle, RequestOK, Idle

LEMMA StartKeeps ==
  ASSUME SubscriptionAssumption, Inv, NEW h \in Handlers, NEW t \in Tutors, NEW op \in Ops,
         Start(h, t, op)
  PROVE  Inv'
<1> DEFINE r == [Idle EXCEPT !.pc = "find", !.op = op, !.tutor = t]
<1>1. r \in Request /\ r.pc = "find" /\ r.tutor = t
  BY IdleTyped DEF Request
<1>2. requests' \in 0..MaxRequests
  BY DEF Start, Inv, TypeOK, SubscriptionAssumption
<1> QED
  BY <1>1, <1>2, MoveKeeps DEF Start, RequestOK, Inv, TypeOK

\* With the record, or a new one, the request goes on in order.
LEMMA WithRecordOK ==
  ASSUME NEW h \in Handlers, NEW rec \in Record, request[h] \in Request, request[h].tutor \in Tutors,
         WithRecord(h, rec), rec.customer \in DOMAIN customers,
         rec.sub # 0 => rec.sub \in DOMAIN subs /\ Owner(rec.sub) = request[h].tutor
  PROVE  \E r \in Request :
           /\ Set(h, r) /\ r.pc \in {"idle", "subscribe", "write", "find"}
           /\ r.pc # "idle" => r.tutor = request[h].tutor
           /\ r.pc = "subscribe" => r.customer = rec.customer
           /\ r.pc = "write" => r.op \in Calls /\ r.sub = rec.sub
<1> DEFINE p == request[h]
           held == [p EXCEPT !.customer = rec.customer, !.sub = rec.sub]
<1>1. held \in Request /\ held.customer = rec.customer /\ held.sub = rec.sub /\ held.op = p.op
      /\ held.tutor = p.tutor
  BY DEF Request, Record
<1>2. CASE Settle(h)
  BY <1>2, IdleTyped DEF Settle
<1>3. CASE Set(h, [held EXCEPT !.pc = "subscribe"])
  <2> DEFINE r == [held EXCEPT !.pc = "subscribe"]
  <2>1. r \in Request /\ r.pc = "subscribe" /\ r.tutor = p.tutor /\ r.customer = rec.customer
    BY <1>1 DEF Request
  <2> QED
    BY <1>3, <2>1
<1>4. CASE p.op \in Calls /\ Set(h, [held EXCEPT !.pc = "write"])
  <2> DEFINE r == [held EXCEPT !.pc = "write"]
  <2>1. /\ r \in Request /\ r.pc = "write" /\ r.tutor = p.tutor /\ r.op = p.op
        /\ r.sub = rec.sub
    BY <1>1 DEF Request
  <2> QED
    BY <1>4, <2>1
<1>5. CASE Set(h, [p EXCEPT !.pc = "find", !.op = "reinstate"])
  <2> DEFINE r == [p EXCEPT !.pc = "find", !.op = "reinstate"]
  <2>1. r \in Request /\ r.pc = "find" /\ r.tutor = p.tutor
    BY DEF Request, Ops
  <2> QED
    BY <1>5, <2>1
<1>6. p.op \in Ops
  BY DEF Request
<1> QED
  BY <1>2, <1>3, <1>4, <1>5, <1>6 DEF WithRecord, Ops, Calls

LEMMA FindRecordKeeps ==
  ASSUME Inv, NEW h \in Handlers, FindRecord(h)
  PROVE  Inv'
<1> DEFINE p == request[h]
           rec == record[p.tutor]
<1>1. /\ p \in Request /\ RequestOK(p) /\ p.pc = "find" /\ p.tutor \in Tutors
      /\ UNCHANGED <<record, stripe, events, strayed, requests, changes, faults>>
  BY DEF Inv, TypeOK, RequestsOK, RequestOK, FindRecord, At, bounds
<1>2. CASE rec = NoRecord
  <2> DEFINE r == [p EXCEPT !.pc = "customer"]
  <2>1. r \in Request /\ r.pc = "customer" /\ r.tutor = p.tutor
    BY <1>1 DEF Request
  <2>2. Set(h, r)
    BY <1>2 DEF FindRecord, Goto
  <2> QED
    BY <1>1, <2>1, <2>2, MoveKeeps DEF RequestOK, Inv, TypeOK
<1>3. CASE rec # NoRecord
  <2>1. /\ rec \in Record /\ WithRecord(h, rec) /\ rec.customer \in DOMAIN customers
        /\ rec.sub # 0 => rec.sub \in DOMAIN subs /\ Owner(rec.sub) = p.tutor
        /\ Has(p.tutor)
    BY <1>1, <1>3 DEF FindRecord, Inv, TypeOK, RowsOK, RecordOK, Has
  <2>2. PICK r \in Request :
           /\ Set(h, r) /\ r.pc \in {"idle", "subscribe", "write", "find"}
           /\ r.pc # "idle" => r.tutor = p.tutor
           /\ r.pc = "subscribe" => r.customer = rec.customer
           /\ r.pc = "write" => r.op \in Calls /\ r.sub = rec.sub
    BY <1>1, <2>1, WithRecordOK
  <2>3. RequestOK(r)
    BY <1>1, <2>1, <2>2 DEF RequestOK
  <2> QED
    BY <1>1, <2>2, <2>3, MoveKeeps DEF Inv, TypeOK
<1> QED
  BY <1>2, <1>3

LEMMA AppendFacts ==
  ASSUME NEW T, NEW s \in Seq(T), NEW x \in T
  PROVE  /\ Append(s, x) \in Seq(T) /\ DOMAIN s \subseteq DOMAIN Append(s, x)
         /\ \A i \in DOMAIN s : Append(s, x)[i] = s[i]
         /\ Append(s, x)[Len(s) + 1] = x /\ Len(s) + 1 \in DOMAIN Append(s, x)
         /\ DOMAIN Append(s, x) = DOMAIN s \cup {Len(s) + 1}
         /\ Len(s) + 1 \in Nat /\ Len(s) + 1 # 0 /\ Len(s) + 1 \notin DOMAIN s
OBVIOUS

LEMMA CreateCustomerKeeps ==
  ASSUME Inv, NEW h \in Handlers, CreateCustomer(h)
  PROVE  Inv'
<1> DEFINE p == request[h]
           n == Len(customers) + 1
           r == [p EXCEPT !.pc = "insert", !.customer = n]
<1>1. /\ p \in Request /\ RequestOK(p) /\ p.pc = "customer" /\ p.tutor \in Tutors
      /\ UNCHANGED <<record, subs, paid, events, strayed, requests, changes, faults>>
      /\ customers' = Append(customers, p.tutor) /\ customers \in Seq(Tutors)
  BY DEF Inv, TypeOK, RequestsOK, RequestOK, CreateCustomer, At, bounds
<1>2. /\ customers' \in Seq(Tutors) /\ DOMAIN customers \subseteq DOMAIN customers'
      /\ \A i \in DOMAIN customers : customers'[i] = customers[i]
      /\ customers'[n] = p.tutor /\ n \in DOMAIN customers' /\ n \in Nat
  BY <1>1, AppendFacts
<1>3. Set(h, r)
  BY DEF CreateCustomer
<1> HIDE DEF n
<1>4. r \in Request /\ r.pc = "insert" /\ r.tutor = p.tutor /\ r.customer = n
  BY <1>1, <1>2 DEF Request
<1> HIDE DEF r
<1>5. /\ request' \in [Handlers -> Request] /\ request'[h] = r
      /\ \A g \in Handlers \ {h} : request'[g] = request[g]
  BY <1>3, <1>4, SetFields DEF Inv
<1>6. Grows
  BY <1>1, <1>2 DEF Grows, Has
<1>7. \A g \in {h} : RequestOK(request[g])'
  BY <1>1, <1>2, <1>4, <1>5 DEF RequestOK
<1>8. RequestsOK'
  <2>1. {h} \in SUBSET Handlers /\ \A g \in Handlers \ {h} : request'[g] = request[g]
    BY <1>5
  <2> QED
    BY <1>6, <1>7, <2>1, RequestsKept
<1>9. RowsOK' /\ EventsOK'
  <2>1. \A s \in DOMAIN subs : Owner(s)' = Owner(s)
    BY <1>1, <1>2 DEF Inv, RowsOK, SubOK, Owner
  <2>2. \A t \in Tutors : RecordOK(t)'
    BY <1>1, <1>2, <2>1 DEF Inv, RowsOK, RecordOK, Has
  <2>3. \A s \in DOMAIN subs : SubOK(s)'
    BY <1>1, <1>2, <2>1 DEF Inv, RowsOK, SubOK, Has
  <2> QED
    BY <1>1, <2>2, <2>3 DEF RowsOK, Inv, EventsOK, EventOK
<1>10. TypeOK'
  BY <1>1, <1>2, <1>5 DEF Inv, TypeOK
<1> QED
  BY <1>8, <1>9, <1>10 DEF Inv

LEMMA InsertRecordKeeps ==
  ASSUME SubscriptionAssumption, Inv, NEW h \in Handlers, InsertRecord(h)
  PROVE  Inv'
<1> DEFINE p == request[h]
           new == [customer |-> p.customer, sub |-> 0, active |-> FALSE, cancelled |-> FALSE]
<1>1. /\ p \in Request /\ RequestOK(p) /\ p.pc = "insert" /\ p.tutor \in Tutors
      /\ p.customer \in DOMAIN customers /\ customers[p.customer] = p.tutor
      /\ UNCHANGED <<stripe, customers, subs, paid, events, strayed, requests, changes, faults>>
  BY DEF Inv, TypeOK, RequestsOK, RequestOK, InsertRecord, At, bounds, stripe
<1>2. CASE Settle(h) /\ UNCHANGED record
  BY <1>1, <1>2, SettleKeeps DEF Inv, TypeOK
<1>3. CASE record[p.tutor] = NoRecord /\ record' = [record EXCEPT ![p.tutor] = new] /\ WithRecord(h, new)
  <2>1. /\ p.customer \in Nat
    BY <1>1 DEF Request
  <2>2. /\ new \in Record
    BY <2>1 DEF Record
  <2>3. new.customer = p.customer /\ new.sub = 0 /\ new # NoRecord /\ ~new.active
    <3>1. new.customer = p.customer /\ new.sub = 0
      OBVIOUS
    <3>2. ~new.active
      BY Zenon
    <3>3. new # NoRecord
      BY <2>2, SubscriptionAssumption DEF Record
    <3> QED
      BY <3>1, <3>2, <3>3
  <2> HIDE DEF new
  <2>4. PICK r \in Request :
           /\ Set(h, r) /\ r.pc \in {"idle", "subscribe", "write", "find"}
           /\ r.pc # "idle" => r.tutor = p.tutor
           /\ r.pc = "subscribe" => r.customer = new.customer
           /\ r.pc = "write" => r.op \in Calls /\ r.sub = new.sub
    BY <1>1, <1>3, <2>2, <2>3, WithRecordOK
  <2>5. /\ request' \in [Handlers -> Request] /\ request'[h] = r
        /\ \A g \in Handlers \ {h} : request'[g] = request[g]
    BY <2>4, SetFields DEF Inv
  <2>6. /\ record' \in [Tutors -> Record \cup {NoRecord}] /\ record'[p.tutor] = new
        /\ \A t \in Tutors : t # p.tutor => record'[t] = record[t]
    BY <1>1, <1>3, <2>2 DEF Inv, TypeOK
  <2>7. Grows
    BY <1>1, <1>3, <2>6 DEF Grows, Has
  <2>8. \A g \in {h} : RequestOK(request[g])'
    BY <1>1, <2>3, <2>4, <2>5, <2>6 DEF RequestOK, Has
  <2>9. RequestsOK'
    <3>1. {h} \in SUBSET Handlers /\ \A g \in Handlers \ {h} : request'[g] = request[g]
      BY <2>5
    <3> QED
      BY <2>7, <2>8, <3>1, RequestsKept
  <2>10. RowsOK' /\ EventsOK'
    <3>1. \A t \in Tutors : RecordOK(t)'
      BY <1>1, <2>3, <2>6 DEF Inv, RowsOK, RecordOK, Has, Owner
    <3>2. \A s \in DOMAIN subs : SubOK(s)'
      BY <1>1, <1>3, <2>7 DEF Inv, RowsOK, SubOK, Has, Owner, Grows
    <3> QED
      BY <1>1, <3>1, <3>2 DEF RowsOK, Inv, EventsOK, EventOK
  <2>11. TypeOK'
    BY <1>1, <2>5, <2>6 DEF Inv, TypeOK
  <2> QED
    BY <2>9, <2>10, <2>11 DEF Inv
<1> QED
  BY <1>2, <1>3 DEF InsertRecord

LEMMA Emitted ==
  ASSUME events \in Seq(Event), NEW s \in Nat, NEW state \in Sub, events' = Emit(s, state)
  PROVE  /\ events' \in Seq(Event)
         /\ \A i \in DOMAIN events' : \/ \E j \in DOMAIN events : events'[i] = events[j]
                                      \/ events'[i].sub = s /\ events'[i].status = state.status
<1>1. \E b \in BOOLEAN : b = (state.status = "ended")
  <2> WITNESS (state.status = "ended") \in BOOLEAN
  <2> QED
    OBVIOUS
<1>2. PICK b \in BOOLEAN : b = (state.status = "ended")
  BY <1>1
<1> DEFINE e == [sub |-> s, deleted |-> b, status |-> state.status, cancelling |-> state.cancelling]
<1>3. e = [sub |-> s, deleted |-> state.status = "ended", status |-> state.status,
           cancelling |-> state.cancelling]
  BY <1>2, Zenon
<1>4. e \in Event /\ e.sub = s /\ e.status = state.status
  BY DEF Event, Sub
<1>5. events' = Append(events, e)
  BY <1>3, Zenon DEF Emit
<1> HIDE DEF e
<1>6. /\ events' \in Seq(Event) /\ DOMAIN events' = DOMAIN events \cup {Len(events) + 1}
      /\ events'[Len(events) + 1] = e /\ \A i \in DOMAIN events : events'[i] = events[i]
  BY <1>4, <1>5, AppendFacts
<1> QED
  BY <1>4, <1>6

LEMMA CreateSubscriptionKeeps ==
  ASSUME Inv, NEW h \in Handlers, CreateSubscription(h)
  PROVE  Inv'
<1>0. PICK n \in Nat : n = Len(subs) + 1
  BY DEF Inv, TypeOK
<1> DEFINE p == request[h]
           new == [customer |-> p.customer, status |-> "incomplete", cancelling |-> FALSE]
<1>1. /\ p \in Request /\ RequestOK(p) /\ p.pc = "subscribe" /\ p.tutor \in Tutors
      /\ UNCHANGED <<record, customers, paid, requests, changes, faults>>
      /\ subs' = Append(subs, new) /\ subs \in Seq(Sub)
      /\ strayed' \subseteq Tutors /\ events \in Seq(Event) /\ paid \subseteq DOMAIN subs
  BY DEF Inv, TypeOK, RequestsOK, RequestOK, CreateSubscription, At, bounds
<1>2. Has(p.tutor) /\ p.customer = record[p.tutor].customer
      /\ p.customer \in DOMAIN customers /\ customers[p.customer] = p.tutor
  BY <1>1 DEF RequestOK, Inv, RowsOK, RecordOK
<1>3. new \in Sub /\ new.customer = p.customer /\ new.status = "incomplete"
  <2>1. p.customer \in Nat
    BY <1>1 DEF Request
  <2> QED
    BY <2>1 DEF Sub, Statuses
<1>4. events' = Emit(n, new)
  BY <1>0 DEF CreateSubscription
<1> HIDE DEF new
<1>5. /\ subs' \in Seq(Sub) /\ DOMAIN subs' = DOMAIN subs \cup {n}
      /\ \A i \in DOMAIN subs : subs'[i] = subs[i]
      /\ subs'[n] = new /\ n \in Nat /\ n \notin DOMAIN subs
  BY <1>0, <1>1, <1>3, AppendFacts
<1>6. /\ events' \in Seq(Event)
      /\ \A i \in DOMAIN events' : \/ \E j \in DOMAIN events : events'[i] = events[j]
                                   \/ events'[i].sub = n /\ events'[i].status = new.status
  BY <1>1, <1>3, <1>4, <1>5, Emitted
<1>7. Grows
  BY <1>1, <1>5 DEF Grows, Has
<1>8. /\ request' \in [Handlers -> Request] /\ request'[h] = Idle
      /\ \A g \in Handlers \ {h} : request'[g] = request[g]
  BY IdleTyped, SetFields DEF CreateSubscription, Settle, Inv
<1>9. RequestsOK'
  <2>1. {h} \in SUBSET Handlers /\ \A g \in Handlers \ {h} : request'[g] = request[g]
    BY <1>8
  <2>2. \A g \in {h} : RequestOK(request[g])'
    BY <1>8 DEF RequestOK, Idle
  <2> QED
    BY <1>7, <2>1, <2>2, RequestsKept
<1>10. EventsOK'
  BY <1>3, <1>5, <1>6, <1>7, EventsKept
<1>11. RowsOK'
  <2>1. \A t \in Tutors : RecordOK(t)'
    BY <1>1, <1>5 DEF Inv, RowsOK, RecordOK, Has, Owner
  <2>2. \A s \in DOMAIN subs : SubOK(s)'
    BY <1>1, <1>5 DEF Inv, RowsOK, SubOK, Has, Owner
  <2>3. SubOK(n)'
    BY <1>1, <1>2, <1>3, <1>5 DEF SubOK, Has, Owner
  <2> QED
    BY <1>5, <2>1, <2>2, <2>3 DEF RowsOK
<1>12. TypeOK'
  BY <1>1, <1>5, <1>6, <1>8 DEF Inv, TypeOK
<1> QED
  BY <1>9, <1>10, <1>11, <1>12 DEF Inv

\* Stripe gives a subscription another state; an event says so.
LEMMA SubChanges ==
  ASSUME Inv, NEW s \in DOMAIN subs, NEW state \in Sub, state.customer = subs[s].customer,
         subs' = [subs EXCEPT ![s] = state], UNCHANGED <<record, customers>>,
         paid \subseteq paid', paid' \subseteq DOMAIN subs, state.status = "active" => s \in paid',
         \A i \in DOMAIN events' : \/ \E j \in DOMAIN events : events'[i] = events[j]
                                   \/ events'[i].sub = s /\ events'[i].status = state.status
  PROVE  Grows /\ subs' \in Seq(Sub) /\ paid' \subseteq DOMAIN subs' /\ RowsOK' /\ EventsOK'
<1>1. subs \in Seq(Sub)
  BY DEF Inv, TypeOK
<1>2. /\ subs' \in Seq(Sub) /\ DOMAIN subs' = DOMAIN subs /\ subs'[s] = state
      /\ \A z \in DOMAIN subs : z # s => subs'[z] = subs[z]
  BY <1>1, ExceptSeq
<1>3. Grows
  BY <1>2 DEF Grows, Has
<1>4. EventsOK'
  BY <1>2, <1>3, EventsKept
<1>5. \A t \in Tutors : RecordOK(t)'
  BY <1>2 DEF Inv, RowsOK, RecordOK, Has, Owner
<1>6. \A z \in DOMAIN subs : SubOK(z)'
  BY <1>2 DEF Inv, RowsOK, SubOK, Has, Owner
<1> QED
  BY <1>2, <1>3, <1>4, <1>5, <1>6 DEF RowsOK

LEMMA CallStripeKeeps ==
  ASSUME Inv, NEW h \in Handlers, CallStripe(h)
  PROVE  Inv'
<1> DEFINE p == request[h]
           s == p.sub
           now == subs[s]
           next == IF p.op = "instant" THEN [now EXCEPT !.status = "ended"]
                   ELSE [now EXCEPT !.cancelling = p.op = "cancel"]
<1>1. /\ p \in Request /\ RequestOK(p) /\ p.pc = "stripe" /\ s # 0 /\ s \in DOMAIN subs
      /\ subs \in Seq(Sub) /\ events \in Seq(Event) /\ strayed \subseteq Tutors
      /\ paid \subseteq DOMAIN subs /\ Settle(h)
      /\ UNCHANGED <<record, customers, paid, strayed, requests, changes, faults>>
  BY DEF Inv, TypeOK, RequestsOK, RequestOK, CallStripe, At, bounds, Open
<1>2. now \in Sub /\ s \in Nat /\ (now.status = "active" => s \in paid)
  BY <1>1 DEF Inv, RowsOK, SubOK
<1>3. CASE UNCHANGED <<subs, events>>
  BY <1>1, <1>3, SettleKeeps DEF stripe, Inv, TypeOK
<1>4. CASE Change(s, next)
  <2>1. next \in Sub /\ next.customer = now.customer /\ (next.status = "active" => now.status = "active")
    <3>1. CASE p.op = "instant"
      BY <1>2, <3>1 DEF Sub, Statuses
    <3>2. CASE p.op # "instant"
      <4>1. \E b \in BOOLEAN : b = (p.op = "cancel")
        <5> WITNESS (p.op = "cancel") \in BOOLEAN
        <5> QED
          OBVIOUS
      <4>2. PICK b \in BOOLEAN : b = (p.op = "cancel")
        BY <4>1
      <4> DEFINE other == [now EXCEPT !.cancelling = b]
      <4>3. next = other
        BY <3>2, <4>2, Zenon
      <4>4. other \in Sub /\ other.customer = now.customer /\ other.status = now.status
        BY <1>2 DEF Sub
      <4> QED
        BY <4>3, <4>4
    <3> QED
      BY <3>1, <3>2
  <2>2. subs' = [subs EXCEPT ![s] = next] /\ events' = Emit(s, next)
    BY <1>4 DEF Change
  <2> HIDE DEF next
  <2>3. /\ events' \in Seq(Event)
        /\ \A i \in DOMAIN events' : \/ \E j \in DOMAIN events : events'[i] = events[j]
                                     \/ events'[i].sub = s /\ events'[i].status = next.status
    BY <1>1, <1>2, <2>1, <2>2, Emitted
  <2>4. Grows /\ subs' \in Seq(Sub) /\ paid' \subseteq DOMAIN subs' /\ RowsOK' /\ EventsOK'
    BY <1>1, <1>2, <2>1, <2>2, <2>3, SubChanges
  <2>5. /\ request' \in [Handlers -> Request] /\ request'[h] = Idle
        /\ \A g \in Handlers \ {h} : request'[g] = request[g]
    BY <1>1, IdleTyped, SetFields DEF Settle, Inv
  <2>6. RequestsOK'
    <3>1. {h} \in SUBSET Handlers /\ \A g \in Handlers \ {h} : request'[g] = request[g]
      BY <2>5
    <3>2. \A g \in {h} : RequestOK(request[g])'
      BY <2>5 DEF RequestOK, Idle
    <3> QED
      BY <2>4, <3>1, <3>2, RequestsKept
  <2>7. TypeOK'
    BY <1>1, <2>3, <2>4, <2>5 DEF Inv, TypeOK
  <2> QED
    BY <2>4, <2>6, <2>7 DEF Inv
<1> QED
  BY <1>3, <1>4 DEF CallStripe

LEMMA StripeRefusesKeeps ==
  ASSUME Inv, NEW h \in Handlers, StripeRefuses(h)
  PROVE  Inv'
<1>1. request[h].tutor \in Tutors
  BY DEF StripeRefuses, At, Inv, RequestsOK, RequestOK
<1> QED
  BY <1>1, SettleKeeps DEF StripeRefuses, Inv, TypeOK, bounds

LEMMA CallFailsKeeps ==
  ASSUME SubscriptionAssumption, Inv, NEW h \in Handlers, CallFails(h)
  PROVE  Inv'
<1>1. request[h].tutor \in Tutors
  BY DEF CallFails, At, Inv, RequestsOK, RequestOK
<1>2. faults' \in 0..MaxFaults
  BY DEF CallFails, Inv, TypeOK, SubscriptionAssumption
<1> QED
  BY <1>1, <1>2, SettleKeeps DEF CallFails, Inv, TypeOK

\* Records are written; Stripe is left alone.
LEMMA RecordsWritten ==
  ASSUME SubscriptionAssumption, Inv, UNCHANGED stripe, DOMAIN record' = Tutors,
         record' = [t \in Tutors |-> record'[t]],
         \A t \in Tutors : \/ record'[t] = record[t]
                           \/ /\ Has(t) /\ record'[t] \in Record
                              /\ record'[t].customer = record[t].customer
                              /\ record'[t].sub # 0 => record'[t].sub \in DOMAIN subs /\ Owner(record'[t].sub) = t
                              /\ record'[t].active => record'[t].sub \in paid
  PROVE  /\ record' \in [Tutors -> Record \cup {NoRecord}]
         /\ Grows /\ RowsOK'
<1>1. UNCHANGED <<customers, subs, paid>>
  BY DEF stripe
<1>2. \A t \in Tutors : record'[t] \in Record \cup {NoRecord}
  BY DEF Inv, TypeOK
<1>3. \A t \in Tutors : Has(t) => Has(t)' /\ record'[t].customer = record[t].customer
  BY SubscriptionAssumption DEF Has, Record, SubscriptionAssumption
<1>4. Grows
  BY <1>1, <1>3 DEF Grows
<1>5. \A t \in Tutors : RecordOK(t)'
  BY <1>1 DEF Inv, RowsOK, RecordOK, Has, Owner
<1>6. \A s \in DOMAIN subs : SubOK(s)'
  BY <1>1, <1>3 DEF Inv, RowsOK, SubOK, Has, Owner, TypeOK
<1>7. record' \in [Tutors -> Record \cup {NoRecord}]
  BY <1>2
<1> QED
  BY <1>1, <1>4, <1>5, <1>6, <1>7 DEF RowsOK

LEMMA WriteRecordKeeps ==
  ASSUME SubscriptionAssumption, Inv, NEW h \in Handlers, WriteRecord(h)
  PROVE  Inv'
<1> DEFINE p == request[h]
           rec == record[p.tutor]
           row == CASE p.op = "cancel" -> [rec EXCEPT !.cancelled = TRUE]
                    [] p.op = "reinstate" -> [rec EXCEPT !.cancelled = FALSE]
                    [] p.op = "instant" -> [rec EXCEPT !.cancelled = FALSE, !.sub = 0, !.active = FALSE]
           r == [p EXCEPT !.pc = "stripe"]
<1>1. /\ p \in Request /\ RequestOK(p) /\ p.pc = "write" /\ p.tutor \in Tutors /\ p.op \in Calls
      /\ Has(p.tutor) /\ record \in [Tutors -> Record \cup {NoRecord}]
      /\ UNCHANGED <<stripe, customers, subs, paid, events, strayed, requests, changes, faults>>
  BY DEF Inv, TypeOK, RequestsOK, RequestOK, WriteRecord, At, bounds, stripe
<1>2. rec \in Record
  BY <1>1 DEF Has
<1>3. record' = [record EXCEPT ![p.tutor] = row]
  BY DEF WriteRecord
<1>4. /\ row \in Record /\ row.customer = rec.customer
      /\ \/ row.sub = rec.sub /\ row.active = rec.active
         \/ row.sub = 0 /\ ~row.active
  <2>1. CASE p.op = "cancel"
    <3> DEFINE new == [rec EXCEPT !.cancelled = TRUE]
    <3>1. new \in Record /\ new.customer = rec.customer /\ new.sub = rec.sub /\ new.active = rec.active
      BY <1>2 DEF Record
    <3>2. row = new
      BY <2>1, Zenon
    <3> QED
      BY <3>1, <3>2
  <2>2. CASE p.op = "reinstate"
    <3> DEFINE new == [rec EXCEPT !.cancelled = FALSE]
    <3>1. new \in Record /\ new.customer = rec.customer /\ new.sub = rec.sub /\ new.active = rec.active
      BY <1>2 DEF Record
    <3>2. row = new
      BY <2>2
    <3> QED
      BY <3>1, <3>2
  <2>3. CASE p.op = "instant"
    <3> DEFINE new == [rec EXCEPT !.cancelled = FALSE, !.sub = 0, !.active = FALSE]
    <3>1. new \in Record /\ new.customer = rec.customer /\ new.sub = 0 /\ ~new.active
      BY <1>2 DEF Record
    <3>2. row = new
      BY <2>3
    <3> QED
      BY <3>1, <3>2
  <2> QED
    BY <1>1, <2>1, <2>2, <2>3 DEF Calls
<1> HIDE DEF row
<1>5. /\ DOMAIN record' = Tutors /\ record' = [t \in Tutors |-> record'[t]] /\ record'[p.tutor] = row
      /\ \A t \in Tutors : t # p.tutor => record'[t] = record[t]
  BY <1>1, <1>3
<1>6. RecordOK(p.tutor)
  BY <1>1 DEF Inv, RowsOK
<1>7. /\ record' \in [Tutors -> Record \cup {NoRecord}]
      /\ Grows /\ RowsOK'
  <2>1. /\ row.sub # 0 => row.sub \in DOMAIN subs /\ Owner(row.sub) = p.tutor
        /\ row.active => row.sub \in paid
    BY <1>1, <1>4, <1>6 DEF RecordOK
  <2>2. \A t \in Tutors : \/ record'[t] = record[t]
                          \/ /\ Has(t) /\ record'[t] \in Record
                             /\ record'[t].customer = record[t].customer
                             /\ record'[t].sub # 0 => record'[t].sub \in DOMAIN subs /\ Owner(record'[t].sub) = t
                             /\ record'[t].active => record'[t].sub \in paid
    <3>1. rec = record[p.tutor] /\ record'[p.tutor] = row /\ row \in Record /\ row.customer = rec.customer
          /\ Has(p.tutor) /\ \A t \in Tutors : t # p.tutor => record'[t] = record[t]
      <4>1. rec = record[p.tutor]
        OBVIOUS
      <4>2. record'[p.tutor] = row /\ row \in Record /\ row.customer = rec.customer
        BY <1>4, <1>5
      <4>3. Has(p.tutor) /\ \A t \in Tutors : t # p.tutor => record'[t] = record[t]
        BY <1>1, <1>5
      <4> QED
        BY <4>1, <4>2, <4>3
    <3> HIDE DEF rec, p
    <3> QED
      BY <2>1, <3>1
  <2> QED
    BY <1>1, <1>5, <2>2, RecordsWritten
<1>8. r \in Request /\ r.pc = "stripe" /\ r.tutor = p.tutor /\ r.op = p.op /\ r.sub = p.sub
  BY <1>1 DEF Request
<1>9. Set(h, r)
  BY DEF WriteRecord, Goto
<1> HIDE DEF r
<1>10. /\ request' \in [Handlers -> Request] /\ request'[h] = r
       /\ \A g \in Handlers \ {h} : request'[g] = request[g]
  BY <1>8, <1>9, SetFields DEF Inv
<1>11. RequestsOK'
  <2>1. {h} \in SUBSET Handlers /\ \A g \in Handlers \ {h} : request'[g] = request[g]
    BY <1>10
  <2>3. \A g \in {h} : RequestOK(request[g])'
    BY <1>1, <1>7, <1>8, <1>9, <1>10 DEF RequestOK, Grows, Has, Owner
  <2> QED
    BY <1>7, <2>1, <2>3, RequestsKept
<1>12. TypeOK' /\ EventsOK'
  BY <1>1, <1>7, <1>10 DEF Inv, TypeOK, EventsOK, EventOK
<1> QED
  BY <1>7, <1>11, <1>12 DEF Inv

LEMMA Applied ==
  ASSUME SubscriptionAssumption, Inv, NEW e \in Event, EventOK(e), Apply(e), UNCHANGED stripe
  PROVE  /\ record' \in [Tutors -> Record \cup {NoRecord}]
         /\ Grows /\ RowsOK'
<1>1. DOMAIN record' = Tutors /\ record' = [t \in Tutors |-> record'[t]]
  BY DEF Apply
<1>2. SUFFICES ASSUME NEW t \in Tutors
               PROVE  \/ record'[t] = record[t]
                      \/ /\ Has(t) /\ record'[t] \in Record
                         /\ record'[t].customer = record[t].customer
                         /\ record'[t].sub # 0 => record'[t].sub \in DOMAIN subs /\ Owner(record'[t].sub) = t
                         /\ record'[t].active => record'[t].sub \in paid
  BY <1>1, RecordsWritten
<1>3. CASE t \notin Holder(e)
  BY <1>3 DEF Apply
<1>4. CASE t \in Holder(e)
  <2>1. /\ Has(t) /\ record[t] \in Record /\ record[t].customer = subs[e.sub].customer
        /\ e.sub \in DOMAIN subs /\ Owner(e.sub) = t
    BY <1>4 DEF Holder, Has, Inv, TypeOK, RowsOK, RecordOK, EventOK, Owner
  <2>2. CASE e.deleted
    <3> DEFINE new == [record[t] EXCEPT !.sub = 0, !.active = FALSE]
    <3>1. new \in Record /\ new.customer = record[t].customer /\ new.sub = 0 /\ ~new.active
      BY <2>1 DEF Record
    <3>2. record'[t] = new
      BY <1>4, <2>2 DEF Apply
    <3> QED
      BY <2>1, <3>1, <3>2
  <2>3. CASE ~e.deleted
    <3>1. \E b \in BOOLEAN : b = (e.status = "active")
      <4> WITNESS (e.status = "active") \in BOOLEAN
      <4> QED
        OBVIOUS
    <3>2. PICK b \in BOOLEAN : b = (e.status = "active")
      BY <3>1
    <3> DEFINE new == [record[t] EXCEPT !.sub = e.sub, !.active = b, !.cancelled = e.cancelling]
    <3>3. new \in Record /\ new.customer = record[t].customer /\ new.sub = e.sub /\ new.active = b
      BY <2>1 DEF Record, Event
    <3>4. record'[t] = new
      BY <1>4, <2>3, <3>2, Zenon DEF Apply
    <3> QED
      BY <2>1, <3>2, <3>3, <3>4 DEF EventOK
  <2> QED
    BY <2>2, <2>3
<1> QED
  BY <1>3, <1>4

\* An event is handled: the requests stay, and no event is made.
LEMMA AppliedKeeps ==
  ASSUME SubscriptionAssumption, Inv, NEW e \in Event, EventOK(e), Apply(e), UNCHANGED <<stripe, request>>,
         events' \in Seq(Event),
         \A i \in DOMAIN events' : \E j \in DOMAIN events : events'[i] = events[j],
         strayed' \subseteq Tutors,
         requests' \in 0..MaxRequests, changes' \in 0..MaxChanges, faults' \in 0..MaxFaults
  PROVE  Inv'
<1>1. /\ record' \in [Tutors -> Record \cup {NoRecord}]
      /\ Grows /\ RowsOK'
  BY Applied
<1>2. EventsOK'
  BY <1>1, EventsKept
<1>3. RequestsOK'
  <2>1. {} \in SUBSET Handlers /\ \A g \in Handlers \ {} : request'[g] = request[g]
    OBVIOUS
  <2> QED
    BY <1>1, <2>1, RequestsKept
<1>4. TypeOK'
  BY <1>1 DEF Inv, TypeOK, stripe
<1> QED
  BY <1>1, <1>2, <1>3, <1>4 DEF Inv

LEMMA TailFacts ==
  ASSUME events \in Seq(Event), events # <<>>
  PROVE  /\ Head(events) \in Event /\ 1 \in DOMAIN events /\ Head(events) = events[1]
         /\ Tail(events) \in Seq(Event)
         /\ \A i \in DOMAIN Tail(events) : \E j \in DOMAIN events : Tail(events)[i] = events[j]
<1>1. /\ Head(events) \in Event /\ Len(events) \in Nat /\ Len(events) >= 1 /\ Head(events) = events[1]
      /\ Tail(events) \in Seq(Event) /\ Len(Tail(events)) = Len(events) - 1
  OBVIOUS
<1>2. \A i \in 1..(Len(events) - 1) : i + 1 \in 1..Len(events) /\ Tail(events)[i] = events[i + 1]
  BY <1>1
<1> QED
  BY <1>1, <1>2

LEMMA HandleEventKeeps ==
  ASSUME SubscriptionAssumption, Inv, HandleEvent
  PROVE  Inv'
<1>1. /\ events \in Seq(Event) /\ events # <<>> /\ Apply(Head(events)) /\ events' = Tail(events)
      /\ UNCHANGED <<stripe, request, strayed, requests, changes, faults>>
  BY DEF HandleEvent, Inv, TypeOK, bounds
<1>2. /\ Head(events) \in Event /\ EventOK(Head(events)) /\ events' \in Seq(Event)
      /\ \A i \in DOMAIN events' : \E j \in DOMAIN events : events'[i] = events[j]
  BY <1>1, TailFacts DEF Inv, EventsOK
<1> QED
  BY <1>1, <1>2, AppliedKeeps DEF Inv, TypeOK

LEMMA AnswerLostKeeps ==
  ASSUME SubscriptionAssumption, Inv, AnswerLost
  PROVE  Inv'
<1>1. /\ events \in Seq(Event) /\ events # <<>> /\ Apply(Head(events))
      /\ UNCHANGED <<stripe, request, events, strayed, requests, changes>>
      /\ faults' \in 0..MaxFaults
  BY DEF AnswerLost, Inv, TypeOK, SubscriptionAssumption
<1>2. Head(events) \in Event /\ EventOK(Head(events))
  BY <1>1, TailFacts DEF Inv, EventsOK
<1> QED
  BY <1>1, <1>2, AppliedKeeps DEF Inv, TypeOK

LEMMA OwnerTyped ==
  ASSUME Inv, NEW s \in DOMAIN subs
  PROVE  Owner(s) \in Tutors
BY DEF Inv, TypeOK, RowsOK, SubOK, Owner

\* The queue without one of its events.
LEMMA RemovedFacts ==
  ASSUME events \in Seq(Event), NEW i \in 2..Len(events), events' = RemoveAt(events, i)
  PROVE  /\ events' \in Seq(Event) /\ Len(events') = Len(events) - 1
         /\ \A k \in 1..(i - 1) : events'[k] = events[k]
         /\ \A k \in i..(Len(events) - 1) : events'[k] = events[k + 1]
<1>1. /\ events \in Seq(Event) /\ i \in 2..Len(events) /\ Len(events) \in Nat
  OBVIOUS
<1>2. events' = SubSeq(events, 1, i - 1) \o SubSeq(events, i + 1, Len(events))
  BY DEF RemoveAt
<1>3. /\ SubSeq(events, 1, i - 1) \in Seq(Event) /\ Len(SubSeq(events, 1, i - 1)) = i - 1
      /\ \A k \in 1..(i - 1) : SubSeq(events, 1, i - 1)[k] = events[k]
  BY <1>1
<1>4. /\ SubSeq(events, i + 1, Len(events)) \in Seq(Event)
      /\ Len(SubSeq(events, i + 1, Len(events))) = Len(events) - i
      /\ \A k \in 1..(Len(events) - i) : SubSeq(events, i + 1, Len(events))[k] = events[i + k]
  BY <1>1
<1>5. /\ events' \in Seq(Event) /\ Len(events') = Len(events) - 1
      /\ \A k \in 1..(i - 1) : events'[k] = events[k]
      /\ \A k \in i..(Len(events) - 1) : events'[k] = events[k + 1]
  <2> DEFINE a == SubSeq(events, 1, i - 1)
             b == SubSeq(events, i + 1, Len(events))
             n == Len(events)
  <2>1. /\ a \in Seq(Event) /\ b \in Seq(Event) /\ n \in Nat /\ i \in 2..n
        /\ Len(a) = i - 1 /\ Len(b) = n - i /\ events' = a \o b
        /\ \A k \in 1..(i - 1) : a[k] = events[k]
        /\ \A k \in 1..(n - i) : b[k] = events[i + k]
    BY <1>1, <1>2, <1>3, <1>4
  <2> HIDE DEF a, b, n
  <2>5. /\ a \o b \in Seq(Event) /\ Len(a \o b) = Len(a) + Len(b)
        /\ \A k \in 1..(Len(a) + Len(b)) : (a \o b)[k] = IF k <= Len(a) THEN a[k] ELSE b[k - Len(a)]
    BY <2>1, ConcatProperties
  <2>6. Len(a) + Len(b) = n - 1
    BY <2>1
  <2>2. /\ events' \in Seq(Event) /\ Len(events') = n - 1
        /\ \A k \in 1..(n - 1) : events'[k] = IF k <= i - 1 THEN a[k] ELSE b[k - (i - 1)]
    BY <2>1, <2>5, <2>6
  <2>3. \A k \in 1..(i - 1) : events'[k] = events[k]
    BY <2>1, <2>2
  <2>4. \A k \in i..(n - 1) : events'[k] = events[k + 1]
    <3> SUFFICES ASSUME NEW k \in i..(n - 1)
                 PROVE  events'[k] = events[k + 1]
      OBVIOUS
    <3>0. PICK m \in Int : m = k - (i - 1)
      BY <2>1
    <3>1. /\ k \in 1..(n - 1) /\ ~(k <= i - 1) /\ m \in 1..(n - i) /\ i + m = k + 1
      <4>1. k \in Int /\ i \in Int /\ n \in Int /\ 2 <= i /\ i <= k /\ k <= n - 1
        BY <2>1
      <4> QED
        BY <3>0, <4>1
    <3>2. events'[k] = b[m]
      BY <2>2, <3>0, <3>1
    <3> QED
      BY <2>1, <3>1, <3>2
  <2> QED
    BY <2>2, <2>3, <2>4 DEF n
<1> QED
  BY <1>5

LEMMA HandleEventLateKeeps ==
  ASSUME SubscriptionAssumption, Inv, NEW i \in DOMAIN events, HandleEventLate(i)
  PROVE  Inv'
<1> DEFINE e == events[i]
<1>1. /\ events \in Seq(Event) /\ e \in Event /\ EventOK(e) /\ Apply(e)
      /\ i \in 2..Len(events) /\ Len(events) \in Nat
      /\ UNCHANGED <<stripe, request, requests, changes>>
      /\ faults' \in 0..MaxFaults /\ strayed' = strayed \cup {Owner(e.sub)}
  BY DEF HandleEventLate, Fault, Inv, TypeOK, SubscriptionAssumption, EventsOK
<1>2. strayed' \subseteq Tutors
  BY <1>1, OwnerTyped DEF EventOK, Inv, TypeOK
<1>3. /\ events' \in Seq(Event) /\ Len(events') = Len(events) - 1
      /\ \A k \in 1..(i - 1) : events'[k] = events[k]
      /\ \A k \in i..(Len(events) - 1) : events'[k] = events[k + 1]
  <2>1. events' = RemoveAt(events, i)
    BY DEF HandleEventLate
  <2> QED
    BY <1>1, <2>1, RemovedFacts
<1>4. \A k \in DOMAIN events' : \E j \in DOMAIN events : events'[k] = events[j]
  <2> SUFFICES ASSUME NEW k \in DOMAIN events'
               PROVE  \E j \in DOMAIN events : events'[k] = events[j]
    OBVIOUS
  <2>1. k \in 1..(Len(events) - 1) /\ DOMAIN events = 1..Len(events)
    BY <1>1, <1>3
  <2>2. CASE k \in 1..(i - 1)
    BY <1>1, <1>3, <2>1, <2>2
  <2>3. CASE k \in i..(Len(events) - 1)
    <3>1. k + 1 \in DOMAIN events /\ events'[k] = events[k + 1]
      BY <1>1, <1>3, <2>1, <2>3
    <3> QED
      BY <3>1
  <2> QED
    BY <1>1, <2>1, <2>2, <2>3
<1> QED
  BY <1>1, <1>2, <1>3, <1>4, AppliedKeeps DEF Inv, TypeOK

LEMMA EventFailsKeeps ==
  ASSUME SubscriptionAssumption, Inv, EventFails
  PROVE  Inv'
<1>1. /\ events \in Seq(Event) /\ events # <<>>
      /\ UNCHANGED <<record, customers, subs, paid, request, requests, changes>>
      /\ faults' \in 0..MaxFaults
      /\ events' \in {events, Tail(events)}
      /\ strayed' = strayed \/ strayed' = strayed \cup {Owner(Head(events).sub)}
  BY DEF EventFails, Fault, Inv, TypeOK, SubscriptionAssumption, stripe
<1>2. /\ Head(events) \in Event /\ EventOK(Head(events))
      /\ events' \in Seq(Event)
      /\ \A i \in DOMAIN events' : \E j \in DOMAIN events : events'[i] = events[j]
  BY <1>1, TailFacts DEF Inv, EventsOK
<1>3. strayed' \subseteq Tutors
  BY <1>1, <1>2, OwnerTyped DEF EventOK, Inv, TypeOK
<1>4. TypeOK'
  BY <1>1, <1>2, <1>3 DEF Inv, TypeOK
<1>5. Grows /\ RowsOK'
  BY <1>1 DEF Grows, Inv, RowsOK, RecordOK, SubOK, Has, Owner
<1>6. EventsOK'
  BY <1>2, <1>5, EventsKept
<1>7. RequestsOK'
  BY <1>1 DEF Inv, RequestsOK, RequestOK, Has, Owner
<1> QED
  BY <1>4, <1>5, <1>6, <1>7 DEF Inv

\* Stripe changes a subscription by itself.
LEMMA StripeKeeps ==
  ASSUME SubscriptionAssumption, Inv, NEW s \in DOMAIN subs, NEW state \in Sub,
         state.customer = subs[s].customer, subs' = [subs EXCEPT ![s] = state],
         record' = record, customers' = customers, request' = request, strayed' = strayed,
         requests' = requests, faults' = faults,
         changes' \in 0..MaxChanges,
         paid \subseteq paid', paid' \subseteq DOMAIN subs, state.status = "active" => s \in paid',
         events' \in Seq(Event),
         \A i \in DOMAIN events' : \/ \E j \in DOMAIN events : events'[i] = events[j]
                                   \/ events'[i].sub = s /\ events'[i].status = state.status
  PROVE  Inv'
<1>1. Grows /\ subs' \in Seq(Sub) /\ paid' \subseteq DOMAIN subs' /\ RowsOK' /\ EventsOK'
  BY SubChanges
<1>2. RequestsOK'
  <2>1. {} \in SUBSET Handlers /\ \A g \in Handlers \ {} : request'[g] = request[g]
    OBVIOUS
  <2> QED
    BY <1>1, <2>1, RequestsKept
<1>3. TypeOK'
  BY <1>1 DEF Inv, TypeOK
<1> QED
  BY <1>1, <1>2, <1>3 DEF Inv

LEMMA ByStripeKeeps ==
  ASSUME SubscriptionAssumption, Inv, NEW s \in DOMAIN subs, NEW from, NEW to \in Statuses,
         ByStripe(s, from, to),
         paid \subseteq paid', paid' \subseteq DOMAIN subs, to = "active" => s \in paid'
  PROVE  Inv'
<1> DEFINE state == [subs[s] EXCEPT !.status = to]
<1>1. subs[s] \in Sub /\ s \in Nat /\ events \in Seq(Event)
  BY DEF Inv, TypeOK
<1>2. state \in Sub /\ state.customer = subs[s].customer /\ state.status = to
  BY <1>1 DEF Sub
<1>3. subs' = [subs EXCEPT ![s] = state] /\ events' = Emit(s, state)
      /\ changes < MaxChanges /\ changes' = changes + 1
      /\ UNCHANGED <<record, customers, request, strayed, requests, faults>>
  BY DEF ByStripe, Change
<1> HIDE DEF state
<1>4. /\ events' \in Seq(Event)
      /\ \A i \in DOMAIN events' : \/ \E j \in DOMAIN events : events'[i] = events[j]
                                   \/ events'[i].sub = s /\ events'[i].status = state.status
  BY <1>1, <1>2, <1>3, Emitted
<1> QED
  <2>1. /\ SubscriptionAssumption /\ Inv /\ s \in DOMAIN subs /\ state \in Sub
        /\ state.customer = subs[s].customer /\ subs' = [subs EXCEPT ![s] = state]
    BY <1>2, <1>3
  <2>2. /\ record' = record /\ customers' = customers /\ request' = request
        /\ strayed' = strayed /\ requests' = requests /\ faults' = faults
    BY <1>3
  <2>3. /\ changes' \in 0..MaxChanges /\ paid \subseteq paid' /\ paid' \subseteq DOMAIN subs
        /\ state.status = "active" => s \in paid'
    BY <1>2, <1>3 DEF Inv, TypeOK, SubscriptionAssumption
  <2> QED
    BY ONLY <1>4, <2>1, <2>2, <2>3, StripeKeeps

LEMMA InvoicesKeep ==
  ASSUME SubscriptionAssumption, Inv, NEW s \in DOMAIN subs,
         InvoicePaid(s) \/ InvoiceFails(s) \/ PeriodEnds(s)
  PROVE  Inv'
<1>1. paid \subseteq DOMAIN subs
  BY DEF Inv, TypeOK
<1>2. {"active", "past_due", "ended"} \subseteq Statuses
  BY DEF Statuses
<1>3. CASE InvoicePaid(s)
  BY <1>1, <1>2, <1>3, ByStripeKeeps DEF InvoicePaid
<1>4. CASE InvoiceFails(s)
  BY <1>1, <1>2, <1>4, ByStripeKeeps DEF InvoiceFails
<1>5. CASE PeriodEnds(s)
  BY <1>1, <1>2, <1>5, ByStripeKeeps DEF PeriodEnds
<1> QED
  BY <1>3, <1>4, <1>5

LEMMA ExpiresKeeps ==
  ASSUME SubscriptionAssumption, Inv, NEW s \in DOMAIN subs, Expires(s)
  PROVE  Inv'
<1> DEFINE state == [subs[s] EXCEPT !.status = "ended"]
           e == [sub |-> s, deleted |-> FALSE, status |-> "ended", cancelling |-> subs[s].cancelling]
<1>1. subs[s] \in Sub /\ s \in Nat /\ events \in Seq(Event) /\ paid \subseteq DOMAIN subs
  BY DEF Inv, TypeOK
<1>2. state \in Sub /\ state.customer = subs[s].customer /\ state.status = "ended"
  BY <1>1 DEF Sub, Statuses
<1>3. e \in Event /\ e.sub = s /\ e.status = "ended"
  BY <1>1 DEF Sub, Event, Statuses
<1>4. /\ subs' = [subs EXCEPT ![s] = state] /\ events' = Append(events, e)
      /\ changes < MaxChanges /\ changes' = changes + 1
      /\ UNCHANGED <<record, customers, paid, request, strayed, requests, faults>>
  BY DEF Expires
<1> HIDE DEF state, e
<1>5. /\ events' \in Seq(Event) /\ DOMAIN events' = DOMAIN events \cup {Len(events) + 1}
      /\ events'[Len(events) + 1] = e /\ \A i \in DOMAIN events : events'[i] = events[i]
  BY <1>1, <1>3, <1>4, AppendFacts
<1>6. \A i \in DOMAIN events' : \/ \E j \in DOMAIN events : events'[i] = events[j]
                                \/ events'[i].sub = s /\ events'[i].status = state.status
  BY <1>2, <1>3, <1>5
<1> QED
  <2>1. /\ SubscriptionAssumption /\ Inv /\ s \in DOMAIN subs /\ state \in Sub
        /\ state.customer = subs[s].customer /\ subs' = [subs EXCEPT ![s] = state]
    BY <1>2, <1>4
  <2>2. /\ record' = record /\ customers' = customers /\ request' = request
        /\ strayed' = strayed /\ requests' = requests /\ faults' = faults
    BY <1>4
  <2>3. /\ changes' \in 0..MaxChanges /\ paid \subseteq paid' /\ paid' \subseteq DOMAIN subs
        /\ state.status # "active"
    BY <1>1, <1>2, <1>4 DEF Inv, TypeOK, SubscriptionAssumption
  <2> QED
    BY ONLY <1>5, <1>6, <2>1, <2>2, <2>3, StripeKeeps

LEMMA RestartKeeps ==
  ASSUME SubscriptionAssumption, Inv, Restart
  PROVE  Inv'
<1>1. \A g \in Handlers : At(g, "stripe") => request[g].tutor \in Tutors
  BY DEF Inv, RequestsOK, RequestOK, At
<1>2. strayed' \subseteq Tutors /\ faults' \in 0..MaxFaults
  BY <1>1 DEF Restart, Inv, TypeOK, SubscriptionAssumption
<1>3. /\ request' \in [Handlers -> Request] /\ \A h \in Handlers : request'[h] = Idle
      /\ UNCHANGED <<record, customers, subs, paid, events, requests, changes>>
  BY IdleTyped DEF Restart, stripe
<1>4. TypeOK'
  BY <1>2, <1>3 DEF Inv, TypeOK
<1>5. RowsOK' /\ EventsOK'
  BY <1>3 DEF Inv, RowsOK, RecordOK, SubOK, EventsOK, EventOK, Has, Owner
<1>6. RequestsOK'
  BY <1>3 DEF RequestsOK, RequestOK, Idle
<1> QED
  BY <1>4, <1>5, <1>6 DEF Inv

LEMMA InitOK == SubscriptionAssumption /\ Init => Inv
<1> SUFFICES ASSUME SubscriptionAssumption, Init
             PROVE  Inv
  OBVIOUS
<1>1. \A t \in Tutors : record[t] = NoRecord
  BY DEF Init
<1>2. TypeOK
  BY IdleTyped DEF Init, TypeOK, SubscriptionAssumption
<1>3. RowsOK /\ EventsOK
  BY <1>1 DEF Init, RowsOK, RecordOK, EventsOK, Has
<1>4. RequestsOK
  BY DEF Init, RequestsOK, RequestOK, Idle
<1> QED
  BY <1>2, <1>3, <1>4 DEF Inv

LEMMA NextKeeps == SubscriptionAssumption /\ Inv /\ [Next]_vars => Inv'
<1> SUFFICES ASSUME SubscriptionAssumption, Inv, [Next]_vars
             PROVE  Inv'
  OBVIOUS
<1>1. CASE UNCHANGED vars
  <2>1. UNCHANGED <<record, customers, subs, paid, events, request, strayed, requests, changes, faults>>
    BY <1>1 DEF vars, stripe, bounds
  <2> QED
    BY <2>1 DEF Inv, TypeOK, RowsOK, RecordOK, SubOK, EventsOK, EventOK, RequestsOK, RequestOK, Has, Owner
<1>2. CASE \E h \in Handlers, t \in Tutors, op \in Ops : Start(h, t, op)
  BY <1>2, StartKeeps
<1>3. ASSUME NEW h \in Handlers, Continue(h) \/ CallFails(h)
      PROVE  Inv'
  BY <1>3, FindRecordKeeps, CreateCustomerKeeps, InsertRecordKeeps, CreateSubscriptionKeeps,
     WriteRecordKeeps, CallStripeKeeps, StripeRefusesKeeps, CallFailsKeeps DEF Continue
<1>4. CASE HandleEvent \/ AnswerLost \/ EventFails
  BY <1>4, HandleEventKeeps, AnswerLostKeeps, EventFailsKeeps
<1>5. CASE \E i \in DOMAIN events : HandleEventLate(i)
  BY <1>5, HandleEventLateKeeps
<1>6. CASE \E s \in DOMAIN subs : InvoicePaid(s) \/ InvoiceFails(s) \/ PeriodEnds(s) \/ Expires(s)
  BY <1>6, InvoicesKeep, ExpiresKeeps
<1>7. CASE Restart
  BY <1>7, RestartKeeps
<1> QED
  BY <1>1, <1>2, <1>3, <1>4, <1>5, <1>6, <1>7 DEF Next

LEMMA Invariance == Spec => []Inv
<1>1. Init => Inv
  BY InitOK, SubscriptionAssumption
<1>2. Inv /\ [Next]_vars => Inv'
  BY NextKeeps, SubscriptionAssumption
<1> QED
  BY <1>1, <1>2, PTL DEF Spec

-----------------------------------------------------------------------------
(* The record follows Stripe.  A tutor who did not stray has one open      *)
(* subscription at most.  The last event on its way to the tutor's record  *)
(* tells the state of it; when there is none, the record says that state,  *)
(* or a request that wrote it ahead of Stripe has still to call Stripe.    *)

Mine(e, t) == Owner(e.sub) = t
LastOf(i, t) == Mine(events[i], t) /\ \A j \in DOMAIN events : i < j => ~Mine(events[j], t)
NoneOf(t) == \A i \in DOMAIN events : ~Mine(events[i], t)

Tells(e, t) ==
  /\ OpenOf(t) = {} => e.deleted \/ e.status # "active"
  /\ \A s \in OpenOf(t) : /\ e.sub = s /\ ~e.deleted
                          /\ e.status = subs[s].status /\ e.cancelling = subs[s].cancelling

Ahead(t, op) == \E h \in Handlers : At(h, "stripe") /\ request[h].tutor = t /\ request[h].op = op

SaysStatus(t, s) == record[t].sub = s /\ (record[t].active <=> subs[s].status = "active")
SaysCancelled(t, s) ==
  \/ record[t].cancelled = subs[s].cancelling
  \/ record[t].cancelled = TRUE /\ Ahead(t, "cancel")
  \/ record[t].cancelled = FALSE /\ Ahead(t, "reinstate")
Says(t, s) == Ahead(t, "instant") \/ (SaysStatus(t, s) /\ SaysCancelled(t, s))
RecordSays(t) == (OpenOf(t) = {} => ~record[t].active) /\ \A s \in OpenOf(t) : Says(t, s)

FollowOK(t) ==
  /\ \A s, r \in OpenOf(t) : s = r
  /\ \A i \in DOMAIN events : LastOf(i, t) => Tells(events[i], t)
  /\ Has(t) /\ NoneOf(t) => RecordSays(t)

CustomersKept == \A c \in DOMAIN customers : customers'[c] = customers[c]

LEMMA OpenSame ==
  ASSUME Inv, NEW t, CustomersKept, UNCHANGED subs
  PROVE  /\ OpenOf(t)' = OpenOf(t)
         /\ \A i \in DOMAIN events : Mine(events[i], t) <=> customers'[subs'[events[i].sub].customer] = t
<1>1. \A s \in DOMAIN subs : customers'[subs[s].customer] = Owner(s)
  BY DEF Inv, RowsOK, SubOK, CustomersKept, Owner
<1>2. OpenOf(t)' = OpenOf(t)
  BY <1>1 DEF OpenOf, Open, Owner
<1> QED
  BY <1>1, <1>2 DEF Mine, Inv, EventsOK, EventOK

\* No event comes or goes.
LEMMA FollowSame ==
  ASSUME Inv, NEW t, FollowOK(t), CustomersKept, UNCHANGED <<events, subs>>,
         Has(t)' /\ NoneOf(t) => RecordSays(t)'
  PROVE  FollowOK(t)'
<1>1. /\ OpenOf(t)' = OpenOf(t)
      /\ \A i \in DOMAIN events : Mine(events[i], t)' <=> Mine(events[i], t)
  BY OpenSame DEF Mine, Owner
<1>2. /\ NoneOf(t)' <=> NoneOf(t)
      /\ \A i \in DOMAIN events : LastOf(i, t)' <=> LastOf(i, t)
  BY <1>1 DEF NoneOf, LastOf, Mine, Owner
<1>3. \A i \in DOMAIN events : Tells(events[i], t) => Tells(events[i], t)'
  BY <1>1 DEF Tells
<1> QED
  BY <1>1, <1>2, <1>3 DEF FollowOK

LEMMA SaysKept ==
  ASSUME NEW t, NEW s, subs'[s] = subs[s], record'[t] = record[t],
         \A op \in Calls : Ahead(t, op) => Ahead(t, op)', Says(t, s)
  PROVE  Says(t, s)'
<1>1. /\ Ahead(t, "instant") => Ahead(t, "instant")'
      /\ Ahead(t, "cancel") => Ahead(t, "cancel")'
      /\ Ahead(t, "reinstate") => Ahead(t, "reinstate")'
  BY DEF Calls
<1>2. SaysStatus(t, s) => SaysStatus(t, s)'
  BY DEF SaysStatus
<1>3. SaysCancelled(t, s) => SaysCancelled(t, s)'
  BY <1>1 DEF SaysCancelled
<1> QED
  BY <1>1, <1>2, <1>3 DEF Says

LEMMA AheadKept ==
  ASSUME TypeOK, NEW h \in Handlers, NEW r, Set(h, r), NEW t, NEW op,
         ~(At(h, "stripe") /\ request[h].tutor = t), Ahead(t, op)
  PROVE  Ahead(t, op)'
<1>1. \A g \in Handlers \ {h} : request'[g] = request[g]
  BY DEF TypeOK, Set
<1>2. PICK g \in Handlers : At(g, "stripe") /\ request[g].tutor = t /\ request[g].op = op
  BY DEF Ahead
<1>3. request'[g] = request[g]
  BY <1>1, <1>2
<1> QED
  BY <1>2, <1>3 DEF Ahead, At

\* A step of one request that does not call Stripe for t, nor writes its record.
LEMMA FollowQuiet ==
  ASSUME Inv, NEW h \in Handlers, NEW r, Set(h, r), NEW t, FollowOK(t), CustomersKept,
         UNCHANGED <<events, subs>>, record'[t] = record[t],
         ~(At(h, "stripe") /\ request[h].tutor = t)
  PROVE  FollowOK(t)'
<1>1. \A op : Ahead(t, op) => Ahead(t, op)'
  BY AheadKept DEF Inv
<1>2. OpenOf(t)' = OpenOf(t)
  BY OpenSame
<1>3. ASSUME Has(t)', NoneOf(t) PROVE RecordSays(t)'
  <2>1. RecordSays(t)
    BY <1>3 DEF FollowOK, Has
  <2>2. \A s \in OpenOf(t) : Says(t, s)'
    BY <1>1, <2>1, SaysKept DEF RecordSays
  <2> QED
    BY <1>2, <2>1, <2>2 DEF RecordSays
<1> QED
  BY <1>3, FollowSame

LEMMA NoRecordNoSub ==
  ASSUME Inv, NEW t, ~Has(t)
  PROVE  OpenOf(t) = {}
BY DEF Inv, RowsOK, SubOK, OpenOf, Owner

LEMMA WithRecordSets ==
  ASSUME NEW h \in Handlers, NEW rec, request[h].op \in Ops, WithRecord(h, rec)
  PROVE  \E r : Set(h, r)
<1> DEFINE p == request[h]
           held == [p EXCEPT !.customer = rec.customer, !.sub = rec.sub]
<1>1. CASE p.op = "view"
  BY <1>1 DEF WithRecord, Settle
<1>2. CASE p.op = "create"
  <2>1. Set(h, [held EXCEPT !.pc = "subscribe"])
    BY <1>2 DEF WithRecord
  <2> QED
    BY <2>1
<1>3. CASE p.op \in {"cancel", "instant", "reinstate"}
  <2>1. Set(h, [held EXCEPT !.pc = "write"])
    BY <1>3 DEF WithRecord
  <2> QED
    BY <2>1
<1>4. CASE p.op = "adminReinstate"
  <2>1. Settle(h) \/ Set(h, [p EXCEPT !.pc = "find", !.op = "reinstate"])
    BY <1>4 DEF WithRecord
  <2> QED
    BY <2>1 DEF Settle
<1> QED
  BY <1>1, <1>2, <1>3, <1>4 DEF Ops

LEMMA FollowInsert ==
  ASSUME SubscriptionAssumption, Inv, NEW h \in Handlers, InsertRecord(h), NEW t \in Tutors, FollowOK(t)
  PROVE  FollowOK(t)'
<1> DEFINE p == request[h]
           new == [customer |-> p.customer, sub |-> 0, active |-> FALSE, cancelled |-> FALSE]
<1>1. At(h, "insert") /\ ~At(h, "stripe") /\ CustomersKept /\ UNCHANGED <<events, subs>>
  BY DEF InsertRecord, At, CustomersKept, stripe
<1>2. \E r : Set(h, r)
  <2>1. Settle(h) \/ WithRecord(h, new)
    BY DEF InsertRecord
  <2>2. request[h].op \in Ops
    BY DEF Inv, TypeOK, Request
  <2> QED
    BY <2>1, <2>2, WithRecordSets DEF Settle
<1>3. CASE record'[t] = record[t]
  BY <1>1, <1>2, <1>3, FollowQuiet
<1>4. CASE record'[t] # record[t]
  <2>1. record' = [record EXCEPT ![p.tutor] = new] /\ record[p.tutor] = NoRecord
    BY <1>4 DEF InsertRecord
  <2>2. ~Has(t) /\ record'[t] = new
    BY <1>4, <2>1 DEF Has, Inv, TypeOK
  <2>3. OpenOf(t)' = {}
    BY <1>1, <2>2, NoRecordNoSub, OpenSame
  <2>4. ~new.active
    BY Zenon
  <2> HIDE DEF new
  <2>5. RecordSays(t)'
    BY <2>2, <2>3, <2>4 DEF RecordSays
  <2> QED
    BY <1>1, <2>5, FollowSame
<1> QED
  BY <1>3, <1>4

LEMMA FollowWrite ==
  ASSUME SubscriptionAssumption, Inv, NEW h \in Handlers, WriteRecord(h), NEW t \in Tutors, FollowOK(t)
  PROVE  FollowOK(t)'
<1>q. PICK q \in Request : q = request[h] /\ q.pc = "write" /\ RequestOK(q)
  BY DEF WriteRecord, At, Inv, TypeOK, RequestsOK
<1>1. /\ q.op \in Calls /\ Has(q.tutor) /\ q.tutor \in Tutors /\ ~At(h, "stripe") /\ CustomersKept
      /\ UNCHANGED <<events, subs>> /\ record[q.tutor] \in Record
  BY <1>q DEF RequestOK, WriteRecord, At, CustomersKept, stripe, Inv, TypeOK, Has
<1>2. PICK r : r = [q EXCEPT !.pc = "stripe"]
  OBVIOUS
<1>3. Set(h, r) /\ r.pc = "stripe" /\ r.tutor = q.tutor /\ r.op = q.op
  BY <1>q, <1>2 DEF WriteRecord, Goto, Request
<1>4. request'[h] = r
  BY <1>3 DEF Set, Inv, TypeOK
<1>5. CASE t # q.tutor
  <2>1. record'[t] = record[t]
    BY <1>q, <1>5 DEF WriteRecord
  <2> QED
    BY <1>1, <1>3, <2>1, FollowQuiet
<1>6. CASE t = q.tutor
  <2>1. \A op : Ahead(t, op) => Ahead(t, op)'
    BY <1>1, <1>3, AheadKept DEF Inv
  <2>2. Ahead(t, q.op)'
    BY <1>3, <1>4, <1>6 DEF Ahead, At
  <2>3. OpenOf(t)' = OpenOf(t)
    BY <1>1, OpenSame
  <2>4. PICK rec \in Record : rec = record[t]
    BY <1>1, <1>6
  <2>5. CASE q.op = "instant"
    <3> DEFINE row == [rec EXCEPT !.cancelled = FALSE, !.sub = 0, !.active = FALSE]
    <3>1. record'[t] = row
      BY <1>q, <1>6, <2>4, <2>5 DEF WriteRecord, Inv, TypeOK
    <3>2. ~row.active
      BY <2>4 DEF Record
    <3> HIDE DEF row
    <3>3. RecordSays(t)'
      BY <2>2, <2>5, <3>1, <3>2 DEF RecordSays, Says
    <3> QED
      BY <1>1, <3>3, FollowSame
  <2>6. CASE q.op \in {"cancel", "reinstate"}
    <3>1. PICK b \in BOOLEAN : \/ b = TRUE /\ q.op = "cancel"
                               \/ b = FALSE /\ q.op = "reinstate"
      <4>1. CASE q.op = "cancel"
        <5> WITNESS TRUE \in BOOLEAN
        <5> QED
          BY <4>1
      <4>2. CASE q.op = "reinstate"
        <5> WITNESS FALSE \in BOOLEAN
        <5> QED
          BY <4>2
      <4> QED
        BY <2>6, <4>1, <4>2
    <3> DEFINE row == [rec EXCEPT !.cancelled = b]
    <3>2. record'[t] = row
      BY <1>q, <1>6, <2>4, <2>6, <3>1 DEF WriteRecord, Inv, TypeOK
    <3>3. row.cancelled = b /\ row.sub = rec.sub /\ row.active = rec.active
      BY <2>4 DEF Record
    <3> HIDE DEF row
    <3>4. ASSUME NoneOf(t), NEW s \in OpenOf(t), ~Ahead(t, "instant")
          PROVE  Says(t, s)'
      <4>1. SaysStatus(t, s)
        BY <1>1, <1>6, <3>4 DEF FollowOK, RecordSays, Says
      <4>2. SaysStatus(t, s)'
        BY <1>1, <2>4, <3>2, <3>3, <4>1 DEF SaysStatus
      <4>3. SaysCancelled(t, s)'
        BY <2>2, <3>1, <3>2, <3>3 DEF SaysCancelled
      <4> QED
        BY <4>2, <4>3 DEF Says
    <3>5. ASSUME NoneOf(t), OpenOf(t) = {} PROVE ~record'[t].active
      BY <1>1, <1>6, <2>4, <3>2, <3>3, <3>5 DEF FollowOK, RecordSays
    <3>6. ASSUME NoneOf(t) PROVE RecordSays(t)'
      <4>1. \A s \in OpenOf(t) : Says(t, s)'
        BY <2>1, <3>4, <3>6 DEF Says
      <4> QED
        BY <2>3, <3>5, <3>6, <4>1 DEF RecordSays
    <3> QED
      BY <1>1, <3>6, FollowSame
  <2> QED
    BY <1>1, <2>5, <2>6 DEF Calls
<1> QED
  BY <1>5, <1>6

\* A request that cannot reach Stripe's subscription leaves none open, or its tutor strays.
LEMMA FollowRefused ==
  ASSUME Inv, NEW h \in Handlers, StripeRefuses(h) \/ CallFails(h),
         NEW t \in Tutors, t \notin strayed', FollowOK(t)
  PROVE  FollowOK(t)'
<1>1. Set(h, Idle) /\ CustomersKept /\ UNCHANGED <<record, events, subs>>
  BY DEF StripeRefuses, CallFails, Settle, CustomersKept, stripe
<1>2. CASE ~(At(h, "stripe") /\ request[h].tutor = t)
  BY <1>1, <1>2, FollowQuiet
<1>3. CASE At(h, "stripe") /\ request[h].tutor = t
  <2>1. OpenOf(t) = {}
    BY <1>3 DEF StripeRefuses, CallFails
  <2>2. Has(t)' /\ NoneOf(t) => RecordSays(t)'
    <3>1. OpenOf(t)' = {}
      BY <1>1, <2>1, OpenSame
    <3> QED
      BY <1>1, <2>1, <3>1 DEF FollowOK, RecordSays, Has
  <2> QED
    BY <1>1, <2>2, FollowSame
<1> QED
  BY <1>2, <1>3

LEMMA FollowRestart ==
  ASSUME Inv, Restart, NEW t \in Tutors, t \notin strayed', FollowOK(t)
  PROVE  FollowOK(t)'
<1>1. CustomersKept /\ UNCHANGED <<record, events, subs>>
  BY DEF Restart, CustomersKept, stripe
<1>2. \A op : ~Ahead(t, op)
  BY DEF Restart, Ahead
<1>3. OpenOf(t)' = OpenOf(t)
  BY <1>1, OpenSame
<1>4. ASSUME Has(t)', NoneOf(t) PROVE RecordSays(t)'
  <2>1. RecordSays(t)
    BY <1>1, <1>4 DEF FollowOK, Has
  <2>2. \A s \in OpenOf(t) : Says(t, s)'
    BY <1>1, <1>2, <2>1, SaysKept DEF RecordSays
  <2> QED
    BY <1>1, <1>3, <2>1, <2>2 DEF RecordSays
<1> QED
  BY <1>1, <1>4, FollowSame

\* Stripe makes a subscription, or changes one, and an event e tells its state.
LEMMA FollowChange ==
  ASSUME Inv, NEW s \in Nat \ {0}, NEW e \in Event, e.sub = s, events' = Append(events, e),
         DOMAIN subs' = DOMAIN subs \cup {s}, \A z \in DOMAIN subs : z # s => subs'[z] = subs[z],
         UNCHANGED customers, NEW t \in Tutors, record'[t] = record[t], FollowOK(t),
         s \in DOMAIN subs => subs'[s].customer = subs[s].customer,
         customers[subs'[s].customer] = t =>
           /\ \A z \in OpenOf(t) : z = s
           /\ subs'[s].status = "ended" => e.deleted \/ e.status # "active"
           /\ subs'[s].status # "ended" => /\ ~e.deleted /\ e.status = subs'[s].status
                                           /\ e.cancelling = subs'[s].cancelling,
         customers[subs'[s].customer] # t => \A op \in Calls : Ahead(t, op) => Ahead(t, op)'
  PROVE  FollowOK(t)'
<1> DEFINE u == customers[subs'[s].customer]
<1>1. PICK n \in Nat : n = Len(events) + 1
  BY DEF Inv, TypeOK
<1>2. /\ DOMAIN events' = DOMAIN events \cup {n} /\ events'[n] = e
      /\ \A i \in DOMAIN events : events'[i] = events[i] /\ i < n
  <2>1. events \in Seq(Event) /\ Len(events) \in Nat
    BY DEF Inv, TypeOK
  <2>2. \A i \in DOMAIN events : i < n
    BY <1>1, <2>1
  <2> QED
    BY <1>1, <2>1, <2>2, AppendFacts
<1>3. \A z \in DOMAIN subs : customers[subs'[z].customer] = Owner(z)
  BY DEF Owner
<1>4. \A i \in DOMAIN events : events[i].sub \in DOMAIN subs
  BY DEF Inv, EventsOK, EventOK
<1>5. \A i \in DOMAIN events : Mine(events[i], t)' <=> Mine(events[i], t)
  <2> SUFFICES ASSUME NEW i \in DOMAIN events
               PROVE  (customers[subs'[events'[i].sub].customer] = t) <=> (Owner(events[i].sub) = t)
    BY DEF Mine, Owner
  <2>1. events'[i] = events[i] /\ events[i].sub \in DOMAIN subs
    BY <1>2, <1>4
  <2>2. customers[subs'[events[i].sub].customer] = Owner(events[i].sub)
    BY <1>3, <2>1
  <2> QED
    BY <2>1, <2>2
<1>6. Mine(e, t)' <=> u = t
  BY DEF Mine, Owner
<1>7. CASE u = t
  <2>1. OpenOf(t)' \subseteq {s}
    <3>1. ASSUME NEW z \in OpenOf(t)', z # s PROVE FALSE
      <4>1. z \in DOMAIN subs /\ subs'[z] = subs[z] /\ Owner(z) = t
        BY <1>3, <3>1 DEF OpenOf, Owner
      <4>2. z \in OpenOf(t)
        BY <3>1, <4>1 DEF OpenOf, Open
      <4> QED
        BY <1>7, <3>1, <4>2
    <3> QED
      BY <3>1
  <2>2. OpenOf(t)' = {} <=> subs'[s].status = "ended"
    BY <1>7, <2>1 DEF OpenOf, Open, Owner
  <2>3. Tells(e, t)'
    <3>1. OpenOf(t)' = {} => e.deleted \/ e.status # "active"
      BY <1>7, <2>2
    <3>2. ASSUME NEW z \in OpenOf(t)'
          PROVE  /\ e.sub = z /\ ~e.deleted
                 /\ e.status = subs'[z].status /\ e.cancelling = subs'[z].cancelling
      <4>1. z = s /\ subs'[s].status # "ended"
        BY <2>1, <2>2, <3>2
      <4> QED
        BY <1>7, <4>1
    <3> QED
      BY <3>1, <3>2 DEF Tells
  <2>4. ASSUME NEW i \in DOMAIN events', LastOf(i, t)' PROVE i = n
    BY <1>2, <1>6, <1>7, <2>4 DEF LastOf, Mine, Owner
  <2>5. ~NoneOf(t)'
    BY <1>2, <1>6, <1>7 DEF NoneOf, Mine, Owner
  <2>6. \A i \in DOMAIN events' : LastOf(i, t)' => Tells(events[i], t)'
    BY <1>2, <2>3, <2>4 DEF Tells
  <2> QED
    BY <2>1, <2>5, <2>6 DEF FollowOK
<1>8. CASE u # t
  <2>1. s \in DOMAIN subs => Owner(s) # t
    BY <1>8 DEF Owner
  <2>2. /\ OpenOf(t)' = OpenOf(t) /\ \A z \in OpenOf(t) : subs'[z] = subs[z]
    <3>1. ASSUME NEW z \in OpenOf(t) PROVE z \in OpenOf(t)' /\ subs'[z] = subs[z]
      BY <1>3, <2>1 DEF OpenOf, Open, Owner
    <3>2. ASSUME NEW z \in OpenOf(t)' PROVE z \in OpenOf(t)
      <4>1. z # s /\ z \in DOMAIN subs
        BY <1>8, <3>2 DEF OpenOf, Owner
      <4> QED
        BY <1>3, <3>2, <4>1 DEF OpenOf, Open, Owner
    <3> QED
      BY <3>1, <3>2
  <2>3. ASSUME NEW i \in DOMAIN events', LastOf(i, t)'
        PROVE  i \in DOMAIN events /\ LastOf(i, t)
    <3>1. i # n
      BY <1>2, <1>6, <1>8, <2>3 DEF LastOf, Mine, Owner
    <3>2. i \in DOMAIN events /\ Mine(events[i], t)
      BY <1>2, <1>5, <2>3, <3>1 DEF LastOf, Mine, Owner
    <3>3. \A j \in DOMAIN events : i < j => ~Mine(events[j], t)
      BY <1>2, <1>5, <2>3 DEF LastOf, Mine, Owner
    <3> QED
      BY <3>2, <3>3 DEF LastOf
  <2>4. ASSUME NEW i \in DOMAIN events, Tells(events[i], t) PROVE Tells(events[i], t)'
    <3>1. events'[i] = events[i]
      BY <1>2
    <3> QED
      BY <2>2, <2>4, <3>1 DEF Tells
  <2>5. ASSUME Has(t)', NoneOf(t)' PROVE RecordSays(t)'
    <3>1. NoneOf(t)
      BY <1>2, <1>5, <2>5 DEF NoneOf, Mine, Owner
    <3>2. RecordSays(t)
      BY <2>5, <3>1 DEF FollowOK, Has
    <3>3. \A z \in OpenOf(t) : Says(t, z)'
      BY <1>8, <2>2, <3>2, SaysKept DEF RecordSays
    <3> QED
      BY <2>2, <3>2, <3>3 DEF RecordSays
  <2> QED
    BY <2>2, <2>3, <2>4, <2>5 DEF FollowOK
<1> QED
  BY <1>7, <1>8

\* What Emit appends.
LEMMA EmitEvent ==
  ASSUME NEW s \in Nat, NEW state \in Sub
  PROVE  \E e \in Event : /\ Emit(s, state) = Append(events, e) /\ e.sub = s
                          /\ e.deleted <=> state.status = "ended"
                          /\ e.status = state.status /\ e.cancelling = state.cancelling
<1>1. \E b \in BOOLEAN : b = (state.status = "ended")
  <2> WITNESS (state.status = "ended") \in BOOLEAN
  <2> QED
    OBVIOUS
<1>2. PICK b \in BOOLEAN : b = (state.status = "ended")
  BY <1>1
<1> DEFINE e == [sub |-> s, deleted |-> b, status |-> state.status, cancelling |-> state.cancelling]
<1>3. e = [sub |-> s, deleted |-> state.status = "ended", status |-> state.status,
           cancelling |-> state.cancelling]
  BY <1>2, Zenon
<1>4. /\ e \in Event /\ e.sub = s /\ e.status = state.status /\ e.cancelling = state.cancelling
      /\ e.deleted = b
  BY DEF Event, Sub
<1>5. Emit(s, state) = Append(events, e)
  BY <1>3, Zenon DEF Emit
<1> HIDE DEF e
<1> QED
  BY <1>2, <1>4, <1>5

\* Stripe changes a subscription that exists.
LEMMA FollowState ==
  ASSUME Inv, NEW s \in DOMAIN subs, NEW state \in Sub, Change(s, state),
         state.customer = subs[s].customer, Open(s),
         UNCHANGED <<customers, record>>, NEW t \in Tutors, FollowOK(t),
         Owner(s) # t => \A op \in Calls : Ahead(t, op) => Ahead(t, op)'
  PROVE  FollowOK(t)'
<1>1. /\ subs \in Seq(Sub) /\ s \in Nat \ {0}
      /\ subs' = [subs EXCEPT ![s] = state] /\ events' = Emit(s, state)
  BY DEF Inv, TypeOK, Change, Open
<1>2. /\ DOMAIN subs' = DOMAIN subs \cup {s} /\ subs'[s] = state
      /\ \A z \in DOMAIN subs : z # s => subs'[z] = subs[z]
  BY <1>1
<1>3. PICK e \in Event : /\ events' = Append(events, e) /\ e.sub = s
                         /\ e.deleted <=> state.status = "ended"
                         /\ e.status = state.status /\ e.cancelling = state.cancelling
  BY <1>1, EmitEvent
<1>4. customers[subs'[s].customer] = Owner(s)
  BY <1>2 DEF Owner
<1>5. Owner(s) = t => \A z \in OpenOf(t) : z = s
  BY DEF FollowOK, OpenOf
<1> QED
  BY <1>1, <1>2, <1>3, <1>4, <1>5, FollowChange

LEMMA FollowByStripe ==
  ASSUME Inv, NEW s \in DOMAIN subs, NEW from, NEW to \in Statuses, ByStripe(s, from, to),
         "ended" \notin from, NEW t \in Tutors, FollowOK(t)
  PROVE  FollowOK(t)'
<1>1. PICK now \in Sub : now = subs[s]
  BY DEF Inv, TypeOK
<1>2. PICK state : state = [now EXCEPT !.status = to]
  OBVIOUS
<1>3. state \in Sub /\ state.customer = now.customer
  BY <1>2 DEF Sub
<1>4. Change(s, state) /\ Open(s) /\ UNCHANGED <<customers, record, request>>
  BY <1>1, <1>2 DEF ByStripe, Open, Inv, TypeOK
<1>5. \A op \in Calls : Ahead(t, op) => Ahead(t, op)'
  BY <1>4 DEF Ahead, At
<1> QED
  BY <1>1, <1>3, <1>4, <1>5, FollowState

LEMMA FollowInvoices ==
  ASSUME Inv, NEW s \in DOMAIN subs, InvoicePaid(s) \/ InvoiceFails(s) \/ PeriodEnds(s),
         NEW t \in Tutors, FollowOK(t)
  PROVE  FollowOK(t)'
<1>1. {"active", "past_due", "ended"} \subseteq Statuses
  BY DEF Statuses
<1>2. \/ ByStripe(s, {"incomplete", "past_due"}, "active")
      \/ ByStripe(s, {"active"}, "past_due")
      \/ ByStripe(s, {"active", "past_due"}, "ended")
  BY DEF InvoicePaid, InvoiceFails, PeriodEnds
<1>3. /\ "ended" \notin {"incomplete", "past_due"} /\ "ended" \notin {"active"}
      /\ "ended" \notin {"active", "past_due"}
  OBVIOUS
<1> QED
  BY <1>1, <1>2, <1>3, FollowByStripe

LEMMA FollowExpires ==
  ASSUME Inv, NEW s \in DOMAIN subs, Expires(s), NEW t \in Tutors, FollowOK(t)
  PROVE  FollowOK(t)'
<1>1. PICK now \in Sub : now = subs[s]
  BY DEF Inv, TypeOK
<1>2. /\ s \in Nat \ {0} /\ now.status = "incomplete" /\ subs \in Seq(Sub)
      /\ UNCHANGED <<customers, record, request>>
  BY <1>1 DEF Expires, Inv, TypeOK
<1>3. PICK state : state = [now EXCEPT !.status = "ended"]
  OBVIOUS
<1>4. state.customer = now.customer /\ state.status = "ended" /\ subs' = [subs EXCEPT ![s] = state]
  BY <1>1, <1>3 DEF Expires, Sub
<1>5. PICK e \in Event : /\ events' = Append(events, e) /\ e.sub = s
                         /\ ~e.deleted /\ e.status = "ended"
  <2> DEFINE e == [sub |-> s, deleted |-> FALSE, status |-> "ended", cancelling |-> now.cancelling]
  <2>1. e \in Event /\ e.sub = s /\ e.status = "ended"
    BY <1>2 DEF Event, Sub, Statuses
  <2>2. ~e.deleted
    BY Zenon
  <2>3. events' = Append(events, e)
    BY <1>1 DEF Expires
  <2> HIDE DEF e
  <2> QED
    BY <2>1, <2>2, <2>3
<1>6. /\ DOMAIN subs' = DOMAIN subs \cup {s} /\ subs'[s] = state
      /\ \A z \in DOMAIN subs : z # s => subs'[z] = subs[z]
  BY <1>2, <1>4
<1>7. customers[subs'[s].customer] = t => \A z \in OpenOf(t) : z = s
  <2>1. ASSUME customers[subs'[s].customer] = t PROVE s \in OpenOf(t)
    BY <1>1, <1>2, <1>4, <1>6, <2>1 DEF OpenOf, Open, Owner
  <2> QED
    BY <2>1 DEF FollowOK
<1>8. \A op \in Calls : Ahead(t, op) => Ahead(t, op)'
  BY <1>2 DEF Ahead, At
<1> QED
  BY <1>1, <1>2, <1>4, <1>5, <1>6, <1>7, <1>8, FollowChange

LEMMA FollowCreate ==
  ASSUME Inv, NEW h \in Handlers, CreateSubscription(h), NEW t \in Tutors, t \notin strayed',
         FollowOK(t)
  PROVE  FollowOK(t)'
<1>q. PICK q \in Request : q = request[h] /\ q.pc = "subscribe" /\ RequestOK(q) /\ q.tutor \in Tutors
  BY DEF CreateSubscription, At, Inv, TypeOK, RequestsOK, RequestOK
<1>1. /\ q.customer \in Nat /\ q.customer \in DOMAIN customers /\ customers[q.customer] = q.tutor
      /\ Set(h, Idle) /\ ~At(h, "stripe") /\ subs \in Seq(Sub)
      /\ UNCHANGED <<record, customers>>
  BY <1>q DEF Request, RequestOK, CreateSubscription, Settle, At, Inv, TypeOK, RowsOK, RecordOK
<1>2. PICK n \in Nat : n = Len(subs) + 1
  BY <1>1
<1>3. PICK new : new = [customer |-> q.customer, status |-> "incomplete", cancelling |-> FALSE]
  OBVIOUS
<1>4. new \in Sub /\ new.customer = q.customer /\ new.status = "incomplete"
  BY <1>1, <1>3 DEF Sub, Statuses
<1>5. subs' = Append(subs, new) /\ events' = Emit(n, new)
  BY <1>q, <1>2, <1>3 DEF CreateSubscription
<1>6. /\ n # 0 /\ n \notin DOMAIN subs /\ DOMAIN subs' = DOMAIN subs \cup {n} /\ subs'[n] = new
      /\ \A z \in DOMAIN subs : subs'[z] = subs[z]
  BY <1>1, <1>2, <1>4, <1>5, AppendFacts
<1>7. PICK e \in Event : /\ events' = Append(events, e) /\ e.sub = n
                         /\ e.deleted <=> new.status = "ended"
                         /\ e.status = new.status /\ e.cancelling = new.cancelling
  BY <1>4, <1>5, EmitEvent
<1>8. q.tutor = t => OpenOf(t) = {}
  BY <1>q DEF CreateSubscription
<1>9. \A op \in Calls : Ahead(t, op) => Ahead(t, op)'
  BY <1>1, AheadKept DEF Inv
<1> QED
  BY <1>1, <1>4, <1>6, <1>7, <1>8, <1>9, FollowChange

\* The call that changes nothing: Stripe has what the request wrote.
LEMMA FollowNoChange ==
  ASSUME Inv, NEW h \in Handlers, At(h, "stripe"), Set(h, Idle), request[h].op # "instant",
         UNCHANGED <<record, customers, subs, events>>, Open(request[h].sub),
         subs[request[h].sub].cancelling = (request[h].op = "cancel"),
         NEW t \in Tutors, request[h].tutor = t, FollowOK(t)
  PROVE  FollowOK(t)'
<1>q. PICK q \in Request : q = request[h] /\ RequestOK(q)
  BY DEF Inv, TypeOK, RequestsOK
<1>1. /\ q.op \in {"cancel", "reinstate"} /\ q.sub \in OpenOf(t)
      /\ q.op = "cancel" => subs[q.sub].cancelling = TRUE
      /\ q.op = "reinstate" => subs[q.sub].cancelling = FALSE
  <2>1. q.op \in Calls /\ q.sub \in DOMAIN subs /\ Owner(q.sub) = t
    BY <1>q DEF RequestOK, At, Open
  <2>2. q.op \in {"cancel", "reinstate"} /\ q.sub \in OpenOf(t)
    BY <1>q, <2>1 DEF Calls, OpenOf
  <2>3. subs[q.sub].cancelling = (q.op = "cancel")
    BY <1>q
  <2>4. q.op = "cancel" => subs[q.sub].cancelling = TRUE
    BY <2>3, Zenon
  <2>5. ASSUME q.op = "reinstate" PROVE subs[q.sub].cancelling = FALSE
    <3>1. ~(q.op = "cancel")
      BY <2>5
    <3> QED
      BY <2>3, <3>1, Zenon
  <2> QED
    BY <2>2, <2>4, <2>5
<1>2. \A g \in Handlers \ {h} : request'[g] = request[g]
  BY DEF Set, Inv, TypeOK
<1>3. \A op : op # q.op /\ Ahead(t, op) => Ahead(t, op)'
  BY <1>q, <1>2 DEF Ahead, At
<1>4. CustomersKept
  BY DEF CustomersKept
<1>5. OpenOf(t)' = OpenOf(t)
  BY <1>4, OpenSame
<1>6. ASSUME Has(t)', NoneOf(t) PROVE RecordSays(t)'
  <2>1. RecordSays(t)
    BY <1>6 DEF FollowOK, Has
  <2>2. ASSUME NEW s \in OpenOf(t) PROVE Says(t, s)'
    <3>1. s = q.sub /\ Says(t, s)
      BY <1>1, <2>1, <2>2 DEF FollowOK, RecordSays
    <3>2. CASE Ahead(t, "instant")
      BY <1>q, <1>3, <3>2 DEF Says
    <3>3. CASE ~Ahead(t, "instant")
      <4>1. SaysStatus(t, s) /\ SaysCancelled(t, s)
        BY <3>1, <3>3 DEF Says
      <4>2. SaysStatus(t, s)'
        BY <4>1 DEF SaysStatus
      <4>3. \/ record[t].cancelled = subs[s].cancelling
            \/ record[t].cancelled = TRUE /\ Ahead(t, "cancel")'
            \/ record[t].cancelled = FALSE /\ Ahead(t, "reinstate")'
        BY <1>1, <1>3, <3>1, <4>1 DEF SaysCancelled
      <4>4. SaysCancelled(t, s)'
        BY <4>3 DEF SaysCancelled
      <4> QED
        BY <4>2, <4>4 DEF Says
    <3> QED
      BY <3>2, <3>3
  <2> QED
    BY <1>5, <2>1, <2>2 DEF RecordSays
<1> QED
  BY <1>4, <1>6, FollowSame

LEMMA FollowCall ==
  ASSUME Inv, NEW h \in Handlers, CallStripe(h), NEW t \in Tutors, FollowOK(t)
  PROVE  FollowOK(t)'
<1>q. PICK q \in Request : /\ q = request[h] /\ q.pc = "stripe" /\ RequestOK(q) /\ Open(q.sub)
                           /\ q.op \in Calls /\ q.sub \in DOMAIN subs /\ Owner(q.sub) = q.tutor
  BY DEF CallStripe, At, Inv, TypeOK, RequestsOK, RequestOK, Open
<1>1. /\ At(h, "stripe") /\ Set(h, Idle) /\ CustomersKept /\ UNCHANGED <<record, customers>>
  BY DEF CallStripe, Settle, CustomersKept
<1>2. PICK now \in Sub : now = subs[q.sub]
  BY <1>q DEF Inv, TypeOK
<1>3. \E b \in BOOLEAN : b = (q.op = "cancel")
  <2> WITNESS (q.op = "cancel") \in BOOLEAN
  <2> QED
    OBVIOUS
<1>4. PICK b \in BOOLEAN : b = (q.op = "cancel")
  BY <1>3
<1>5. PICK next : /\ q.op = "instant" => next = [now EXCEPT !.status = "ended"]
                  /\ q.op # "instant" => next = [now EXCEPT !.cancelling = b]
                  /\ IF next = now THEN UNCHANGED <<subs, events>> ELSE Change(q.sub, next)
  <2>1. CASE q.op = "instant"
    <3> DEFINE next == [now EXCEPT !.status = "ended"]
    <3>1. IF next = now THEN UNCHANGED <<subs, events>> ELSE Change(q.sub, next)
      BY <1>q, <1>2, <2>1 DEF CallStripe
    <3> HIDE DEF next
    <3>2. \E x : x = next
      OBVIOUS
    <3> QED
      BY <2>1, <3>1 DEF next
  <2>2. CASE q.op # "instant"
    <3> DEFINE next == [now EXCEPT !.cancelling = q.op = "cancel"]
               other == [now EXCEPT !.cancelling = b]
    <3>1. next = other
      BY <1>4, Zenon
    <3>2. IF next = now THEN UNCHANGED <<subs, events>> ELSE Change(q.sub, next)
      BY <1>q, <1>2, <2>2 DEF CallStripe
    <3> HIDE DEF next
    <3>3. IF other = now THEN UNCHANGED <<subs, events>> ELSE Change(q.sub, other)
      BY <3>1, <3>2
    <3> QED
      BY <2>2, <3>3
  <2> QED
    BY <2>1, <2>2
<1>6. next \in Sub /\ next.customer = now.customer
  BY <1>2, <1>5 DEF Sub, Statuses
<1>7. CASE Change(q.sub, next)
  <2>1. q.tutor # t => \A op \in Calls : Ahead(t, op) => Ahead(t, op)'
    BY <1>q, <1>1, AheadKept DEF Inv
  <2> QED
    BY <1>q, <1>1, <1>2, <1>6, <1>7, <2>1, FollowState
<1>8. CASE next = now /\ UNCHANGED <<subs, events>>
  <2>1. CASE q.tutor # t
    BY <1>q, <1>1, <1>8, <2>1, FollowQuiet
  <2>2. CASE q.tutor = t
    <3>1. q.op # "instant"
      BY <1>q, <1>2, <1>5, <1>8 DEF Open, Sub
    <3>2. now.cancelling = b
      BY <1>2, <1>5, <1>8, <3>1 DEF Sub
    <3>3. subs[q.sub].cancelling = (q.op = "cancel")
      BY <1>2, <1>4, <3>2, Zenon
    <3> QED
      BY <1>q, <1>1, <1>8, <2>2, <3>1, <3>3, FollowNoChange
  <2> QED
    BY <2>1, <2>2
<1> QED
  BY <1>5, <1>7, <1>8

-----------------------------------------------------------------------------
(* Events                                                                  *)

LEMMA HolderIs ==
  ASSUME Inv, NEW e, EventOK(e)
  PROVE  Holder(e) = {Owner(e.sub)} /\ Owner(e.sub) \in Tutors
<1>1. e.sub \in DOMAIN subs /\ SubOK(e.sub)
  BY DEF EventOK, Inv, RowsOK
<1>2. Owner(e.sub) \in Tutors
  BY <1>1, OwnerTyped
<1>3. Owner(e.sub) \in Holder(e)
  BY <1>1, <1>2 DEF Holder, SubOK, Has
<1>4. \A t \in Holder(e) : t = Owner(e.sub)
  BY DEF Holder, Inv, RowsOK, RecordOK, Has, Owner
<1> QED
  BY <1>2, <1>3, <1>4

\* An event that is not of t is off the queue; the others keep their order.
LEMMA FollowDrop ==
  ASSUME Inv, NEW k \in DOMAIN events, NEW t \in Tutors, ~Mine(events[k], t), FollowOK(t),
         Len(events') = Len(events) - 1, events' \in Seq(Event),
         \A i \in 1..(Len(events) - 1) : events'[i] = events[IF i < k THEN i ELSE i + 1],
         record'[t] = record[t], UNCHANGED <<subs, customers, request>>
  PROVE  FollowOK(t)'
<1>1. /\ Len(events) \in Nat /\ DOMAIN events = 1..Len(events) /\ k \in 1..Len(events)
      /\ DOMAIN events' = 1..(Len(events) - 1)
  BY DEF Inv, TypeOK
<1>2. OpenOf(t)' = OpenOf(t)
  BY DEF OpenOf, Open, Owner
<1> DEFINE at(i) == IF i < k THEN i ELSE i + 1
<1>3. ASSUME NEW i \in DOMAIN events'
      PROVE  at(i) \in DOMAIN events /\ at(i) # k /\ events'[i] = events[at(i)]
  BY <1>1
<1>4. ASSUME NEW j \in DOMAIN events, j # k
      PROVE  \E i \in DOMAIN events' : at(i) = j
  <2>1. CASE j < k
    BY <1>1, <1>4, <2>1
  <2>2. CASE j > k
    <3>1. j - 1 \in DOMAIN events' /\ at(j - 1) = j
      BY <1>1, <2>2
    <3> QED
      BY <3>1
  <2> QED
    BY <1>1, <1>4, <2>1, <2>2
<1>5. ASSUME NEW i \in DOMAIN events', NEW j \in DOMAIN events', at(i) < at(j) PROVE i < j
  BY <1>1, <1>5
<1>6. ASSUME NEW i \in DOMAIN events' PROVE Mine(events[i], t)' <=> Mine(events[at(i)], t)
  <2>1. events'[i] = events[at(i)]
    BY <1>3
  <2> HIDE DEF at
  <2> QED
    BY <2>1 DEF Mine, Owner
<1> HIDE DEF at
<1>7. ASSUME NEW i \in DOMAIN events', LastOf(i, t)' PROVE Tells(events[i], t)'
  <2>1. Mine(events[at(i)], t)
    BY <1>6, <1>7 DEF LastOf
  <2>2. ASSUME NEW j \in DOMAIN events, at(i) < j, Mine(events[j], t) PROVE FALSE
    <3>1. PICK m \in DOMAIN events' : at(m) = j
      BY <1>4, <2>2
    <3>2. i < m
      BY <1>5, <2>2, <3>1
    <3>3. Mine(events[m], t)'
      BY <1>6, <2>2, <3>1
    <3>4. ~Mine(events[m], t)'
      BY <1>7, <3>2 DEF LastOf
    <3> QED
      BY <3>3, <3>4
  <2>3. LastOf(at(i), t)
    BY <2>1, <2>2 DEF LastOf
  <2>4. Tells(events[at(i)], t)
    BY <1>3, <2>3 DEF FollowOK
  <2>5. events'[i] = events[at(i)]
    BY <1>3
  <2> QED
    BY <1>2, <2>4, <2>5 DEF Tells
<1>8. ASSUME Has(t)', NoneOf(t)' PROVE RecordSays(t)'
  <2>1. NoneOf(t)
    <3> SUFFICES ASSUME NEW j \in DOMAIN events, Mine(events[j], t) PROVE FALSE
      BY DEF NoneOf
    <3>1. j # k
      OBVIOUS
    <3>2. PICK m \in DOMAIN events' : at(m) = j
      BY <1>4, <3>1
    <3>3. Mine(events[m], t)'
      BY <1>6, <3>2
    <3> QED
      BY <1>8, <3>3 DEF NoneOf
  <2>2. RecordSays(t)
    BY <1>8, <2>1 DEF FollowOK, Has
  <2>3. \A op : Ahead(t, op) => Ahead(t, op)'
    BY DEF Ahead, At
  <2>4. \A z \in OpenOf(t) : Says(t, z)'
    BY <2>2, <2>3, SaysKept DEF RecordSays
  <2> QED
    BY <1>2, <2>2, <2>4 DEF RecordSays
<1> QED
  BY <1>2, <1>7, <1>8 DEF FollowOK

\* What an event writes into the record it finds.
LEMMA AppliedTo ==
  ASSUME Inv, NEW e \in Event, EventOK(e), Apply(e)
  PROVE  /\ \A t \in Tutors : t # Owner(e.sub) => record'[t] = record[t]
         /\ LET t == Owner(e.sub) IN
              /\ e.deleted => ~record'[t].active
              /\ ~e.deleted => /\ record'[t].sub = e.sub
                               /\ record'[t].active <=> e.status = "active"
                               /\ record'[t].cancelled = e.cancelling
<1>1. Holder(e) = {Owner(e.sub)} /\ Owner(e.sub) \in Tutors
  BY HolderIs
<1>2. \A t \in Tutors : t # Owner(e.sub) => record'[t] = record[t]
  BY <1>1 DEF Apply
<1>3. PICK t \in Tutors : t = Owner(e.sub) /\ t \in Holder(e)
  BY <1>1
<1>4. PICK rec \in Record : rec = record[t]
  BY <1>3 DEF Holder, Inv, TypeOK
<1>5. CASE e.deleted
  <2> DEFINE new == [rec EXCEPT !.sub = 0, !.active = FALSE]
  <2>1. record'[t] = new
    BY <1>3, <1>4, <1>5 DEF Apply
  <2>2. ~new.active
    BY <1>4 DEF Record
  <2> HIDE DEF new
  <2> QED
    BY <1>2, <1>3, <1>5, <2>1, <2>2
<1>6. CASE ~e.deleted
  <2>1. \E b \in BOOLEAN : b = (e.status = "active")
    <3> WITNESS (e.status = "active") \in BOOLEAN
    <3> QED
      OBVIOUS
  <2>2. PICK b \in BOOLEAN : b = (e.status = "active")
    BY <2>1
  <2> DEFINE new == [rec EXCEPT !.sub = e.sub, !.active = b, !.cancelled = e.cancelling]
  <2>3. record'[t] = new
    BY <1>3, <1>4, <1>6, <2>2, Zenon DEF Apply
  <2>4. new.sub = e.sub /\ new.active = b /\ new.cancelled = e.cancelling
    BY <1>4 DEF Record
  <2> HIDE DEF new
  <2>5. record'[t].active <=> e.status = "active"
    BY <2>2, <2>3, <2>4
  <2> QED
    BY <1>2, <1>3, <1>6, <2>3, <2>4, <2>5
<1> QED
  BY <1>5, <1>6

LEMMA TailIs ==
  ASSUME events \in Seq(Event), events # <<>>
  PROVE  /\ 1 \in DOMAIN events /\ Head(events) = events[1] /\ Head(events) \in Event
         /\ Len(events) \in Nat /\ Tail(events) \in Seq(Event) /\ Len(Tail(events)) = Len(events) - 1
         /\ DOMAIN Tail(events) = 1..(Len(events) - 1)
         /\ \A i \in 1..(Len(events) - 1) : Tail(events)[i] = events[i + 1]
<1>1. Len(events) \in Nat /\ Len(events) >= 1 /\ Tail(events) \in Seq(Event)
      /\ Len(Tail(events)) = Len(events) - 1 /\ Head(events) = events[1] /\ Head(events) \in Event
  OBVIOUS
<1> QED
  BY <1>1

LEMMA FollowHead ==
  ASSUME Inv, events # <<>>, events' = Tail(events), NEW t \in Tutors, FollowOK(t),
         \/ Apply(Head(events))
         \/ record'[t] = record[t] /\ ~Mine(Head(events), t),
         UNCHANGED <<subs, customers, request>>
  PROVE  FollowOK(t)'
<1>1. /\ 1 \in DOMAIN events /\ Head(events) = events[1] /\ Head(events) \in Event
      /\ Len(events) \in Nat /\ Tail(events) \in Seq(Event) /\ Len(Tail(events)) = Len(events) - 1
      /\ DOMAIN Tail(events) = 1..(Len(events) - 1)
      /\ \A i \in 1..(Len(events) - 1) : Tail(events)[i] = events[i + 1]
      /\ EventOK(Head(events))
  BY TailIs DEF Inv, TypeOK, EventsOK
<1>2. CASE ~Mine(Head(events), t)
  <2>1. record'[t] = record[t]
    BY <1>1, <1>2, AppliedTo DEF Mine
  <2>2. \A i \in 1..(Len(events) - 1) : events'[i] = events[IF i < 1 THEN i ELSE i + 1]
    BY <1>1
  <2>3. Len(events') = Len(events) - 1 /\ events' \in Seq(Event) /\ ~Mine(events[1], t)
    BY <1>1, <1>2
  <2> QED
    BY <1>1, <2>1, <2>2, <2>3, FollowDrop
<1>3. CASE Mine(Head(events), t)
  <2>1. PICK e \in Event : e = Head(events) /\ e = events[1] /\ EventOK(e) /\ Apply(e) /\ Owner(e.sub) = t
    BY <1>1, <1>3 DEF Mine
  <2>2. OpenOf(t)' = OpenOf(t)
    BY DEF OpenOf, Open, Owner
  <2>3. ASSUME NEW i \in DOMAIN events'
        PROVE  /\ i \in Nat /\ i + 1 \in DOMAIN events /\ events'[i] = events[i + 1]
               /\ Mine(events[i], t)' <=> Mine(events[i + 1], t)
    <3>1. i \in Nat /\ i + 1 \in DOMAIN events /\ events'[i] = events[i + 1]
      BY <1>1 DEF Inv, TypeOK
    <3> QED
      BY <3>1 DEF Mine, Owner
  <2>4. ASSUME NEW j \in DOMAIN events, j # 1 PROVE \E i \in DOMAIN events' : j = i + 1
    <3>1. j - 1 \in DOMAIN events' /\ j = (j - 1) + 1
      BY <1>1, <2>4 DEF Inv, TypeOK
    <3> QED
      BY <3>1
  <2>5. ASSUME NEW i \in DOMAIN events', LastOf(i, t)' PROVE Tells(events[i], t)'
    <3>1. Mine(events[i + 1], t)
      BY <2>3, <2>5 DEF LastOf
    <3>2. ASSUME NEW j \in DOMAIN events, i + 1 < j, Mine(events[j], t) PROVE FALSE
      <4>1. j # 1
        BY <2>3, <3>2
      <4>2. PICK m \in DOMAIN events' : j = m + 1
        BY <2>4, <4>1
      <4>3. i < m
        BY <2>3, <3>2, <4>2
      <4>4. Mine(events[m], t)'
        BY <2>3, <3>2, <4>2
      <4> QED
        BY <2>5, <4>3, <4>4 DEF LastOf
    <3>3. LastOf(i + 1, t)
      BY <3>1, <3>2 DEF LastOf
    <3>4. Tells(events[i + 1], t)
      BY <2>3, <3>3 DEF FollowOK
    <3>5. events'[i] = events[i + 1]
      BY <2>3
    <3> QED
      BY <2>2, <3>4, <3>5 DEF Tells
  <2>6. ASSUME NoneOf(t)' PROVE RecordSays(t)'
    <3>1. ASSUME NEW j \in DOMAIN events, 1 < j PROVE ~Mine(events[j], t)
      <4>1. PICK i \in DOMAIN events' : j = i + 1
        BY <2>4, <3>1
      <4>2. ~Mine(events[i], t)'
        BY <2>6 DEF NoneOf
      <4> QED
        BY <2>3, <4>1, <4>2
    <3>2. LastOf(1, t)
      BY <1>3, <2>1, <3>1 DEF LastOf
    <3>3. Tells(e, t)
      BY <1>1, <2>1, <3>2 DEF FollowOK
    <3>4. /\ e.deleted => ~record'[t].active
          /\ ~e.deleted => /\ record'[t].sub = e.sub
                           /\ record'[t].active <=> e.status = "active"
                           /\ record'[t].cancelled = e.cancelling
      BY <2>1, AppliedTo
    <3>5. OpenOf(t) = {} => ~record'[t].active
      BY <3>3, <3>4 DEF Tells
    <3>6. ASSUME NEW s \in OpenOf(t) PROVE Says(t, s)'
      <4>1. /\ e.sub = s /\ ~e.deleted /\ e.status = subs[s].status
            /\ e.cancelling = subs[s].cancelling
        BY <3>3, <3>6 DEF Tells
      <4>2. SaysStatus(t, s)' /\ SaysCancelled(t, s)'
        BY <3>4, <4>1 DEF SaysStatus, SaysCancelled
      <4> QED
        BY <4>2 DEF Says
    <3> QED
      BY <2>2, <3>5, <3>6 DEF RecordSays
  <2> QED
    BY <2>2, <2>5, <2>6 DEF FollowOK
<1> QED
  BY <1>2, <1>3

LEMMA FollowHandle ==
  ASSUME Inv, HandleEvent, NEW t \in Tutors, FollowOK(t)
  PROVE  FollowOK(t)'
BY FollowHead DEF HandleEvent, stripe

\* Handled, and still to be delivered again: an event of t is on its way.
LEMMA FollowLost ==
  ASSUME Inv, AnswerLost, NEW t \in Tutors, FollowOK(t)
  PROVE  FollowOK(t)'
<1>1. /\ events # <<>> /\ Apply(Head(events)) /\ CustomersKept
      /\ UNCHANGED <<events, subs, customers, request>>
  BY DEF AnswerLost, CustomersKept, stripe
<1>2. /\ 1 \in DOMAIN events /\ Head(events) = events[1] /\ Head(events) \in Event
      /\ EventOK(Head(events))
  BY <1>1, TailIs DEF Inv, TypeOK, EventsOK
<1>3. CASE Mine(Head(events), t)
  <2>1. ~NoneOf(t)
    BY <1>2, <1>3 DEF NoneOf
  <2> QED
    BY <1>1, <2>1, FollowSame
<1>4. CASE ~Mine(Head(events), t)
  <2>1. record'[t] = record[t]
    BY <1>1, <1>2, <1>4, AppliedTo DEF Mine
  <2>2. \A op : Ahead(t, op) => Ahead(t, op)'
    BY <1>1 DEF Ahead, At
  <2>3. OpenOf(t)' = OpenOf(t)
    BY <1>1, OpenSame
  <2>4. ASSUME Has(t)', NoneOf(t) PROVE RecordSays(t)'
    <3>1. RecordSays(t)
      BY <2>1, <2>4 DEF FollowOK, Has
    <3>2. \A z \in OpenOf(t) : Says(t, z)'
      BY <1>1, <2>1, <2>2, <3>1, SaysKept DEF RecordSays
    <3> QED
      BY <2>1, <2>3, <3>1, <3>2 DEF RecordSays
  <2> QED
    BY <1>1, <2>4, FollowSame
<1> QED
  BY <1>3, <1>4

LEMMA FollowLate ==
  ASSUME Inv, NEW k \in DOMAIN events, HandleEventLate(k), NEW t \in Tutors, t \notin strayed',
         FollowOK(t)
  PROVE  FollowOK(t)'
<1>1. /\ k \in 2..Len(events) /\ Apply(events[k]) /\ events' = RemoveAt(events, k)
      /\ ~Mine(events[k], t) /\ UNCHANGED <<subs, customers, request>>
  BY DEF HandleEventLate, Fault, Mine, stripe
<1>2. record'[t] = record[t]
  BY <1>1, AppliedTo DEF Mine, Inv, TypeOK, EventsOK
<1>3. events \in Seq(Event) /\ Len(events) \in Nat
  BY DEF Inv, TypeOK
<1>4. /\ events' \in Seq(Event) /\ Len(events') = Len(events) - 1
      /\ \A i \in 1..(k - 1) : events'[i] = events[i]
      /\ \A i \in k..(Len(events) - 1) : events'[i] = events[i + 1]
  BY <1>1, <1>3, RemovedFacts
<1>5. \A i \in 1..(Len(events) - 1) : events'[i] = events[IF i < k THEN i ELSE i + 1]
  BY <1>1, <1>3, <1>4
<1> QED
  BY <1>1, <1>2, <1>4, <1>5, FollowDrop

LEMMA FollowEventFails ==
  ASSUME Inv, EventFails, NEW t \in Tutors, t \notin strayed', FollowOK(t)
  PROVE  FollowOK(t)'
<1>1. events # <<>> /\ UNCHANGED <<record, subs, customers, request>>
  BY DEF EventFails, stripe
<1>2. CASE UNCHANGED events
  <2>1. UNCHANGED <<record, subs, customers, request, events>>
    BY <1>1, <1>2
  <2>2. \A op : Ahead(t, op)' <=> Ahead(t, op)
    BY <2>1 DEF Ahead, At
  <2>3. CustomersKept /\ OpenOf(t)' = OpenOf(t)
    BY <2>1 DEF CustomersKept, OpenOf, Open, Owner
  <2>4. ASSUME Has(t)', NoneOf(t) PROVE RecordSays(t)'
    <3>1. RecordSays(t)
      BY <2>1, <2>4 DEF FollowOK, Has
    <3>2. \A z \in OpenOf(t) : Says(t, z)'
      BY <2>1, <2>2, <3>1, SaysKept DEF RecordSays
    <3> QED
      BY <2>1, <2>3, <3>1, <3>2 DEF RecordSays
  <2> QED
    BY <2>1, <2>3, <2>4, FollowSame
<1>3. CASE events' = Tail(events) /\ Fault(Owner(Head(events).sub))
  <2>1. ~Mine(Head(events), t)
    BY <1>3 DEF Fault, Mine
  <2> QED
    BY <1>1, <1>3, <2>1, FollowHead
<1> QED
  BY <1>2, <1>3 DEF EventFails

\* Steps of a request that has not written yet.
LEMMA FollowStarts ==
  ASSUME Inv, NEW h \in Handlers,
         \/ \E u \in Tutors, op \in Ops : Start(h, u, op)
         \/ FindRecord(h) \/ CreateCustomer(h),
         NEW t \in Tutors, FollowOK(t)
  PROVE  FollowOK(t)'
<1>1. ~At(h, "stripe") /\ UNCHANGED <<record, events, subs>>
  BY DEF Start, FindRecord, CreateCustomer, At, stripe
<1>2. CustomersKept
  <2>1. CASE CreateCustomer(h)
    <3>1. customers \in Seq(Tutors) /\ request[h].tutor \in Tutors
      BY <2>1 DEF Inv, TypeOK, RequestsOK, RequestOK, CreateCustomer, At
    <3>2. customers' = Append(customers, request[h].tutor)
      BY <2>1 DEF CreateCustomer
    <3> QED
      BY <3>1, <3>2, AppendFacts DEF CustomersKept
  <2>2. CASE ~CreateCustomer(h)
    BY <2>2 DEF Start, FindRecord, CustomersKept, stripe
  <2> QED
    BY <2>1, <2>2
<1>3. \E r : Set(h, r)
  <2>1. CASE \E u \in Tutors, op \in Ops : Start(h, u, op)
    BY <2>1 DEF Start
  <2>2. CASE FindRecord(h)
    <3>1. Goto(h, "customer") \/ WithRecord(h, record[request[h].tutor])
      BY <2>2 DEF FindRecord
    <3>2. request[h].op \in Ops
      BY DEF Inv, TypeOK, Request
    <3>3. Goto(h, "customer") => \E r : Set(h, r)
      BY DEF Goto
    <3> QED
      BY <3>1, <3>2, <3>3, WithRecordSets
  <2>3. CASE CreateCustomer(h)
    BY <2>3 DEF CreateCustomer
  <2> QED
    BY <2>1, <2>2, <2>3
<1> QED
  BY <1>1, <1>2, <1>3, FollowQuiet

LEMMA StrayedKept ==
  ASSUME [Next]_vars
  PROVE  strayed \subseteq strayed'
BY DEF Next, vars, Start, Continue, FindRecord, CreateCustomer, InsertRecord, CreateSubscription,
       WriteRecord, CallStripe, StripeRefuses, CallFails, HandleEvent, AnswerLost, EventFails,
       HandleEventLate, Fault, InvoicePaid, InvoiceFails, PeriodEnds, ByStripe, Expires, Restart,
       bounds

FollowInv == \A t \in Tutors \ strayed : FollowOK(t)

LEMMA FollowNext ==
  ASSUME SubscriptionAssumption, Inv, FollowInv, [Next]_vars
  PROVE  FollowInv'
<1> SUFFICES ASSUME NEW t \in Tutors, t \notin strayed' PROVE FollowOK(t)'
  BY DEF FollowInv
<1>0. FollowOK(t)
  BY StrayedKept DEF FollowInv
<1>1. CASE UNCHANGED vars
  <2>1. UNCHANGED <<record, customers, subs, events, request>>
    BY <1>1 DEF vars, stripe
  <2> QED
    BY <1>0, <2>1 DEF FollowOK, LastOf, NoneOf, Mine, Owner, Tells, RecordSays, Says, SaysStatus,
                      SaysCancelled, Ahead, At, OpenOf, Open, Has
<1>2. CASE \E h \in Handlers, u \in Tutors, op \in Ops : Start(h, u, op)
  BY <1>0, <1>2, FollowStarts
<1>3. ASSUME NEW h \in Handlers, Continue(h) \/ CallFails(h)
      PROVE  FollowOK(t)'
  BY <1>0, <1>3, FollowStarts, FollowInsert, FollowCreate, FollowWrite, FollowCall, FollowRefused
     DEF Continue
<1>4. CASE HandleEvent \/ AnswerLost \/ EventFails
  BY <1>0, <1>4, FollowHandle, FollowLost, FollowEventFails
<1>5. CASE \E i \in DOMAIN events : HandleEventLate(i)
  BY <1>0, <1>5, FollowLate
<1>6. CASE \E s \in DOMAIN subs : InvoicePaid(s) \/ InvoiceFails(s) \/ PeriodEnds(s) \/ Expires(s)
  BY <1>0, <1>6, FollowInvoices, FollowExpires
<1>7. CASE Restart
  BY <1>0, <1>7, FollowRestart
<1> QED
  BY <1>1, <1>2, <1>3, <1>4, <1>5, <1>6, <1>7 DEF Next

LEMMA AtRest ==
  ASSUME Inv, FollowInv
  PROVE  AgreesAtRest
<1> SUFFICES ASSUME events = <<>>, NEW t \in Tutors \ strayed, record[t] # NoRecord,
                    \A h \in Handlers : ~(At(h, "stripe") /\ request[h].tutor = t)
             PROVE  Agrees(t)
  BY DEF AgreesAtRest, Agrees
<1>1. NoneOf(t) /\ \A op : ~Ahead(t, op)
  BY DEF NoneOf, Ahead
<1>2. RecordSays(t)
  BY <1>1 DEF FollowInv, FollowOK, Has
<1>3. PICK rec \in Record : rec = record[t]
  BY DEF Inv, TypeOK
<1>4. ASSUME NEW s \in OpenOf(t)
      PROVE  /\ record[t].sub = s /\ record[t].active = (subs[s].status = "active")
             /\ record[t].cancelled = subs[s].cancelling
  <2>1. rec.sub = s /\ (rec.active <=> subs[s].status = "active") /\ rec.cancelled = subs[s].cancelling
    BY <1>1, <1>2, <1>3, <1>4 DEF RecordSays, Says, SaysStatus, SaysCancelled
  <2>2. \E b \in BOOLEAN : b = (subs[s].status = "active")
    <3> WITNESS (subs[s].status = "active") \in BOOLEAN
    <3> QED
      OBVIOUS
  <2>3. PICK b \in BOOLEAN : b = (subs[s].status = "active")
    BY <2>2
  <2>4. rec.active = b
    BY <1>3, <2>1, <2>3 DEF Record
  <2>5. rec.active = (subs[s].status = "active")
    BY <2>3, <2>4, Zenon
  <2> QED
    BY <1>3, <2>1, <2>5, Zenon
<1> QED
  BY <1>2, <1>4 DEF Agrees, RecordSays

-----------------------------------------------------------------------------
(* The theorems                                                            *)

\* Every state of the requests, the records and Stripe is of its type.
THEOREM TypeCorrect == Spec => []TypeOK
<1>1. Inv => TypeOK
  BY DEF Inv
<1> QED
  BY <1>1, Invariance, PTL

\* A record that reads active names a subscription of the tutor's own that was
\* paid, whatever was late, repeated or refused (SubscriptionService,
\* stripe.controller).
THEOREM ActivesWerePaid == Spec => []ActiveWasPaid
<1>1. Inv => ActiveWasPaid
  <2> SUFFICES ASSUME Inv, NEW t \in Tutors, record[t] # NoRecord, record[t].active
               PROVE  record[t].sub \in paid /\ Owner(record[t].sub) = t
    BY DEF ActiveWasPaid
  <2>1. record[t].sub \in paid /\ paid \subseteq DOMAIN subs /\ 0 \notin DOMAIN subs
    BY DEF Inv, TypeOK, RowsOK, RecordOK, Has
  <2> QED
    BY <2>1 DEF Inv, RowsOK, RecordOK, Has
<1> QED
  BY <1>1, Invariance, PTL

\* However many calls of getSubscription race to make the record, no customer
\* is billed whose record is lost: an event finds one record, its tutor's.
THEOREM EventsFind == Spec => []EventsFindRecord
<1>1. Inv => EventsFindRecord
  BY HolderIs DEF EventsFindRecord, Inv, EventsOK
<1> QED
  BY <1>1, Invariance, PTL

\* Whatever races, fails, comes late or twice: with no request of the tutor between
\* its write and Stripe, and no event on its way, the record says what Stripe says,
\* unless the tutor strayed; and every event finds the record it is about
\* (SubscriptionService, stripe.controller).
THEOREM RecordsFollow == Spec => []RecordFollows
<1>1. Init => FollowInv
  <2> SUFFICES ASSUME Init, NEW t \in Tutors PROVE FollowOK(t)
    BY DEF FollowInv
  <2>1. OpenOf(t) = {} /\ ~Has(t) /\ DOMAIN events = {}
    BY DEF Init, OpenOf, Has
  <2> QED
    BY <2>1 DEF FollowOK
<1>2. Inv /\ FollowInv /\ [Next]_vars => FollowInv'
  BY FollowNext, SubscriptionAssumption
<1>3. Inv /\ FollowInv => AgreesAtRest
  BY AtRest
<1> QED
  BY <1>1, <1>2, <1>3, Invariance, EventsFind, PTL DEF Spec, RecordFollows

================================================================================

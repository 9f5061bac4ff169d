------------------------- MODULE WalletAccountProofs -------------------------
(***************************************************************************)
(* Proofs about the checks of creditPurchase and about the wallet as an    *)
(* account, with any requests in flight at once: what a request has read   *)
(* is still so unless the history marks it stale, and a wallet that no     *)
(* stale request wrote is an account whose changes are atomic.             *)
(***************************************************************************)
EXTENDS WalletProofs

-----------------------------------------------------------------------------
(* The inductive invariant                                                 *)

\* Which statements a method comes to, and what it adds to the wallet.
Serves(r) ==
  /\ r.pc = "gate" => r.op = "credit"
  /\ r.pc = "write" => r.op \in {"debit", "adjust", "close"}
  /\ r.pc = "grant" => r.op = "debit"
  /\ r.pc = "intent" => r.op = "intent"
  /\ r.pc = "close" => r.op = "close"
  /\ r.pc \in {"find", "customer", "insert"} =>
       r.op \in {"view", "credit", "debit", "adjust", "close", "intent"}
  /\ r.op = "debit" => r.delta = -1 /\ r.pc \in {"find", "customer", "insert", "write", "grant"}
  /\ r.op = "adjust" => r.delta \in Accumulators
  /\ r.op = "close" /\ r.pc # "close" => r.delta = 1

\* What a request with the outdated data old has read and may still rely on;
\* a debit follows the two checks of creditPurchase.
Fresh(r, old) ==
  /\ "credits" \notin old =>
       /\ r.pc \in {"gate", "write"} =>
            payment[r.user] # NoRecord /\ r.credits = payment[r.user].credits
       /\ r.op = "debit" /\ r.pc # "grant" =>
            payment[r.user] # NoRecord /\ payment[r.user].credits > 0
  /\ "purchases" \notin old /\ r.op = "debit" => LivePurchases(r.user, r.tutor) = {}

InOrder == \A h \in Handlers : Serves(handler[h]) /\ Fresh(handler[h], stale[h])

\* A credit that was given is in the wallet, or taken for a sale or on its way there.
Bal(s) == IF payment[s] = NoRecord THEN 0 ELSE payment[s].credits
Covered == \A s \in Students \ torn :
  Cardinality(CreditSales(s)) + Cardinality(Granting(s)) + Bal(s) <= granted[s]

SInv == IInv /\ InOrder /\ Covered

-----------------------------------------------------------------------------
(* Requests stay in order                                                  *)

\* What the request in slot g relies on is as it was, or marked stale.
CreditsKept(g) ==
  \/ "credits" \in stale'[g]
  \/ \A s : HoldsCredits(g, s) /\ payment[s] # NoRecord => payment'[s] = payment[s]
CheckKept(g) ==
  \/ "purchases" \in stale'[g]
  \/ \A s, t : HoldsCheck(g, s, t) /\ LivePurchases(s, t) = {} => LivePurchases(s, t)' = {}

Kept(g) == stale[g] \subseteq stale'[g] /\ CreditsKept(g) /\ CheckKept(g)

LEMMA StaysFresh ==
  ASSUME SInv, NEW g \in Handlers, handler'[g] = handler[g], Kept(g)
  PROVE  Serves(handler'[g]) /\ Fresh(handler[g], stale[g])'
<1>1. PICK q \in Request : q = handler[g]
  BY AtWork DEF SInv
<1>2. Serves(q) /\ Fresh(q, stale[g])
  BY <1>1 DEF SInv, InOrder
<1>3. ASSUME "credits" \notin stale'[g]
      PROVE  /\ q.pc \in {"gate", "write"} =>
                  payment'[q.user] # NoRecord /\ q.credits = payment'[q.user].credits
             /\ q.op = "debit" /\ q.pc # "grant" =>
                  payment'[q.user] # NoRecord /\ payment'[q.user].credits > 0
  BY <1>1, <1>2, <1>3 DEF Fresh, Kept, CreditsKept, HoldsCredits, At
<1>4. ASSUME "purchases" \notin stale'[g], q.op = "debit"
      PROVE  LivePurchases(q.user, q.tutor)' = {}
  BY <1>1, <1>2, <1>4 DEF Fresh, Kept, CheckKept, HoldsCheck
<1>5. Fresh(q, stale[g])'
  BY <1>3, <1>4 DEF Fresh
<1> QED
  BY <1>1, <1>2, <1>5 DEF Fresh, LivePurchases

LEMMA IdleInOrder == \A old : Serves(Idle) /\ Fresh(Idle, old) /\ Fresh(Idle, old)'
BY DEF Serves, Fresh, Idle

\* A step of the request in slot h.
LEMMA RequestMoves ==
  ASSUME SInv, NEW h \in Handlers, NEW r \in Request, Set(h, r),
         r.pc # "idle" => Serves(r) /\ Fresh(r, stale[h])',
         \A g \in Handlers \ {h} : Kept(g)
  PROVE  InOrder'
<1>1. PICK q \in Request : q = IF r.pc = "idle" THEN Idle ELSE r
  BY IdleOK
<1>2. Serves(q) /\ Fresh(q, stale[h])'
  <2>1. CASE r.pc = "idle"
    BY <1>1, <2>1, IdleInOrder DEF Fresh, LivePurchases
  <2>2. CASE r.pc # "idle"
    BY <1>1, <2>2
  <2> QED
    BY <2>1, <2>2
<1>3. handler'[h] = q /\ \A g \in Handlers \ {h} : handler'[g] = handler[g]
  BY <1>1 DEF Set, SInv, IInv, TypeOK
<1>4. ASSUME NEW g \in Handlers
      PROVE  Serves(handler'[g]) /\ Fresh(handler[g], stale[g])'
  <2>1. CASE g = h
    BY <1>2, <1>3, <2>1 DEF Fresh, LivePurchases
  <2>2. CASE g # h
    BY <1>3, <2>2, StaysFresh
  <2> QED
    BY <2>1, <2>2
<1> QED
  BY <1>4 DEF InOrder

LEMMA NothingOutdated ==
  ASSUME NEW g, UNCHANGED <<payment, purchases>>, stale'[g] = stale[g]
  PROVE  Kept(g)
BY DEF Kept, CreditsKept, CheckKept, LivePurchases

LEMMA LocalMove ==
  ASSUME SInv, NEW h \in Handlers, NEW r \in Request, Set(h, r),
         r.pc # "idle" => Serves(r) /\ Fresh(r, stale[h]),
         UNCHANGED <<payment, purchases, stale>>
  PROVE  InOrder'
<1>1. r.pc # "idle" => Fresh(r, stale[h])'
  BY DEF Fresh, LivePurchases
<1>2. \A g \in Handlers \ {h} : Kept(g)
  BY NothingOutdated
<1> QED
  BY <1>1, <1>2, RequestMoves

\* A request that arrives has read nothing yet.
LEMMA ArriveInOrder ==
  ASSUME SInv, NEW h \in Handlers, Arrive(h)
  PROVE  InOrder'
<1>1. UNCHANGED <<payment, purchases>>
  BY DEF Arrive, ViewRecord, CreditPurchase, AccumulateCredits, StripePurchaseIntent,
         CloseDispute, Deliver, tables
<1>2. ASSUME NEW r \in Request, Arrives(h, r), Serves(r),
             r.pc \notin {"gate", "write"}, r.op # "debit"
      PROVE  InOrder'
  <2>1. Fresh(r, stale[h])'
    BY <1>2 DEF Fresh
  <2>2. \A g \in Handlers \ {h} : stale'[g] = stale[g]
    BY <1>2 DEF Arrives, SInv, IInv, TypeOK
  <2> QED
    BY <1>1, <1>2, <2>1, <2>2, NothingOutdated, RequestMoves DEF Arrives
<1>3. ASSUME NEW s \in Students, ViewRecord(h, s) PROVE InOrder'
  <2> DEFINE r == [Idle EXCEPT !.op = "view", !.pc = "find", !.user = s]
  <2>1. r \in Request /\ r.op = "view" /\ r.pc = "find"
    BY WalletAssumption, IdleOK DEF Request, Ops, PCs
  <2>2. Arrives(h, r)
    BY <1>3 DEF ViewRecord
  <2> HIDE DEF r
  <2>3. Serves(r)
    BY <2>1 DEF Serves
  <2> QED
    BY <1>2, <2>1, <2>2, <2>3
<1>4. ASSUME NEW s \in Students, NEW t \in Tutors, CreditPurchase(h, s, t) PROVE InOrder'
  <2> DEFINE r == [Idle EXCEPT !.op = "credit", !.pc = "find", !.user = s, !.tutor = t]
  <2>1. r \in Request /\ r.op = "credit" /\ r.pc = "find"
    BY WalletAssumption, IdleOK DEF Request, Ops, PCs
  <2>2. Arrives(h, r)
    BY <1>4 DEF CreditPurchase
  <2> HIDE DEF r
  <2>3. Serves(r)
    BY <2>1 DEF Serves
  <2> QED
    BY <1>2, <2>1, <2>2, <2>3
<1>5. ASSUME NEW s \in Students, NEW n \in Accumulators, AccumulateCredits(h, s, n) PROVE InOrder'
  <2> DEFINE r == [Idle EXCEPT !.op = "adjust", !.pc = "find", !.user = s, !.delta = n]
  <2>1. r \in Request /\ r.op = "adjust" /\ r.pc = "find" /\ r.delta = n
    BY WalletAssumption, IdleOK DEF Request, Ops, PCs
  <2>2. Arrives(h, r)
    BY <1>5 DEF AccumulateCredits
  <2> HIDE DEF r
  <2>3. Serves(r)
    BY <2>1 DEF Serves
  <2> QED
    BY <1>2, <2>1, <2>2, <2>3
<1>6. ASSUME NEW s \in Students, NEW t \in Tutors, StripePurchaseIntent(h, s, t) PROVE InOrder'
  <2> DEFINE r == [Idle EXCEPT !.op = "intent", !.pc = "find", !.user = s, !.tutor = t]
  <2>1. r \in Request /\ r.op = "intent" /\ r.pc = "find"
    BY WalletAssumption, IdleOK DEF Request, Ops, PCs
  <2>2. Arrives(h, r)
    BY <1>6 DEF StripePurchaseIntent
  <2> HIDE DEF r
  <2>3. Serves(r)
    BY <2>1 DEF Serves
  <2> QED
    BY <1>2, <2>1, <2>2, <2>3
<1>7. ASSUME NEW d \in DOMAIN disputes, NEW a \in BOOLEAN, CloseDispute(h, d, a) PROVE InOrder'
  <2> DEFINE s == purchases[disputes[d].purchase].user
             pc == IF a THEN "find" ELSE "close"
             n == IF a THEN 1 ELSE 0
             r == [Idle EXCEPT !.op = "close", !.pc = pc, !.user = s, !.id = d,
                               !.delta = n]
  <2>1. d \in Nat /\ s \in Students
    BY Tables DEF SInv, IInv, DisputesRefer, PurchaseRow
  <2>2. n \in Int /\ pc \in {"find", "close"} /\ (pc # "close" => n = 1)
    OBVIOUS
  <2>3. Arrives(h, r)
    BY <1>7 DEF CloseDispute
  <2> HIDE DEF s, pc, n
  <2>4. r \in Request /\ r.op = "close" /\ r.pc = pc /\ r.delta = n
    BY <2>1, <2>2, IdleOK DEF Request, Ops, PCs
  <2> HIDE DEF r
  <2>5. Serves(r)
    BY <2>2, <2>4 DEF Serves
  <2> QED
    BY <1>2, <2>2, <2>3, <2>4, <2>5
<1>8. ASSUME NEW i \in DOMAIN intents, Deliver(h, i) PROVE InOrder'
  <2> DEFINE s == intents[i].student
             r == [Idle EXCEPT !.op = "webhook", !.pc = "lookup", !.id = i, !.user = s]
  <2>1. i \in Nat /\ s \in Students \cup {Nobody}
    BY Tables DEF SInv, IInv, IntentRow
  <2>2. Arrives(h, r)
    BY <1>8 DEF Deliver
  <2> HIDE DEF s
  <2>3. r \in Request /\ r.op = "webhook" /\ r.pc = "lookup"
    BY <2>1, IdleOK DEF Request, Ops, PCs
  <2> HIDE DEF r
  <2>4. Serves(r)
    BY <2>3 DEF Serves
  <2> QED
    BY <1>2, <2>2, <2>3, <2>4
<1> QED
  BY <1>3, <1>4, <1>5, <1>6, <1>7, <1>8 DEF Arrive

\* A reply frees the slot.
LEMMA ReplyInOrder ==
  ASSUME SInv, NEW h \in Handlers, Reply(h), \A g \in Handlers \ {h} : Kept(g)
  PROVE  InOrder'
<1>1. Idle \in Request /\ Idle.pc = "idle" /\ Set(h, Idle)
  BY IdleOK DEF Reply, Idle
<1> QED
  BY <1>1, RequestMoves

LEMMA FindInOrder ==
  ASSUME SInv, NEW h \in Handlers, FindRecord(h)
  PROVE  InOrder'
<1>1. PICK q \in Request : q = handler[h] /\ RequestOK(q) /\ Serves(q) /\ Fresh(q, stale[h])
  BY AtWork DEF SInv, InOrder
<1>2. /\ q.pc = "find" /\ q.user \in Students /\ UNCHANGED <<payment, purchases, stale>>
      /\ q.op \in {"view", "credit", "debit", "adjust", "close", "intent"}
  BY <1>1 DEF FindRecord, At, RequestOK, StudentPCs, Serves, tables, history
<1>3. CASE payment[q.user] # NoRecord
  <2> DEFINE row == payment[q.user]
             r == [q EXCEPT !.pc = AfterRecord(q.op),
                            !.credits = row.credits, !.customer = row.customer]
  <2>1. Set(h, r)
    BY <1>1, <1>3 DEF FindRecord, Resume
  <2>2. row \in PaymentRow
    BY <1>2, <1>3 DEF SInv, IInv, TypeOK
  <2>3. /\ AfterRecord(q.op) \in {"idle", "gate", "intent", "write"}
        /\ AfterRecord(q.op) = "gate" => q.op = "credit"
        /\ AfterRecord(q.op) = "intent" => q.op = "intent"
        /\ AfterRecord(q.op) = "write" => q.op \in {"debit", "adjust", "close"}
        /\ q.op = "debit" => AfterRecord(q.op) = "write"
    BY <1>2 DEF AfterRecord
  <2>4. /\ r \in Request /\ r.pc = AfterRecord(q.op) /\ r.user = q.user /\ r.op = q.op
        /\ r.credits = row.credits /\ r.delta = q.delta /\ r.tutor = q.tutor
    BY <2>2, <2>3 DEF Request, PCs, PaymentRow
  <2> HIDE DEF r
  <2>5. Serves(r)
    BY <1>1, <1>2, <2>3, <2>4 DEF Serves
  <2>6. Fresh(r, stale[h])
    BY <1>1, <1>2, <1>3, <2>4 DEF Fresh
  <2> QED
    BY <1>1, <1>2, <2>1, <2>4, <2>5, <2>6, LocalMove
<1>4. CASE payment[q.user] = NoRecord
  <2> DEFINE r == [q EXCEPT !.pc = "customer"]
  <2>1. Set(h, r)
    BY <1>1, <1>4 DEF FindRecord, Goto
  <2>2. /\ r \in Request /\ r.pc = "customer" /\ r.user = q.user /\ r.op = q.op
        /\ r.delta = q.delta /\ r.tutor = q.tutor
    BY DEF Request, PCs
  <2> HIDE DEF r
  <2>3. Serves(r) /\ Fresh(r, stale[h])
    BY <1>1, <1>2, <2>2 DEF Serves, Fresh
  <2> QED
    BY <1>1, <1>2, <2>1, <2>2, <2>3, LocalMove
<1> QED
  BY <1>3, <1>4

LEMMA CreateCustomerInOrder ==
  ASSUME SInv, NEW h \in Handlers, CreateCustomer(h)
  PROVE  InOrder'
<1>1. PICK q \in Request : q = handler[h] /\ RequestOK(q) /\ Serves(q) /\ Fresh(q, stale[h])
  BY AtWork DEF SInv, InOrder
<1>2. q.pc = "customer" /\ q.user \in Students /\ UNCHANGED <<payment, purchases, stale>>
  BY <1>1 DEF CreateCustomer, At, RequestOK, StudentPCs, tables, history
<1> DEFINE c == Len(customers) + 1
           r == [q EXCEPT !.pc = "insert", !.customer = c]
<1>3. Set(h, r)
  BY <1>1 DEF CreateCustomer
<1>4. c \in Nat
  BY Tables DEF SInv, IInv
<1> HIDE DEF c
<1>5. /\ r \in Request /\ r.pc = "insert" /\ r.user = q.user /\ r.op = q.op
      /\ r.delta = q.delta /\ r.tutor = q.tutor
  BY <1>4 DEF Request, PCs
<1> HIDE DEF r
<1>6. Serves(r) /\ Fresh(r, stale[h])
  BY <1>1, <1>2, <1>5 DEF Serves, Fresh
<1> QED
  BY <1>1, <1>2, <1>3, <1>5, <1>6, LocalMove

LEMMA InsertInOrder ==
  ASSUME SInv, NEW h \in Handlers, InsertRecord(h)
  PROVE  InOrder'
<1>1. PICK q \in Request : q = handler[h] /\ RequestOK(q) /\ Serves(q) /\ Fresh(q, stale[h])
  BY AtWork DEF SInv, InOrder
<1>2. /\ q.pc = "insert" /\ q.user \in Students /\ UNCHANGED <<purchases, stale>>
      /\ q.op \in {"view", "credit", "debit", "adjust", "close", "intent"}
      /\ q.customer \in Nat \ {0}
  BY <1>1, Tables DEF InsertRecord, At, RequestOK, StudentPCs, Serves, stripe, IsCustomerOf,
     SInv, IInv, history
<1>3. CASE payment[q.user] = NoRecord
  <2> DEFINE row == [customer |-> q.customer, credits |-> 0]
             r == [q EXCEPT !.pc = AfterRecord(q.op),
                            !.credits = row.credits, !.customer = row.customer]
  <2>1. Set(h, r) /\ payment' = [payment EXCEPT ![q.user] = row]
    BY <1>1, <1>3 DEF InsertRecord, Resume
  <2>2. row \in PaymentRow /\ row # NoRecord
    BY <1>2, WalletAssumption DEF PaymentRow, WalletAssumption
  <2>3. q.op = "debit" => "credits" \in stale[h]
    BY <1>1, <1>2, <1>3 DEF Fresh
  <2>4. /\ AfterRecord(q.op) \in {"idle", "gate", "intent", "write"}
        /\ AfterRecord(q.op) = "gate" => q.op = "credit"
        /\ AfterRecord(q.op) = "intent" => q.op = "intent"
        /\ AfterRecord(q.op) = "write" => q.op \in {"debit", "adjust", "close"}
        /\ q.op = "debit" => AfterRecord(q.op) = "write"
    BY <1>2 DEF AfterRecord
  <2>5. payment'[q.user] = row /\ \A s \in Students \ {q.user} : payment'[s] = payment[s]
    BY <1>2, <2>1 DEF SInv, IInv, TypeOK
  <2> HIDE DEF row
  <2>6. /\ r \in Request /\ r.pc = AfterRecord(q.op) /\ r.user = q.user /\ r.op = q.op
        /\ r.credits = row.credits /\ r.delta = q.delta /\ r.tutor = q.tutor
    BY <2>2, <2>4 DEF Request, PCs, PaymentRow
  <2>7. PICK x \in Request : x = r
    BY <2>6
  <2>8. Serves(x)
    BY <1>1, <1>2, <2>4, <2>6, <2>7 DEF Serves
  <2>9. Fresh(x, stale[h])'
    BY <1>1, <1>2, <2>2, <2>3, <2>4, <2>5, <2>6, <2>7 DEF Fresh, Serves, LivePurchases
  <2>10. \A g \in Handlers \ {h} : Kept(g)
    <3> SUFFICES ASSUME NEW g \in Handlers PROVE Kept(g)
      OBVIOUS
    <3>1. \A s : payment[s] # NoRecord => payment'[s] = payment[s]
      BY <1>2, <1>3, <2>1 DEF SInv, IInv, TypeOK
    <3> QED
      BY <1>2, <3>1 DEF Kept, CreditsKept, CheckKept, HoldsCredits, LivePurchases
  <2>11. Set(h, x) /\ x.user = handler[h].user
    BY <1>1, <2>1, <2>6, <2>7
  <2> HIDE DEF r
  <2> QED
    BY <1>1, <2>8, <2>9, <2>10, <2>11, RequestMoves
<1>4. CASE payment[q.user] # NoRecord
  <2>1. Reply(h) /\ payment' = payment
    BY <1>1, <1>4 DEF InsertRecord
  <2> QED
    BY <1>2, <2>1, ReplyInOrder, NothingOutdated
<1> QED
  BY <1>3, <1>4

LEMMA GateInOrder ==
  ASSUME SInv, NEW h \in Handlers, Gate(h)
  PROVE  InOrder'
<1>1. PICK q \in Request : q = handler[h] /\ RequestOK(q) /\ Serves(q) /\ Fresh(q, stale[h])
  BY AtWork DEF SInv, InOrder
<1>2. /\ q.pc = "gate" /\ q.user \in Students /\ UNCHANGED <<payment, purchases, stale>>
      /\ "credits" \notin stale[h] =>
           payment[q.user] # NoRecord /\ q.credits = payment[q.user].credits
  BY <1>1 DEF Gate, At, RequestOK, StudentPCs, Fresh, tables, history
<1>3. CASE Reply(h)
  BY <1>2, <1>3, ReplyInOrder, NothingOutdated
<1>4. CASE ~Reply(h)
  <2> -1 \in Int
    OBVIOUS
  <2> DEFINE r == [q EXCEPT !.op = "debit", !.pc = "find", !.delta = -1]
  <2>1. Set(h, r) /\ ~(q.credits <= 0) /\ LivePurchases(q.user, q.tutor) = {}
    BY <1>1, <1>4 DEF Gate
  <2>2. /\ r \in Request /\ r.pc = "find" /\ r.op = "debit" /\ r.delta = -1
        /\ r.user = q.user /\ r.tutor = q.tutor
    BY DEF Request, PCs, Ops
  <2>3. q.credits \in Nat
    BY DEF Request
  <2> HIDE DEF r
  <2>4. Serves(r) /\ Fresh(r, stale[h])
    BY <1>2, <2>1, <2>2, <2>3 DEF Serves, Fresh
  <2> QED
    BY <1>1, <1>2, <2>1, <2>2, <2>4, LocalMove
<1> QED
  BY <1>3, <1>4

LEMMA LookupInOrder ==
  ASSUME SInv, NEW h \in Handlers, LookupCustomer(h)
  PROVE  InOrder'
<1>1. PICK q \in Request : q = handler[h] /\ RequestOK(q)
  BY AtWork DEF SInv
<1>2. /\ q.op = "webhook" /\ q.id \in 1..Len(intents)
      /\ UNCHANGED <<payment, purchases, stale>>
  BY <1>1 DEF LookupCustomer, At, RequestOK, tables, history
<1>3. ASSUME NEW r \in Request, Set(h, r), r.pc \in {"sale", "ack"}, r.op = "webhook"
      PROVE  InOrder'
  <2>1. Serves(r) /\ Fresh(r, stale[h])
    BY <1>3 DEF Serves, Fresh
  <2> QED
    BY <1>2, <1>3, <2>1, LocalMove
<1>4. ASSUME NEW s \in Students,
             Set(h, [q EXCEPT !.pc = "sale", !.user = s, !.tutor = intents[q.id].tutor])
      PROVE  InOrder'
  <2> DEFINE r == [q EXCEPT !.pc = "sale", !.user = s, !.tutor = intents[q.id].tutor]
  <2>1. intents[q.id] \in IntentRow
    BY <1>2, Tables DEF SInv, IInv
  <2>2. r \in Request /\ r.pc = "sale" /\ r.op = "webhook"
    BY <1>2, <2>1 DEF Request, PCs, IntentRow
  <2> HIDE DEF r
  <2> QED
    BY <1>3, <1>4, <2>2 DEF r
<1>5. CASE Goto(h, "ack")
  <2> DEFINE r == [q EXCEPT !.pc = "ack"]
  <2>1. r \in Request /\ r.pc = "ack" /\ r.op = "webhook"
    BY <1>2 DEF Request, PCs
  <2> HIDE DEF r
  <2> QED
    BY <1>1, <1>3, <1>5, <2>1 DEF Goto, r
<1> QED
  BY <1>1, <1>4, <1>5 DEF LookupCustomer

LEMMA CallFailsInOrder ==
  ASSUME SInv, NEW h \in Handlers, CallFails(h)
  PROVE  InOrder'
<1>1. PICK q \in Request : q = handler[h] /\ RequestOK(q) /\ Serves(q) /\ Fresh(q, stale[h])
  BY AtWork DEF SInv, InOrder
<1>2. UNCHANGED <<payment, purchases, stale>>
  BY DEF CallFails, tables, history
<1>3. CASE Reply(h)
  BY <1>2, <1>3, ReplyInOrder, NothingOutdated
<1>4. CASE At(h, "find") /\ Goto(h, "customer")
  <2> DEFINE r == [q EXCEPT !.pc = "customer"]
  <2>1. /\ r \in Request /\ r.pc = "customer" /\ r.user = q.user /\ r.op = q.op
        /\ r.delta = q.delta /\ r.tutor = q.tutor
    BY DEF Request, PCs
  <2>2. q.pc = "find" /\ q.op # "webhook"
    BY <1>1, <1>4 DEF At, RequestOK
  <2> HIDE DEF r
  <2>3. Serves(r) /\ Fresh(r, stale[h])
    BY <1>1, <2>1, <2>2 DEF Serves, Fresh
  <2> QED
    BY <1>1, <1>2, <1>4, <2>1, <2>3, LocalMove DEF Goto, r
<1>5. CASE q.op = "webhook" /\ Goto(h, "ack")
  <2> DEFINE r == [q EXCEPT !.pc = "ack"]
  <2>1. /\ r \in Request /\ r.pc = "ack" /\ r.op = "webhook" /\ r.id = q.id
        /\ r.user = q.user
    BY <1>5 DEF Request, PCs
  <2> HIDE DEF r
  <2>2. Serves(r) /\ Fresh(r, stale[h])
    BY <1>1, <1>5, <2>1 DEF Serves, Fresh
  <2> QED
    BY <1>1, <1>2, <1>5, <2>1, <2>2, LocalMove DEF Goto, r
<1> QED
  BY <1>1, <1>3, <1>4, <1>5 DEF CallFails

\* Calls that end a request and change neither a wallet nor a purchase.
LEMMA EndsInOrder ==
  ASSUME SInv, NEW h \in Handlers, MarkClosed(h) \/ CreateIntent(h) \/ Acknowledge(h)
  PROVE  InOrder'
BY ReplyInOrder, NothingOutdated DEF MarkClosed, CreateIntent, Acknowledge, tables, history

LEMMA WriteInOrder ==
  ASSUME SInv, NEW h \in Handlers, WriteCredits(h)
  PROVE  InOrder'
<1>1. PICK q \in Request : q = handler[h] /\ RequestOK(q) /\ Serves(q) /\ Fresh(q, stale[h])
  BY AtWork DEF SInv, InOrder
<1>2. /\ q.pc = "write" /\ q.user \in Students /\ purchases' = purchases
      /\ q.op \in {"debit", "adjust", "close"}
      /\ \A s : s # q.user => payment'[s] = payment[s]
      /\ Outdate({g \in Handlers \ {h} : HoldsCredits(g, q.user)}, "credits")
  BY <1>1 DEF WriteCredits, At, RequestOK, StudentPCs, Serves, SInv, IInv, TypeOK
<1> DEFINE r == [q EXCEPT !.pc = AfterWrite(q.op)]
<1>3. Set(h, r)
  BY <1>1 DEF WriteCredits, Goto
<1>4. /\ AfterWrite(q.op) \in {"idle", "grant", "close"}
      /\ q.op = "debit" => AfterWrite(q.op) = "grant"
      /\ q.op = "close" => AfterWrite(q.op) = "close"
      /\ q.op = "adjust" => AfterWrite(q.op) = "idle"
  BY <1>2 DEF AfterWrite
<1>5. /\ r \in Request /\ r.pc = AfterWrite(q.op) /\ r.user = q.user /\ r.op = q.op
      /\ r.delta = q.delta /\ r.tutor = q.tutor
  BY <1>4 DEF Request, PCs
<1>6. PICK x \in Request : x = r
  BY <1>5
<1>7. x.pc # "idle" => Serves(x)
  BY <1>1, <1>2, <1>4, <1>5, <1>6 DEF Serves
<1>8. x.pc # "idle" => Fresh(x, stale[h])'
  <2>1. LivePurchases(x.user, x.tutor)' = LivePurchases(x.user, x.tutor)
    BY <1>2 DEF LivePurchases
  <2>2. stale'[h] = stale[h]
    BY <1>2 DEF Outdate
  <2> QED
    BY <1>1, <1>2, <1>4, <1>5, <1>6, <2>1, <2>2 DEF Fresh
<1>9. \A g \in Handlers \ {h} : Kept(g)
  <2> SUFFICES ASSUME NEW g \in Handlers \ {h} PROVE Kept(g)
    OBVIOUS
  <2>1. stale[g] \subseteq stale'[g] /\ (HoldsCredits(g, q.user) => "credits" \in stale'[g])
    BY <1>2 DEF Outdate
  <2>2. CheckKept(g)
    BY <1>2 DEF CheckKept, LivePurchases
  <2>3. CreditsKept(g)
    BY <1>2, <2>1 DEF CreditsKept, HoldsCredits
  <2> QED
    BY <2>1, <2>2, <2>3 DEF Kept
<1>10. Set(h, x) /\ x.user = handler[h].user
  BY <1>1, <1>3, <1>5, <1>6
<1> HIDE DEF r
<1> QED
  BY <1>1, <1>7, <1>8, <1>9, <1>10, RequestMoves

LEMMA Appended ==
  ASSUME TypeOK, NEW row \in PurchaseRow, purchases' = Append(purchases, row)
  PROVE  /\ DOMAIN purchases' = DOMAIN purchases \cup {Len(purchases) + 1}
         /\ Len(purchases) + 1 \notin DOMAIN purchases
         /\ purchases'[Len(purchases) + 1] = row
         /\ \A i \in DOMAIN purchases : purchases'[i] = purchases[i]
<1>1. /\ purchases' \in Seq(PurchaseRow) /\ Len(purchases') = Len(purchases) + 1
      /\ purchases'[Len(purchases) + 1] = row
      /\ \A i \in 1..Len(purchases) : purchases'[i] = purchases[i]
  BY AppendProperties DEF TypeOK
<1>2. DOMAIN purchases' = 1..(Len(purchases) + 1)
      /\ DOMAIN purchases = 1..Len(purchases) /\ Len(purchases) \in Nat
  BY <1>1, Tables, LenProperties
<1> QED
  BY <1>1, <1>2

\* A sale adds one row, for the student of the request, or none.
LEMMA SaleAppends ==
  ASSUME IInv, NEW h \in Handlers, GrantPurchase(h) \/ RecordSale(h)
  PROVE  /\ handler[h].user \in Students
         /\ UNCHANGED <<payment, granted>>
         /\ \/ purchases' = purchases
            \/ \E row \in PurchaseRow :
                 /\ row.user = handler[h].user /\ row.tutor = handler[h].tutor
                 /\ row.method = IF GrantPurchase(h) THEN "Credit" ELSE "Stripe"
                 /\ purchases' = Append(purchases, row)
<1>1. handler[h].user \in Students
  BY AtWork DEF GrantPurchase, RecordSale, At, RequestOK, StudentPCs
<1>2. UNCHANGED <<payment, granted>>
  BY DEF GrantPurchase, RecordSale
<1>3. CASE handler[h].tutor \in KnownTutors /\ GrantPurchase(h)
  <2> PICK row \in PurchaseRow : row = [user |-> handler[h].user, tutor |-> handler[h].tutor,
                                        method |-> "Credit", status |-> "Active"]
    BY <1>1, <1>3 DEF PurchaseRow
  <2>1. /\ row.user = handler[h].user /\ row.tutor = handler[h].tutor /\ row.method = "Credit"
        /\ purchases' = Append(purchases, row)
    BY <1>3 DEF GrantPurchase, InsertPurchase
  <2> QED
    BY <1>1, <1>2, <1>3, <2>1
<1>4. CASE handler[h].tutor \in KnownTutors /\ RecordSale(h)
  <2> PICK row \in PurchaseRow : row = [user |-> handler[h].user, tutor |-> handler[h].tutor,
                                        method |-> "Stripe", status |-> "Active"]
    BY <1>1, <1>4 DEF PurchaseRow
  <2>1. /\ row.user = handler[h].user /\ row.tutor = handler[h].tutor /\ row.method = "Stripe"
        /\ purchases' = Append(purchases, row)
    BY <1>4 DEF RecordSale, InsertPurchase
  <2>2. ~GrantPurchase(h)
    BY <1>4 DEF GrantPurchase, RecordSale, At
  <2> QED
    BY <1>1, <1>2, <2>1, <2>2
<1>5. CASE handler[h].tutor \notin KnownTutors
  BY <1>1, <1>2, <1>5 DEF GrantPurchase, RecordSale, InsertPurchase
<1> QED
  BY <1>3, <1>4, <1>5

\* The requests that checked for a purchase of that tutor are marked.
LEMMA SaleKept ==
  ASSUME IInv, NEW h \in Handlers, GrantPurchase(h) \/ RecordSale(h)
  PROVE  stale'[h] = stale[h] /\ \A g \in Handlers \ {h} : Kept(g)
<1> PICK method \in {"Credit", "Stripe"} : InsertPurchase(h, method)
  BY DEF GrantPurchase, RecordSale
<1>1. payment' = payment
  BY DEF GrantPurchase, RecordSale
<1>2. CASE handler[h].tutor \notin KnownTutors
  BY <1>1, <1>2, NothingOutdated DEF InsertPurchase
<1>3. CASE handler[h].tutor \in KnownTutors
  <2> DEFINE r == handler[h]
  <2>1. /\ Outdate({g \in Handlers \ {h} : HoldsCheck(g, r.user, r.tutor)}, "purchases")
        /\ purchases' = Append(purchases, [user |-> r.user, tutor |-> r.tutor,
                                          method |-> method, status |-> "Active"])
    BY <1>3 DEF InsertPurchase
  <2>2. PICK row \in PurchaseRow : /\ row.user = r.user /\ row.tutor = r.tutor
                                   /\ purchases' = Append(purchases, row)
    BY <1>3, <2>1, SaleAppends DEF PurchaseRow
  <2>3. stale'[h] = stale[h]
    BY <2>1 DEF Outdate
  <2>4. ASSUME NEW g \in Handlers \ {h} PROVE Kept(g)
    <3>1. stale[g] \subseteq stale'[g] /\ (HoldsCheck(g, r.user, r.tutor) => "purchases" \in stale'[g])
      BY <2>1 DEF Outdate
    <3>2. ASSUME NEW s, NEW u, ~(s = r.user /\ u = r.tutor)
          PROVE  LivePurchases(s, u)' = LivePurchases(s, u)
      BY <2>2, <3>2, Appended DEF LivePurchases, IInv
    <3>3. CheckKept(g)
      BY <3>1, <3>2 DEF CheckKept, HoldsCheck
    <3> QED
      BY <1>1, <3>1, <3>3 DEF Kept, CreditsKept
  <2> QED
    BY <2>3, <2>4
<1> QED
  BY <1>2, <1>3

LEMMA SaleInOrder ==
  ASSUME SInv, NEW h \in Handlers, GrantPurchase(h) \/ RecordSale(h)
  PROVE  InOrder'
<1>1. stale'[h] = stale[h] /\ \A g \in Handlers \ {h} : Kept(g)
  BY SaleKept DEF SInv
<1>2. CASE GrantPurchase(h)
  BY <1>1, <1>2, ReplyInOrder DEF GrantPurchase
<1>3. CASE RecordSale(h)
  <2>1. PICK q \in Request : q = handler[h] /\ RequestOK(q)
    BY AtWork DEF SInv
  <2> DEFINE r == [q EXCEPT !.pc = "ack"]
  <2>2. q.op = "webhook" /\ Set(h, r)
    BY <1>3, <2>1 DEF RecordSale, At, RequestOK, Goto
  <2>3. r \in Request /\ r.pc = "ack" /\ r.op = "webhook"
    BY <2>2 DEF Request, PCs
  <2> HIDE DEF r
  <2>4. Serves(r) /\ Fresh(r, stale[h])'
    BY <2>3 DEF Serves, Fresh
  <2> QED
    BY <1>1, <2>2, <2>3, <2>4, RequestMoves
<1> QED
  BY <1>2, <1>3

LEMMA StepInOrder ==
  ASSUME SInv, NEW h \in Handlers, Step(h)
  PROVE  InOrder'
BY FindInOrder, CreateCustomerInOrder, InsertInOrder, GateInOrder, WriteInOrder,
   SaleInOrder, EndsInOrder, LookupInOrder DEF Step

LEMMA OutsideMoves ==
  ASSUME SInv, handler' = handler, \A g \in Handlers : Kept(g)
  PROVE  InOrder'
BY StaysFresh DEF InOrder

\* Reinstating a purchase marks the requests that checked for one.
LEMMA StatusKept ==
  ASSUME IInv, NEW p \in DOMAIN purchases, NEW status, SetPurchaseStatus(p, status),
         NEW g \in Handlers
  PROVE  Kept(g)
<1> DEFINE row == purchases[p]
<1>1. row \in PurchaseRow /\ payment' = payment /\ purchases \in Seq(PurchaseRow)
  BY Tables DEF SetPurchaseStatus, IInv, TypeOK
<1>2. /\ DOMAIN purchases' = DOMAIN purchases
      /\ \A i \in DOMAIN purchases : i # p => purchases'[i] = purchases[i]
      /\ purchases'[p].user = row.user /\ purchases'[p].tutor = row.tutor
      /\ purchases'[p].status = status
  BY <1>1, Tables DEF SetPurchaseStatus, IInv, PurchaseRow
<1>3. ASSUME NEW s, NEW t, status = "Deleted" \/ ~(s = row.user /\ t = row.tutor),
             LivePurchases(s, t) = {}
      PROVE  LivePurchases(s, t)' = {}
  <2> SUFFICES ASSUME NEW i \in LivePurchases(s, t)' PROVE FALSE
    OBVIOUS
  <2>1. CASE i = p
    BY <1>2, <1>3, <2>1 DEF LivePurchases
  <2>2. CASE i # p
    BY <1>2, <1>3, <2>2 DEF LivePurchases
  <2> QED
    BY <2>1, <2>2
<1>4. CASE status = "Deleted"
  <2>1. stale' = stale
    BY <1>4 DEF SetPurchaseStatus
  <2> QED
    BY <1>1, <1>3, <1>4, <2>1 DEF Kept, CreditsKept, CheckKept
<1>5. CASE status # "Deleted"
  <2>1. Outdate({h \in Handlers : HoldsCheck(h, row.user, row.tutor)}, "purchases")
    BY <1>5 DEF SetPurchaseStatus
  <2>2. stale[g] \subseteq stale'[g] /\ (HoldsCheck(g, row.user, row.tutor) => "purchases" \in stale'[g])
    BY <2>1 DEF Outdate
  <2>3. CheckKept(g)
    BY <1>3, <2>2 DEF CheckKept, HoldsCheck
  <2> QED
    BY <1>1, <2>2, <2>3 DEF Kept, CreditsKept
<1> QED
  BY <1>4, <1>5

\* What Stripe and the admins do, and a restart.
LEMMA OutsideInOrder ==
  ASSUME SInv, Next, \A h \in Handlers : ~(Arrive(h) \/ Step(h) \/ CallFails(h))
  PROVE  InOrder'
<1>1. ASSUME handler' = handler, UNCHANGED <<payment, purchases, stale>> PROVE InOrder'
  BY <1>1, OutsideMoves, NothingOutdated
<1>2. ASSUME NEW p \in DOMAIN purchases, NEW status, SetPurchaseStatus(p, status)
      PROVE  InOrder'
  BY <1>2, OutsideMoves, StatusKept DEF SetPurchaseStatus, SInv
<1>3. ASSUME Crash PROVE InOrder'
  <2>1. \A g \in Handlers : handler'[g] = Idle
    BY <1>3 DEF Crash
  <2>2. \A g \in Handlers : Serves(handler'[g]) /\ Fresh(handler[g], stale[g])'
    BY <2>1, IdleInOrder DEF Fresh, LivePurchases
  <2> QED
    BY <2>2 DEF InOrder
<1> QED
  BY <1>1, <1>2, <1>3 DEF Next, FileDispute, Pay, ChargeSubscription, tables, history

LEMMA NextInOrder ==
  ASSUME SInv, [Next]_vars
  PROVE  InOrder'
<1>1. CASE UNCHANGED vars
  BY <1>1, OutsideMoves, NothingOutdated DEF vars, tables, history
<1>2. CASE Next
  BY <1>2, ArriveInOrder, StepInOrder, CallFailsInOrder, OutsideInOrder DEF Next
<1> QED
  BY <1>1, <1>2

-----------------------------------------------------------------------------
(* How many credits and sales there are                                    *)

LEMMA FiniteCounts ==
  ASSUME TypeOK, NEW s \in Students
  PROVE  /\ IsFiniteSet(CreditSales(s)) /\ Cardinality(CreditSales(s)) \in Nat
         /\ IsFiniteSet(Granting(s)) /\ Cardinality(Granting(s)) \in Nat
<1>1. IsFiniteSet(1..Len(purchases))
  BY Tables, FS_Interval
<1>2. CreditSales(s) \in SUBSET (1..Len(purchases)) /\ Granting(s) \in SUBSET Handlers
  BY Tables DEF CreditSales, Granting
<1> QED
  BY <1>1, <1>2, WalletAssumption, FS_Subset, FS_CardinalityType

\* The request in slot h moves, and not to the insert of creditPurchase.
MovesElsewhere(h) ==
  /\ handler'[h].pc # "grant"
  /\ \A g \in Handlers \ {h} : handler'[g] = handler[g]

LEMMA SetMoves ==
  ASSUME TypeOK, NEW h \in Handlers, NEW r, Set(h, r), r.pc # "grant"
  PROVE  MovesElsewhere(h)
BY DEF Set, MovesElsewhere, Idle, TypeOK

LEMMA GotoMoves ==
  ASSUME TypeOK, NEW h \in Handlers, NEW pc, Goto(h, pc), pc # "grant"
  PROVE  MovesElsewhere(h)
<1>1. handler[h] \in Request
  BY DEF TypeOK
<1> DEFINE r == [handler[h] EXCEPT !.pc = pc]
<1>2. r.pc = pc
  BY <1>1 DEF Request
<1>3. Set(h, r)
  BY DEF Goto
<1> HIDE DEF r
<1> QED
  BY <1>2, <1>3, SetMoves

LEMMA ResumeMoves ==
  ASSUME TypeOK, NEW h \in Handlers, NEW row, Resume(h, row)
  PROVE  MovesElsewhere(h)
<1>1. handler[h] \in Request
  BY DEF TypeOK
<1> DEFINE r == [handler[h] EXCEPT !.pc = AfterRecord(handler[h].op),
                                   !.credits = row.credits, !.customer = row.customer]
<1>2. r.pc = AfterRecord(handler[h].op)
  BY <1>1 DEF Request
<1>3. Set(h, r)
  BY DEF Resume
<1>4. AfterRecord(handler[h].op) # "grant"
  BY DEF AfterRecord
<1> HIDE DEF r
<1> QED
  BY <1>2, <1>3, <1>4, SetMoves

\* No request comes to the insert of creditPurchase but from its debit.
LEMMA NoNewGrant ==
  ASSUME IInv, NEW h \in Handlers,
         Arrive(h) \/ CallFails(h) \/ (Step(h) /\ ~WriteCredits(h))
  PROVE  MovesElsewhere(h)
<1> USE DEF IInv
<1>1. handler[h] \in Request /\ Idle \in Request /\ Idle.pc # "grant"
  BY AtWork, IdleOK DEF Idle
<1>2. ASSUME Reply(h) PROVE MovesElsewhere(h)
  BY <1>1, <1>2, SetMoves DEF Reply
<1>3. ASSUME Arrive(h) PROVE MovesElsewhere(h)
  <2>1. ASSUME NEW s \in Students, ViewRecord(h, s) PROVE MovesElsewhere(h)
    BY <1>1, <2>1, SetMoves DEF ViewRecord, Arrives, Request
  <2>2. ASSUME NEW s \in Students, NEW t \in Tutors, CreditPurchase(h, s, t)
        PROVE  MovesElsewhere(h)
    BY <1>1, <2>2, SetMoves DEF CreditPurchase, Arrives, Request
  <2>3. ASSUME NEW s \in Students, NEW n \in Accumulators, AccumulateCredits(h, s, n)
        PROVE  MovesElsewhere(h)
    BY <1>1, <2>3, SetMoves DEF AccumulateCredits, Arrives, Request
  <2>4. ASSUME NEW s \in Students, NEW t \in Tutors, StripePurchaseIntent(h, s, t)
        PROVE  MovesElsewhere(h)
    BY <1>1, <2>4, SetMoves DEF StripePurchaseIntent, Arrives, Request
  <2>5. ASSUME NEW d \in DOMAIN disputes, NEW a \in BOOLEAN, CloseDispute(h, d, a)
        PROVE  MovesElsewhere(h)
    BY <1>1, <2>5, SetMoves DEF CloseDispute, Arrives, Request
  <2>6. ASSUME NEW i \in DOMAIN intents, Deliver(h, i) PROVE MovesElsewhere(h)
    BY <1>1, <2>6, SetMoves DEF Deliver, Arrives, Request
  <2> QED
    BY <1>3, <2>1, <2>2, <2>3, <2>4, <2>5, <2>6 DEF Arrive
<1>4. ASSUME CallFails(h) PROVE MovesElsewhere(h)
  BY <1>2, <1>4, GotoMoves DEF CallFails
<1>5. ASSUME CreateCustomer(h) PROVE MovesElsewhere(h)
  BY <1>1, <1>5, SetMoves DEF CreateCustomer, Request
<1>6. ASSUME Gate(h) PROVE MovesElsewhere(h)
  BY <1>1, <1>2, <1>6, SetMoves DEF Gate, Request
<1>7. ASSUME LookupCustomer(h) PROVE MovesElsewhere(h)
  <2>1. ASSUME NEW s \in Students,
               Set(h, [handler[h] EXCEPT !.pc = "sale", !.user = s,
                                         !.tutor = intents[handler[h].id].tutor])
        PROVE  MovesElsewhere(h)
    BY <1>1, <2>1, SetMoves DEF Request
  <2> QED
    BY <1>7, <2>1, GotoMoves DEF LookupCustomer
<1>8. ASSUME Step(h), ~WriteCredits(h) PROVE MovesElsewhere(h)
  BY <1>2, <1>5, <1>6, <1>7, <1>8, GotoMoves, ResumeMoves DEF Step, FindRecord,
     InsertRecord, GrantPurchase, MarkClosed, CreateIntent, RecordSale, Acknowledge
<1> QED
  BY <1>3, <1>4, <1>8

-----------------------------------------------------------------------------
(* The wallet as an account: what each step does to its three amounts      *)

balances == [s \in Students |-> Bal(s)]
escrows == [s \in Students |-> Cardinality(Granting(s))]
sales == [s \in Students |-> Cardinality(CreditSales(s))]

AccountStep == [Account!Next]_<<balances, escrows, sales, torn>>

AccountKept(s) ==
  /\ Bal(s)' = Bal(s)
  /\ CreditSales(s)' = CreditSales(s)
  /\ Granting(s)' = Granting(s)
  /\ granted'[s] = granted[s]

LEMMA Amounts ==
  ASSUME TypeOK, NEW s \in Students
  PROVE  /\ Bal(s) \in Nat /\ granted[s] \in Nat
         /\ Cardinality(CreditSales(s)) \in Nat /\ Cardinality(Granting(s)) \in Nat
BY FiniteCounts DEF TypeOK, Bal, PaymentRow

LEMMA AmountsTyped ==
  TypeOK => /\ balances \in [Students -> Nat] /\ escrows \in [Students -> Nat]
            /\ sales \in [Students -> Nat]
BY Amounts DEF balances, escrows, sales

LEMMA AmountsTypedNext ==
  TypeOK' => {balances', escrows', sales'} \subseteq [Students -> Nat]
<1>1. TypeOK' => (/\ balances \in [Students -> Nat] /\ escrows \in [Students -> Nat]
                  /\ sales \in [Students -> Nat])'
  BY AmountsTyped, PTL
<1> QED
  BY <1>1

LEMMA NothingMoves ==
  ASSUME Covered, torn' = torn, \A s \in Students : AccountKept(s)
  PROVE  Covered' /\ AccountStep
<1>1. Covered'
  BY DEF Covered, AccountKept
<1>2. balances' = balances /\ escrows' = escrows /\ sales' = sales
  BY DEF balances, escrows, sales, AccountKept
<1> QED
  BY <1>1, <1>2 DEF AccountStep

\* The account of one student changes as the Ledger allows.
LEMMA OneMoves ==
  ASSUME TypeOK', NEW s \in Students, \A u \in Students \ {s} : AccountKept(u),
         (Account!Change(s) /\ torn' = torn) \/ torn' = torn \cup {s}
  PROVE  AccountStep
<1>1. \A u \in Students \ {s} : Account!Same(u)
  BY DEF Account!Same, Account!Amounts, AccountKept, Bal
<1>2. {balances', escrows', sales'} \subseteq [Students -> Nat]
  BY AmountsTypedNext
<1> QED
  BY <1>1, <1>2 DEF AccountStep, Account!Next, balances, escrows, sales, Bal

\* A wallet is written from an outdated read.
LEMMA LooseMoves ==
  ASSUME Covered, TypeOK', NEW s \in Students, \A u \in Students \ {s} : AccountKept(u),
         torn' = torn \cup {s}
  PROVE  Covered' /\ AccountStep
<1>1. Covered'
  BY DEF Covered, AccountKept
<1> QED
  BY <1>1, OneMoves

\* The debit of creditPurchase takes a credit that is there.
LEMMA ReserveMoves ==
  ASSUME TypeOK, TypeOK', Covered, NEW s \in Students,
         \A u \in Students \ {s} : AccountKept(u), torn' = torn,
         Bal(s) > 0, Bal(s)' = Bal(s) - 1, granted'[s] = granted[s],
         CreditSales(s)' = CreditSales(s),
         Cardinality(Granting(s)') = Cardinality(Granting(s)) + 1
  PROVE  Covered' /\ AccountStep
<1>1. Covered'
  BY Amounts DEF Covered, AccountKept
<1>2. Account!Change(s)
  BY DEF Account!Change, Account!Reserve, Account!Amounts, Bal
<1> QED
  BY <1>1, <1>2, OneMoves

LEMMA AdjustMoves ==
  ASSUME TypeOK, TypeOK', Covered, NEW s \in Students,
         \A u \in Students \ {s} : AccountKept(u), torn' = torn,
         NEW n \in Accumulators \cup {1},
         Bal(s)' = NonNegative(Bal(s) + n), granted'[s] = granted[s] + NonNegative(n),
         CreditSales(s)' = CreditSales(s), Granting(s)' = Granting(s)
  PROVE  Covered' /\ AccountStep
<1>1. n \in Int
  <2>1. \A m \in Accumulators : m \in Int
    BY WalletAssumption
  <2> QED
    BY <2>1
<1>2. Covered'
  BY <1>1, Amounts DEF Covered, AccountKept, NonNegative
<1>3. Account!Adjust(s, n)
  BY <1>1, Amounts DEF Account!Adjust, Account!Amounts, Bal, NonNegative
<1> QED
  BY <1>2, <1>3, OneMoves DEF Account!Change

LEMMA SettleMoves ==
  ASSUME TypeOK, TypeOK', Covered, NEW s \in Students,
         \A u \in Students \ {s} : AccountKept(u), torn' = torn,
         Bal(s)' = Bal(s), granted'[s] = granted[s],
         Cardinality(Granting(s)) > 0,
         Cardinality(Granting(s)') = Cardinality(Granting(s)) - 1,
         Cardinality(CreditSales(s)') = Cardinality(CreditSales(s)) + 1
  PROVE  Covered' /\ AccountStep
<1>1. Covered'
  BY Amounts DEF Covered, AccountKept
<1>2. Account!Change(s)
  BY DEF Account!Change, Account!Settle, Account!Amounts, Bal
<1> QED
  BY <1>1, <1>2, OneMoves

LEMMA ForfeitMoves ==
  ASSUME TypeOK, TypeOK', Covered, torn' = torn,
         \A s \in Students : /\ Bal(s)' = Bal(s) /\ granted'[s] = granted[s]
                             /\ CreditSales(s)' = CreditSales(s)
                             /\ Granting(s)' \subseteq Granting(s)
  PROVE  Covered' /\ AccountStep
<1>1. \A s \in Students : /\ Cardinality(Granting(s)') \in Nat
                           /\ Cardinality(Granting(s)') <= Cardinality(Granting(s))
  BY FiniteCounts, FS_Subset, FS_CardinalityType
<1>2. Covered'
  BY <1>1, Amounts DEF Covered
<1>3. \A s \in Students : Account!Forfeit(s)
  BY <1>1 DEF Account!Forfeit, Account!Amounts, Bal
<1>4. {balances', escrows', sales'} \subseteq [Students -> Nat]
  BY AmountsTypedNext
<1> QED
  BY <1>2, <1>3, <1>4 DEF AccountStep, Account!Next, balances, escrows, sales, Bal

LEMMA GrantingKept ==
  ASSUME NEW h \in Handlers, ~At(h, "grant"), MovesElsewhere(h), NEW s
  PROVE  Granting(s)' = Granting(s)
BY DEF MovesElsewhere, At, Granting

LEMMA SalesKept ==
  ASSUME IInv, NEW s \in Students,
         \/ purchases' = purchases
         \/ \E row \in PurchaseRow : row.method # "Credit" /\ purchases' = Append(purchases, row)
  PROVE  CreditSales(s)' = CreditSales(s)
BY Appended DEF CreditSales, IInv

\* Steps of a request that are neither of the two statements that move money.
LEMMA RequestKeeps ==
  ASSUME SInv, NEW h \in Handlers, ~At(h, "grant"),
         Arrive(h) \/ CallFails(h) \/ (Step(h) /\ ~WriteCredits(h)),
         NEW s \in Students
  PROVE  AccountKept(s)
<1>1. Granting(s)' = Granting(s)
  BY NoNewGrant, GrantingKept DEF SInv
<1>2. granted' = granted
  BY DEF Arrive, ViewRecord, CreditPurchase, AccumulateCredits, StripePurchaseIntent,
     CloseDispute, Deliver, Arrives, CallFails, Step, FindRecord, CreateCustomer, InsertRecord, Gate,
     GrantPurchase, MarkClosed, CreateIntent, LookupCustomer, RecordSale, Acknowledge, history
<1>3. CASE InsertRecord(h)
  <2>1. handler[h] \in Request /\ RequestOK(handler[h]) /\ handler[h].user \in Students
    BY <1>3, AtWork DEF SInv, InsertRecord, At, RequestOK, StudentPCs
  <2>2. PICK row : row = [customer |-> handler[h].customer, credits |-> 0]
    OBVIOUS
  <2>3. row # NoRecord /\ row.credits = 0
    <3>1. handler[h].customer \in Nat \ {0}
      BY <1>3, <2>1, Tables DEF SInv, IInv, InsertRecord, At, RequestOK, IsCustomerOf
    <3> QED
      BY <2>2, <3>1, WalletAssumption
  <2>4. payment' = payment \/ (payment[handler[h].user] = NoRecord
                                /\ payment' = [payment EXCEPT ![handler[h].user] = row])
    BY <1>3, <2>2 DEF InsertRecord
  <2>5. Bal(s)' = Bal(s)
    BY <2>1, <2>3, <2>4 DEF Bal, SInv, IInv, TypeOK
  <2>6. purchases' = purchases
    BY <1>3 DEF InsertRecord
  <2> QED
    BY <1>1, <1>2, <2>5, <2>6 DEF AccountKept, CreditSales
<1>4. CASE RecordSale(h)
  <2>1. ~GrantPurchase(h)
    BY DEF GrantPurchase
  <2>2. CreditSales(s)' = CreditSales(s) /\ payment' = payment
    BY <1>4, <2>1, SaleAppends, SalesKept DEF SInv
  <2> QED
    BY <1>1, <1>2, <2>2 DEF AccountKept, Bal
<1>5. CASE ~InsertRecord(h) /\ ~RecordSale(h)
  <2>1. payment' = payment /\ purchases' = purchases
    BY <1>5 DEF Arrive, ViewRecord, CreditPurchase, AccumulateCredits, StripePurchaseIntent,
       CloseDispute, Deliver, CallFails, Step, FindRecord, CreateCustomer, Gate,
       GrantPurchase, MarkClosed, CreateIntent, LookupCustomer, Acknowledge, tables
  <2> QED
    BY <1>1, <1>2, <2>1 DEF AccountKept, Bal, CreditSales
<1> QED
  BY <1>3, <1>4, <1>5

LEMMA WriteMoves ==
  ASSUME SInv, IInv', NEW h \in Handlers, WriteCredits(h)
  PROVE  Covered' /\ AccountStep
<1>1. PICK q \in Request : q = handler[h] /\ RequestOK(q) /\ Serves(q) /\ Fresh(q, stale[h])
  BY AtWork DEF SInv, InOrder
<1>2. PICK s \in Students : s = q.user
  BY <1>1 DEF WriteCredits, At, RequestOK, StudentPCs
<1>3. /\ q.pc = "write" /\ q.op \in {"debit", "adjust", "close"} /\ purchases' = purchases
      /\ payment[s] \in PaymentRow /\ payment[s] # NoRecord
  BY <1>1, <1>2 DEF WriteCredits, At, Serves, RequestOK, SInv, IInv, TypeOK
<1>4. PICK n \in Nat : n = NonNegative(q.credits + q.delta)
  BY DEF NonNegative, Request
<1>5. /\ payment' = [payment EXCEPT ![s].credits = n]
      /\ granted' = [granted EXCEPT ![s] = @ + NonNegative(q.delta)]
  BY <1>1, <1>2, <1>4 DEF WriteCredits
<1>6. /\ payment'[s] \in PaymentRow /\ payment'[s].credits = n
      /\ \A u \in Students \ {s} : payment'[u] = payment[u] /\ granted'[u] = granted[u]
      /\ granted'[s] = granted[s] + NonNegative(q.delta)
  BY <1>3, <1>5 DEF SInv, IInv, TypeOK, PaymentRow
<1>7. Bal(s)' = n
  BY <1>3, <1>6, WalletAssumption DEF Bal, PaymentRow
<1>8. handler'[h].pc = "grant" <=> q.op = "debit"
  <2> DEFINE r == [q EXCEPT !.pc = AfterWrite(q.op)]
  <2>1. Set(h, r)
    BY <1>1 DEF WriteCredits, Goto
  <2>2. r.pc = AfterWrite(q.op) /\ AfterWrite(q.op) \in {"idle", "grant", "close"}
        /\ (AfterWrite(q.op) = "grant" <=> q.op = "debit")
    BY <1>3 DEF AfterWrite, Request
  <2> HIDE DEF r
  <2> QED
    BY <2>1, <2>2 DEF Set, SInv, IInv, TypeOK, Idle
<1>9. /\ handler'[h].pc = "grant" => handler'[h].user = s
      /\ \A g \in Handlers \ {h} : handler'[g] = handler[g]
  BY <1>1, <1>2, <1>3 DEF WriteCredits, Goto, Set, AfterWrite, Idle, Request, SInv, IInv, TypeOK
<1>10. \A u \in Students \ {s} : Granting(u)' = Granting(u)
  BY <1>1, <1>3, <1>8, <1>9 DEF Granting, At
<1>11. \A u \in Students : CreditSales(u)' = CreditSales(u)
  BY <1>3 DEF CreditSales
<1>12. \A u \in Students \ {s} : AccountKept(u)
  BY <1>6, <1>10, <1>11 DEF AccountKept, Bal
<1>13. CASE "credits" \in stale[h]
  <2>1. torn' = torn \cup {s}
    BY <1>1, <1>2, <1>13 DEF WriteCredits
  <2> QED
    BY <1>12, <2>1, LooseMoves DEF SInv, IInv
<1>14. CASE "credits" \notin stale[h]
  <2>1. torn' = torn /\ q.credits = Bal(s)
    BY <1>1, <1>2, <1>3, <1>14 DEF WriteCredits, Fresh, Bal
  <2>2. CASE q.op = "debit"
    <3>1. q.delta = -1 /\ Bal(s) > 0
      BY <1>1, <1>2, <1>3, <1>14, <2>2 DEF Serves, Fresh, Bal
    <3>2. Bal(s)' = Bal(s) - 1 /\ granted'[s] = granted[s]
      BY <1>4, <1>6, <1>7, <2>1, <3>1, Amounts DEF NonNegative, SInv, IInv
    <3>3. Granting(s)' = Granting(s) \cup {h} /\ h \notin Granting(s)
      BY <1>1, <1>3, <1>8, <1>9, <2>2 DEF Granting, At
    <3>4. Cardinality(Granting(s)') = Cardinality(Granting(s)) + 1
      BY <3>3, FiniteCounts, FS_AddElement DEF SInv, IInv
    <3> QED
      BY <1>11, <1>12, <2>1, <3>1, <3>2, <3>4, ReserveMoves DEF SInv, IInv
  <2>3. CASE q.op # "debit"
    <3>1. q.delta \in Accumulators \cup {1}
      BY <1>1, <1>3, <2>3 DEF Serves
    <3>2. Granting(s)' = Granting(s)
      BY <1>1, <1>3, <1>8, <1>9, <2>3 DEF Granting, At
    <3>3. Bal(s)' = NonNegative(Bal(s) + q.delta)
      BY <1>4, <1>7, <2>1
    <3> QED
      BY <1>6, <1>11, <1>12, <2>1, <3>1, <3>2, <3>3, AdjustMoves DEF SInv, IInv
  <2> QED
    BY <2>2, <2>3
<1> QED
  BY <1>13, <1>14

\* The insert of creditPurchase, or its failure.
LEMMA GrantMoves ==
  ASSUME SInv, IInv', NEW h \in Handlers, GrantPurchase(h) \/ (CallFails(h) /\ At(h, "grant"))
  PROVE  Covered' /\ AccountStep
<1>1. PICK s \in Students : s = handler[h].user
  BY AtWork DEF GrantPurchase, SInv, At, RequestOK, StudentPCs
<1>2. h \in Granting(s)
  BY <1>1 DEF GrantPurchase, Granting
<1>3. MovesElsewhere(h)
  BY NoNewGrant DEF SInv, Step, GrantPurchase, WriteCredits, At
<1>4. Granting(s)' = Granting(s) \ {h} /\ \A u \in Students \ {s} : Granting(u)' = Granting(u)
  BY <1>1, <1>2, <1>3 DEF MovesElsewhere, Granting, At
<1>5. UNCHANGED <<payment, granted, torn>>
  BY DEF GrantPurchase, CallFails, tables, history
<1>6. CASE purchases' = purchases
  <2>1. \A u \in Students : CreditSales(u)' = CreditSales(u) /\ Bal(u)' = Bal(u)
    BY <1>5, <1>6 DEF CreditSales, Bal
  <2> QED
    BY <1>4, <1>5, <2>1, ForfeitMoves DEF SInv, IInv
<1>7. ASSUME NEW row \in PurchaseRow, row.user = s, row.method = "Credit",
             purchases' = Append(purchases, row)
      PROVE  Covered' /\ AccountStep
  <2>1. /\ CreditSales(s)' = CreditSales(s) \cup {Len(purchases) + 1}
        /\ Len(purchases) + 1 \notin CreditSales(s)
        /\ \A u \in Students \ {s} : CreditSales(u)' = CreditSales(u)
    BY <1>7, Appended DEF CreditSales, SInv, IInv
  <2>2. Cardinality(CreditSales(s)') = Cardinality(CreditSales(s)) + 1
    BY <2>1, FiniteCounts, FS_AddElement DEF SInv, IInv
  <2>3. Bal(s)' = Bal(s) /\ \A u \in Students \ {s} : AccountKept(u)
    BY <1>4, <1>5, <2>1 DEF AccountKept, Bal
  <2>4. /\ Cardinality(Granting(s)') = Cardinality(Granting(s)) - 1
        /\ Cardinality(Granting(s)') \in Nat
    BY <1>2, <1>4, FiniteCounts, FS_RemoveElement, FS_CardinalityType DEF SInv, IInv
  <2>5. Cardinality(Granting(s)) > 0 /\ Cardinality(Granting(s)') = Cardinality(Granting(s)) - 1
    BY <2>4, FiniteCounts DEF SInv, IInv
  <2> QED
    BY <1>5, <2>2, <2>3, <2>5, SettleMoves DEF SInv, IInv
<1>8. CASE GrantPurchase(h)
  BY <1>1, <1>6, <1>7, <1>8, SaleAppends DEF SInv
<1>9. CASE CallFails(h)
  BY <1>6, <1>9 DEF CallFails, tables
<1> QED
  BY <1>8, <1>9

LEMMA OutsideAccount ==
  ASSUME SInv, IInv', Next, \A h \in Handlers : ~(Arrive(h) \/ Step(h) \/ CallFails(h))
  PROVE  Covered' /\ AccountStep
<1>1. UNCHANGED <<payment, granted, torn>>
  BY DEF Next, FileDispute, SetPurchaseStatus, Pay, ChargeSubscription, Crash, tables, history
<1>2. \A s \in Students : CreditSales(s)' = CreditSales(s)
  <2>1. ASSUME NEW p \in DOMAIN purchases, NEW status, SetPurchaseStatus(p, status),
               NEW s \in Students
        PROVE  CreditSales(s)' = CreditSales(s)
    <3>1. purchases[p] \in PurchaseRow
      BY Tables DEF SInv, IInv
    <3>2. DOMAIN purchases' = DOMAIN purchases /\ \A i \in DOMAIN purchases :
            purchases'[i].user = purchases[i].user /\ purchases'[i].method = purchases[i].method
      BY <2>1, <3>1, Tables DEF SetPurchaseStatus, SInv, IInv, PurchaseRow
    <3> QED
      BY <3>2 DEF CreditSales
  <2>2. ASSUME purchases' = purchases, NEW s \in Students
        PROVE  CreditSales(s)' = CreditSales(s)
    BY <2>2 DEF CreditSales
  <2> QED
    BY <2>1, <2>2 DEF Next, FileDispute, Pay, ChargeSubscription, Crash, tables
<1>3. CASE handler' = handler
  <2>1. \A s \in Students : AccountKept(s)
    BY <1>1, <1>2, <1>3 DEF AccountKept, Bal, Granting, At
  <2> QED
    BY <1>1, <2>1, NothingMoves DEF SInv
<1>4. CASE Crash
  <2>1. \A s \in Students : Granting(s)' \subseteq Granting(s)
    BY <1>4 DEF Crash, Granting, At, Idle
  <2> QED
    BY <1>1, <1>2, <2>1, ForfeitMoves DEF SInv, IInv, Bal
<1> QED
  BY <1>3, <1>4 DEF Next, FileDispute, SetPurchaseStatus, Pay, ChargeSubscription

LEMMA NextAccount ==
  ASSUME SInv, IInv', [Next]_vars
  PROVE  Covered' /\ AccountStep
<1>1. CASE UNCHANGED vars
  <2>1. \A s \in Students : AccountKept(s)
    BY <1>1 DEF vars, tables, history, AccountKept, Bal, CreditSales, Granting, At
  <2> QED
    BY <1>1, <2>1, NothingMoves DEF SInv, vars, history
<1>2. ASSUME NEW h \in Handlers, Arrive(h) \/ Step(h) \/ CallFails(h)
      PROVE  Covered' /\ AccountStep
  <2>1. CASE WriteCredits(h)
    BY <2>1, WriteMoves
  <2>2. CASE At(h, "grant") /\ ~WriteCredits(h)
    <3>1. ~Arrive(h)
      BY <2>2 DEF Arrive, ViewRecord, CreditPurchase, AccumulateCredits, StripePurchaseIntent,
         CloseDispute, Deliver, Arrives, At
    <3>2. Step(h) => GrantPurchase(h)
      BY <2>2 DEF Step, FindRecord, CreateCustomer, InsertRecord, Gate, MarkClosed,
         CreateIntent, LookupCustomer, RecordSale, Acknowledge, At
    <3> QED
      BY <1>2, <2>2, <3>1, <3>2, GrantMoves
  <2>3. CASE ~At(h, "grant") /\ ~WriteCredits(h)
    <3>1. torn' = torn
      BY <1>2, <2>3 DEF Arrive, ViewRecord, CreditPurchase, AccumulateCredits,
         StripePurchaseIntent, CloseDispute, Deliver, Arrives, CallFails, Step, FindRecord,
         CreateCustomer, InsertRecord, Gate, GrantPurchase, MarkClosed, CreateIntent,
         LookupCustomer, RecordSale, Acknowledge, history
    <3> QED
      BY <1>2, <2>3, <3>1, RequestKeeps, NothingMoves DEF SInv
  <2> QED
    BY <2>1, <2>2, <2>3
<1> QED
  BY <1>1, <1>2, OutsideAccount DEF Next

-----------------------------------------------------------------------------
(* The theorems                                                            *)

LEMMA AccountInit ==
  ASSUME Init
  PROVE  InOrder /\ Covered /\ Account!Init
<1>1. \A h \in Handlers : handler[h] = Idle
  BY DEF Init
<1>2. InOrder
  BY <1>1, IdleInOrder DEF InOrder
<1>3. \A s \in Students : /\ CreditSales(s) = {} /\ Granting(s) = {}
                          /\ Bal(s) = 0 /\ granted[s] = 0
  BY <1>1 DEF Init, CreditSales, Granting, At, Idle, Bal
<1>4. \A s \in Students : Cardinality(CreditSales(s)) = 0 /\ Cardinality(Granting(s)) = 0
  BY <1>3, FS_EmptySet
<1>5. Covered
  BY <1>3, <1>4 DEF Covered
<1>6. Account!Init
  BY <1>3, <1>4 DEF Account!Init, Bal, Init
<1> QED
  BY <1>2, <1>5, <1>6

LEMMA AccountInvariance == Spec => []SInv
<1>1. Init => SInv
  BY InitIInv, AccountInit DEF SInv
<1>2. SInv /\ [Next]_vars => SInv'
  BY NextKeeps, NextInOrder, NextAccount DEF SInv
<1> QED
  BY <1>1, <1>2, PTL DEF Spec

\* 'insufficient credit' (students.service.ts:165) with any requests in
\* flight, whatever fails and whenever the process restarts: a student buys no
\* more with credits than the student was given, unless a request wrote that
\* student's wallet which another had written since it read the credits.
THEOREM CreditsCovered == Spec => []CreditsCoverPurchases
<1>1. SInv => CreditsCoverPurchases
  <2> SUFFICES ASSUME SInv, NEW s \in Students \ torn
               PROVE  Cardinality(CreditSales(s)) <= granted[s]
    BY DEF CreditsCoverPurchases
  <2> QED
    BY Amounts DEF SInv, IInv, Covered
<1> QED
  BY <1>1, AccountInvariance, PTL

\* 'already purchased' (students.service.ts:166), several awaits before the
\* insert: when the insert comes the student has no purchase of that tutor,
\* or one that appeared after this request looked.
THEOREM NoTutorBoughtTwice == Spec => NoSecondPurchase
<1> DEFINE Checked == \A h \in Handlers : AddsCreditPurchase(h) => CheckStands(h)
<1>1. SInv /\ [Next]_vars => [Checked]_vars
  <2> SUFFICES ASSUME SInv, NEW h \in Handlers, At(h, "grant"), "purchases" \notin stale[h]
               PROVE  LivePurchases(handler[h].user, handler[h].tutor) = {}
    BY DEF AddsCreditPurchase, CheckStands
  <2> QED
    BY DEF SInv, InOrder, Serves, Fresh, At
<1> QED
  BY <1>1, AccountInvariance, PTL DEF Spec, NoSecondPurchase

\* The wallet is an account whose changes are atomic: each statement of a
\* request is one operation of the Ledger or changes nothing there, whatever
\* else is in flight, up to the first write from an outdated read.
THEOREM ImplementsLedger == Spec => AtomicLedger
<1>1. Init => Account!Init
  BY AccountInit
<1>2. SInv /\ SInv' /\ [Next]_vars => AccountStep
  BY NextAccount DEF SInv
<1>3. AccountStep => [Account!Next]_(Account!accounts)
  BY DEF AccountStep, Account!accounts, balances, escrows, sales, Bal
<1> QED
  BY <1>1, <1>2, <1>3, AccountInvariance, PTL DEF Spec, AtomicLedger, Account!Spec

===============================================================================

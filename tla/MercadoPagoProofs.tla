-------------------------- MODULE MercadoPagoProofs --------------------------
(***************************************************************************)
(* What holds of the checkout for any number of orders and of requests at  *)
(* work on them, however often requests die, notifications are repeated    *)
(* and customers come back.                                                *)
(*                                                                         *)
(* The argument: an order can be paid only after its payment page was      *)
(* offered, so that no `create' is at work on it any more; it is claimed   *)
(* only when paid and pending; from then on the one request that claimed   *)
(* it is the only one to write its status.  The uses of the promotional    *)
(* code are counted apart: at any time they are the claimed orders that    *)
(* carry it, one use each, which takes the orders to be finitely many.     *)
(***************************************************************************)
EXTENDS MercadoPagoCheckout, SequenceTheorems, FiniteSetTheorems, TLAPS

Creating(r) == request[r].at \in {"preference", "link", "offer"}

RequestOK(r) ==
  LET o == request[r].order IN
  /\ request[r].at # "idle" => o \in Orders
  /\ Creating(r) => status[o] = "pending" /\ o \notin offered
  /\ request[r].at = "claim" => Paid(o)
  /\ Fulfilling(r) => status[o] = "processing"
  /\ request[r].at = "deliver" => served[o] = 0
  /\ request[r].at = "finish" => served[o] = 1

\* No two requests create, or fulfil, the same order.
Alone(r, q) ==
  request[r].order = request[q].order =>
    /\ Creating(r) /\ Creating(q) => r = q
    /\ Fulfilling(r) /\ Fulfilling(q) => r = q

OrderOK(o) ==
  /\ served[o] <= 1
  /\ status[o] \in {"none", "pending"} => served[o] = 0
  /\ status[o] = "processed" => served[o] = 1
  /\ served[o] > 0 \/ status[o] = "processing" => Paid(o)
  /\ o \notin offered => payments[o] = <<>>
  /\ o \in offered => status[o] # "none"

Inv ==
  /\ TypeOK
  /\ \A r \in Requests : RequestOK(r)
  /\ \A r, q \in Requests : Alone(r, q)
  /\ \A o \in Orders : OrderOK(o)

-----------------------------------------------------------------------------
(* Payments *)

\* An order without payments is not paid.
LEMMA UnpaidAtFirst ==
  ASSUME NEW o \in Orders, payments[o] = <<>>
  PROVE  ~Paid(o)
BY DEF Paid, Approved

\* Paying or clearing a payment makes no paid order unpaid, and touches no other
\* order.
LEMMA StaysPaid ==
  ASSUME TypeOK, Customer
  PROVE  /\ \A o \in Orders : Paid(o) => Paid(o)'
         /\ UNCHANGED <<panel, browser, request>>
         /\ \A o \in Orders \ offered : payments[o] = <<>> => payments'[o] = <<>>
         /\ payments' \in [Orders -> Seq(Payment)]
         /\ \A o \in Orders : Len(payments'[o]) <= MaxPayments
         /\ notices' \subseteq Orders \X (1..MaxPayments)
<1>1. ASSUME NEW o \in Orders, NEW state \in {"pending", "approved"}, NEW enough \in BOOLEAN,
             Pay(o, state, enough)
      PROVE  /\ \A k \in Orders : Paid(k) => Paid(k)'
             /\ UNCHANGED <<panel, browser, request>>
             /\ \A k \in Orders \ offered : payments[k] = <<>> => payments'[k] = <<>>
             /\ payments' \in [Orders -> Seq(Payment)]
             /\ \A k \in Orders : Len(payments'[k]) <= MaxPayments
             /\ notices' \subseteq Orders \X (1..MaxPayments)
  <2> DEFINE p == [state |-> state, enough |-> enough]
  <2>1. p \in Payment
    BY DEF Payment
  <2>2. /\ payments \in [Orders -> Seq(Payment)]
        /\ payments' = [payments EXCEPT ![o] = Append(@, p)]
        /\ Len(payments[o]) < MaxPayments /\ Len(payments[o]) \in Nat /\ MaxPayments \in Nat
    BY <1>1, BoundAssumption DEF TypeOK, Pay
  <2>3. /\ payments'[o] = Append(payments[o], p)
        /\ \A k \in Orders \ {o} : payments'[k] = payments[k]
    BY <2>2
  <2>4. /\ payments'[o] \in Seq(Payment)
        /\ Len(payments'[o]) = Len(payments[o]) + 1
        /\ \A i \in 1..Len(payments[o]) : payments'[o][i] = payments[o][i]
    BY <2>1, <2>2, <2>3
  <2>5. payments' \in [Orders -> Seq(Payment)]
    BY <2>2, <2>4
  <2>6. \A k \in Orders : Len(payments'[k]) <= MaxPayments
    BY <2>2, <2>3, <2>4 DEF TypeOK
  <2>7. \A k \in Orders : Paid(k) => Paid(k)'
    <3>1. DOMAIN payments[o] \subseteq DOMAIN payments'[o]
      BY <2>2, <2>4
    <3>2. \A i \in DOMAIN payments[o] : payments'[o][i] = payments[o][i]
      BY <2>2, <2>4
    <3>3. QED
      BY <3>1, <3>2, <2>3 DEF Paid, Approved, Enough
  <2>8. notices' \subseteq Orders \X (1..MaxPayments)
    <3>1. Len(payments[o]) + 1 \in 1..MaxPayments
      BY <2>2
    <3>2. QED
      BY <1>1, <3>1 DEF TypeOK, Pay
  <2>9. \A k \in Orders \ offered : payments'[k] = payments[k]
    BY <1>1, <2>3 DEF Pay
  <2>10. QED
    BY <1>1, <2>5, <2>6, <2>7, <2>8, <2>9 DEF Pay
<1>2. ASSUME NEW o \in Orders, NEW i \in 1..MaxPayments, NEW state \in {"approved", "rejected"},
             Clear(o, i, state)
      PROVE  /\ \A k \in Orders : Paid(k) => Paid(k)'
             /\ UNCHANGED <<panel, browser, request>>
             /\ \A k \in Orders \ offered : payments[k] = <<>> => payments'[k] = <<>>
             /\ payments' \in [Orders -> Seq(Payment)]
             /\ \A k \in Orders : Len(payments'[k]) <= MaxPayments
             /\ notices' \subseteq Orders \X (1..MaxPayments)
  <2> DEFINE s == payments[o]
             n == [s EXCEPT ![i].state = state]
  <2>1. /\ payments \in [Orders -> Seq(Payment)] /\ s \in Seq(Payment)
        /\ i \in DOMAIN s /\ s[i].state = "pending"
        /\ payments' = [payments EXCEPT ![o] = n]
    BY <1>2 DEF TypeOK, Clear
  <2>2. s[i] \in Payment
    BY <2>1
  <2>3. [s[i] EXCEPT !.state = state] \in Payment
    BY <2>2 DEF Payment
  <2>4. n = [s EXCEPT ![i] = [s[i] EXCEPT !.state = state]]
    OBVIOUS
  <2> HIDE DEF n
  <2>5. n \in Seq(Payment) /\ Len(n) = Len(s) /\ DOMAIN n = DOMAIN s
    BY <2>1, <2>3, <2>4, ExceptSeq
  <2>6. \A j \in DOMAIN s : s[j].state = "approved" => n[j] = s[j]
    BY <2>1, <2>4
  <2>7. \A k \in Orders : payments'[k] = IF k = o THEN n ELSE payments[k]
    BY <2>1
  <2>8. payments' \in [Orders -> Seq(Payment)]
    BY <2>1, <2>5
  <2>9. \A k \in Orders : Paid(k) => Paid(k)'
    BY <2>5, <2>6, <2>7 DEF Paid, Approved, Enough
  <2>10. \A k \in Orders : Len(payments'[k]) <= MaxPayments
    BY <2>5, <2>7 DEF TypeOK
  <2>11. \A k \in Orders \ offered : payments[k] = <<>> => payments'[k] = <<>>
    BY <2>1, <2>7
  <2>12. QED
    BY <1>2, <2>8, <2>9, <2>10, <2>11 DEF Clear, TypeOK
<1>3. QED
  BY <1>1, <1>2 DEF Customer
-----------------------------------------------------------------------------
(* The invariant *)

\* Nothing is ordered, paid or at work at first.
LEMMA InvInit == Init => Inv
<1> SUFFICES ASSUME Init PROVE Inv
  OBVIOUS
<1>1. Idle \in Request
  BY BoundAssumption DEF Idle, Request, Places
<1>2. TypeOK
  BY <1>1, UsesAssumption, BoundAssumption DEF Init, TypeOK, Statuses
<1>3. \A r \in Requests : RequestOK(r)
  BY DEF Init, RequestOK, Idle, Creating, Fulfilling
<1>4. \A r, q \in Requests : Alone(r, q)
  BY DEF Init, Alone, Idle, Creating, Fulfilling
<1>5. \A o \in Orders : OrderOK(o)
  BY DEF Init, OrderOK
<1>6. QED
  BY <1>2, <1>3, <1>4, <1>5 DEF Inv

\* What the customer does on the gateway's page changes only payments.
LEMMA InvCustomer ==
  ASSUME Inv, Customer
  PROVE  Inv'
<1>1. /\ \A o \in Orders : Paid(o) => Paid(o)'
      /\ UNCHANGED <<panel, browser, request>>
      /\ \A o \in Orders \ offered : payments[o] = <<>> => payments'[o] = <<>>
      /\ TypeOK
  BY StaysPaid DEF Inv
<1>2. TypeOK'
  BY <1>1, StaysPaid DEF TypeOK, panel, browser
<1>3. \A r \in Requests : RequestOK(r)'
  BY <1>1 DEF Inv, RequestOK, Creating, Fulfilling, panel, browser
<1>4. \A r, q \in Requests : Alone(r, q)'
  BY <1>1 DEF Inv, Alone, Creating, Fulfilling, panel, browser
<1>5. \A o \in Orders : OrderOK(o)'
  BY <1>1 DEF Inv, OrderOK, panel, browser
<1>6. QED
  BY <1>2, <1>3, <1>4, <1>5 DEF Inv

\* A step of one request that leaves the panel, the payments and the pages
\* offered alone: it ends, or goes on to a place whose conditions hold.
LEMMA InvRequest ==
  ASSUME Inv, NEW r \in Requests, NEW n \in Request,
         request' = [request EXCEPT ![r] = n],
         UNCHANGED <<panel, payments, offered>>,
         notices' \subseteq notices, stored' \in {stored, NoOrder},
         \/ n.at \in {"idle", "search", "fetch", "restore", "answer", "report"}
         \/ n.at = "link" /\ Creating(r)
         \/ n.at = "offer" /\ Creating(r)
         \/ n.at = "claim" /\ Paid(n.order)
         \/ n.at = "fail" /\ Fulfilling(r),
         n.at # "idle" => n.order \in Orders,
         Creating(r) \/ Fulfilling(r) => n.at = "idle" \/ n.order = request[r].order
  PROVE  Inv'
<1>1. \A o \in Orders : Paid(o)' <=> Paid(o)
  BY DEF Paid, Approved, Enough
<1>2. /\ request'[r] = n
      /\ \A q \in Requests \ {r} : request'[q] = request[q]
  BY DEF Inv, TypeOK
<1>3. TypeOK'
  BY <1>2 DEF Inv, TypeOK, panel
<1>4. RequestOK(r)'
  BY <1>1, <1>2 DEF Inv, RequestOK, Creating, Fulfilling, panel
<1>5. \A q \in Requests \ {r} : RequestOK(q)'
  BY <1>1, <1>2 DEF Inv, RequestOK, Creating, Fulfilling, panel
<1>6. \A p, q \in Requests : Alone(p, q)'
  <2>1. (Creating(r)' => Creating(r)) /\ (Fulfilling(r)' => Fulfilling(r))
    BY <1>2 DEF Creating, Fulfilling
  <2>2. Creating(r)' \/ Fulfilling(r)' => request'[r].order = request[r].order
    BY <1>2, <2>1 DEF Creating, Fulfilling
  <2>3. \A q \in Requests \ {r} : /\ Creating(q)' <=> Creating(q)
                                  /\ Fulfilling(q)' <=> Fulfilling(q)
                                  /\ request'[q].order = request[q].order
    BY <1>2 DEF Creating, Fulfilling
  <2>4. QED
    BY <2>1, <2>2, <2>3 DEF Inv, Alone
<1>7. \A o \in Orders : OrderOK(o)'
  BY <1>1 DEF Inv, OrderOK, panel
<1>8. QED
  BY <1>3, <1>4, <1>5, <1>6, <1>7 DEF Inv

\* The places a request can be at, one by one: the record with another place is
\* a request again.
LEMMA Moved ==
  ASSUME TypeOK, NEW r \in Requests, NEW p \in Places
  PROVE  /\ [request[r] EXCEPT !.at = p] \in Request
         /\ [request[r] EXCEPT !.at = p].at = p
         /\ [request[r] EXCEPT !.at = p].order = request[r].order
         /\ [request[r] EXCEPT !.at = p].kind = request[r].kind
         /\ [request EXCEPT ![r].at = p] = [request EXCEPT ![r] = [request[r] EXCEPT !.at = p]]
         /\ Idle \in Request /\ Idle.at = "idle"
<1>1. request[r] \in Request
  BY DEF TypeOK
<1>2. Idle \in Request /\ Idle.at = "idle"
  BY BoundAssumption DEF Idle, Request, Places
<1>3. QED
  BY <1>1, <1>2 DEF Request

\* A request that is gone, dead or answered, constrains nothing.
LEMMA InvEnds ==
  ASSUME Inv, NEW r \in Requests, Ends(r), UNCHANGED <<panel, payments, offered>>,
         notices' \subseteq notices, stored' \in {stored, NoOrder}
  PROVE  Inv'
<1>1. Idle \in Request /\ Idle.at = "idle"
  BY BoundAssumption DEF Idle, Request, Places
<1>2. request' = [request EXCEPT ![r] = Idle]
  BY DEF Ends
<1>3. QED
  BY <1>1, <1>2, InvRequest

\* A request that moves on within the conditions it already meets.
LEMMA InvReaches ==
  ASSUME Inv, NEW r \in Requests, NEW p \in Places, Reaches(r, p),
         request[r].at # "idle",
         UNCHANGED <<panel, payments, offered, notices, stored>>,
         \/ p \in {"restore", "answer"}
         \/ p \in {"link", "offer"} /\ Creating(r)
         \/ p = "claim" /\ Paid(request[r].order)
         \/ p = "fail" /\ Fulfilling(r)
  PROVE  Inv'
<1> DEFINE n == [request[r] EXCEPT !.at = p]
<1>1. /\ n \in Request /\ n.at = p /\ n.order = request[r].order
      /\ request' = [request EXCEPT ![r] = n]
  BY Moved DEF Reaches, Inv
<1>2. n.order \in Orders
  BY <1>1 DEF Inv, RequestOK
<1> HIDE DEF n
<1>3. QED
  BY <1>1, <1>2, InvRequest

\* A step of the one request that creates or fulfils an order: it may write the
\* order's status and serve it, and stays alone with it.
LEMMA InvOrder ==
  ASSUME Inv, NEW r \in Requests, NEW o \in Orders, o = request[r].order,
         \A q \in Requests \ {r} : request'[q] = request[q],
         request'[r].at \in Places \ {"search", "fetch", "restore", "claim"},
         request'[r].at # "idle" => request'[r].order = o,
         \A k \in Orders \ {o} : status'[k] = status[k] /\ served'[k] = served[k],
         status'[o] \in Statuses \ {"none"}, served'[o] \in {0, 1},
         TypeOK', UNCHANGED payments, offered' \in {offered, offered \cup {o}},
         Creating(r)' => Creating(r) /\ status'[o] = "pending" /\ offered' = offered,
         Fulfilling(r)' => status'[o] = "processing",
         request'[r].at = "deliver" => served'[o] = 0,
         request'[r].at = "finish" => served'[o] = 1,
         status'[o] = "pending" => served'[o] = 0,
         status'[o] = "processed" => served'[o] = 1,
         served'[o] = 1 \/ status'[o] = "processing" => Paid(o),
         \A q \in Requests \ {r} :
           request[q].order = o => ~Creating(q) /\ ~Fulfilling(q)
  PROVE  Inv'
<1>1. \A k \in Orders : Paid(k)' <=> Paid(k)
  BY DEF Paid, Approved, Enough
<1>4. RequestOK(r)'
  <2>1. Creating(r) => o \notin offered
    BY DEF Inv, RequestOK
  <2>2. QED
    BY <2>1 DEF RequestOK, Creating, Fulfilling, Places
<1>5. ASSUME NEW q \in Requests \ {r}
      PROVE  RequestOK(q)'
  <2>1. RequestOK(q) /\ request'[q] = request[q]
    BY DEF Inv
  <2>2. CASE request[q].order = o
    <3>1. ~Creating(q) /\ ~Fulfilling(q)
      BY <2>2
    <3>2. QED
      BY <1>1, <2>1, <2>2, <3>1 DEF RequestOK, Creating, Fulfilling
  <2>3. CASE request[q].order # o
    BY <1>1, <2>1, <2>3 DEF RequestOK, Creating, Fulfilling
  <2>4. QED
    BY <2>2, <2>3
<1>6. \A q, w \in Requests : Alone(q, w)'
  <2>1. \A q \in Requests \ {r} : /\ Creating(q)' <=> Creating(q)
                                  /\ Fulfilling(q)' <=> Fulfilling(q)
                                  /\ request'[q].order = request[q].order
    BY DEF Creating, Fulfilling
  <2>2. Creating(r)' \/ Fulfilling(r)' => request'[r].order = o
    BY DEF Creating, Fulfilling
  <2>3. QED
    BY <2>1, <2>2 DEF Inv, Alone
<1>7. \A k \in Orders : OrderOK(k)'
  <2>1. OrderOK(o)'
    BY <1>1 DEF Inv, OrderOK, Statuses
  <2>2. \A k \in Orders \ {o} : OrderOK(k)'
    BY <1>1 DEF Inv, OrderOK
  <2>3. QED
    BY <2>1, <2>2
<1>8. QED
  BY <1>4, <1>5, <1>6, <1>7 DEF Inv

\* Whoever creates or fulfils an order is alone with it, and nobody fulfils an
\* order that is not processing or creates one that is not pending.
LEMMA Owner ==
  ASSUME Inv, NEW r \in Requests, Creating(r) \/ Fulfilling(r)
  PROVE  \A q \in Requests \ {r} :
           request[q].order = request[r].order => ~Creating(q) /\ ~Fulfilling(q)
<1> SUFFICES ASSUME NEW q \in Requests \ {r}, request[q].order = request[r].order
             PROVE  ~Creating(q) /\ ~Fulfilling(q)
  OBVIOUS
<1>1. ~(Creating(r) /\ Creating(q)) /\ ~(Fulfilling(r) /\ Fulfilling(q))
  <2>1. Alone(r, q) /\ q # r
    BY DEF Inv
  <2>2. QED
    BY <2>1 DEF Alone
<1>2. RequestOK(r) /\ RequestOK(q)
  BY DEF Inv
<1>3. ~(Creating(r) /\ Fulfilling(q)) /\ ~(Fulfilling(r) /\ Creating(q))
  BY <1>2 DEF RequestOK
<1>4. QED
  BY <1>1, <1>3

-----------------------------------------------------------------------------
(* The steps *)

\* PlaceOrder: the order is new, so that no request is at work on it.
LEMMA InvPlaceOrder ==
  ASSUME Inv, NEW r \in Requests, NEW o \in Orders, PlaceOrder(r, o)
  PROVE  Inv'
<1> DEFINE n == [kind |-> "create", order |-> o, payment |-> 0, at |-> "preference"]
<1>1. /\ n \in Request
      /\ request' = [request EXCEPT ![r] = n]
      /\ status' = [status EXCEPT ![o] = "pending"] /\ status[o] = "none"
      /\ UNCHANGED <<linked, uses, reported, served, gateway, browser>>
  BY BoundAssumption DEF PlaceOrder, Begin, Request, Places
<1>2. /\ request'[r] = n
      /\ \A q \in Requests \ {r} : request'[q] = request[q]
      /\ status'[o] = "pending"
      /\ \A k \in Orders \ {o} : status'[k] = status[k]
  BY <1>1 DEF Inv, TypeOK
<1>3. n.at = "preference" /\ n.order = o
  OBVIOUS
<1> HIDE DEF n
<1>4. TypeOK'
  BY <1>1 DEF Inv, TypeOK, Statuses, gateway, browser
<1>5. \A k \in Orders : Paid(k)' <=> Paid(k)
  BY <1>1 DEF Paid, Approved, Enough, gateway
<1>6. o \notin offered /\ served[o] = 0
  BY <1>1 DEF Inv, OrderOK
<1>7. \A q \in Requests : request[q].order = o => ~Creating(q) /\ ~Fulfilling(q)
  BY <1>1 DEF Inv, RequestOK
<1>8. \A q \in Requests : RequestOK(q)'
  <2>1. RequestOK(r)'
    BY <1>1, <1>2, <1>3, <1>6 DEF RequestOK, Creating, Fulfilling, browser
  <2>2. ASSUME NEW q \in Requests \ {r} PROVE RequestOK(q)'
    BY <1>1, <1>2, <1>5, <1>7 DEF Inv, RequestOK, Creating, Fulfilling, browser
  <2>3. QED
    BY <2>1, <2>2
<1>9. \A q, w \in Requests : Alone(q, w)'
  BY <1>2, <1>3, <1>7 DEF Inv, Alone, Creating, Fulfilling
<1>10. \A k \in Orders : OrderOK(k)'
  BY <1>1, <1>2, <1>5, <1>6 DEF Inv, OrderOK, gateway, browser
<1>11. QED
  BY <1>4, <1>8, <1>9, <1>10 DEF Inv

\* process and webhook requests begin without any condition.
LEMMA InvArrives ==
  ASSUME Inv, NEW r \in Requests, Arrives(r)
  PROVE  Inv'
<1>1. ASSUME NEW o \in Orders, PlaceOrder(r, o) PROVE Inv'
  BY <1>1, InvPlaceOrder
<1>2. CASE Return(r)
  <2> DEFINE n == [kind |-> "process", order |-> stored, payment |-> 0, at |-> "search"]
  <2>1. stored \in Orders
    BY <1>2 DEF Inv, TypeOK, Return
  <2>2. n \in Request /\ n.at = "search" /\ n.order = stored
    BY <2>1, BoundAssumption DEF Request, Places
  <2>3. request' = [request EXCEPT ![r] = n] /\ request[r] = Idle
    BY <1>2 DEF Return, Begin
  <2>4. ~Creating(r) /\ ~Fulfilling(r)
    BY <2>3 DEF Idle, Creating, Fulfilling
  <2> HIDE DEF n
  <2>5. QED
    BY <1>2, <2>1, <2>2, <2>3, <2>4, InvRequest DEF Return, gateway, browser
<1>3. ASSUME NEW o \in Orders, NEW i \in 1..MaxPayments, Notify(r, o, i) PROVE Inv'
  <2> DEFINE n == [kind |-> "webhook", order |-> o, payment |-> i, at |-> "fetch"]
  <2>1. n \in Request /\ n.at = "fetch" /\ n.order = o
    BY BoundAssumption DEF Request, Places
  <2>2. request' = [request EXCEPT ![r] = n] /\ request[r] = Idle
    BY <1>3 DEF Notify, Begin
  <2>3. ~Creating(r) /\ ~Fulfilling(r)
    BY <2>2 DEF Idle, Creating, Fulfilling
  <2> HIDE DEF n
  <2>4. QED
    BY <1>3, <2>1, <2>2, <2>3, InvRequest DEF Notify, gateway, browser
<1>4. QED
  BY <1>1, <1>2, <1>3 DEF Arrives

\* The steps of create.
LEMMA InvCreate ==
  ASSUME Inv, NEW r \in Requests,
         PreferenceMade(r) \/ PreferenceRefused(r) \/ LinkPreference(r) \/ Offer(r)
  PROVE  Inv'
<1> DEFINE o == request[r].order
<1>1. /\ Creating(r) /\ o \in Orders
      /\ status[o] = "pending" /\ o \notin offered /\ served[o] = 0
  BY DEF Inv, RequestOK, OrderOK, Creating, At,
         PreferenceMade, PreferenceRefused, LinkPreference, Offer
<1>2. \A q \in Requests \ {r} : request[q].order = o => ~Creating(q) /\ ~Fulfilling(q)
  BY <1>1, Owner
<1>3. status \in [Orders -> Statuses] /\ served \in [Orders -> Nat] /\ request \in [Requests -> Request]
  BY DEF Inv, TypeOK
<1>4. served = [served EXCEPT ![o] = 0] /\ status = [status EXCEPT ![o] = "pending"]
  BY <1>1, <1>3
<1>5. Idle \in Request
  BY BoundAssumption DEF Idle, Request, Places
<1> HIDE DEF o
<1>6. CASE PreferenceMade(r)
  BY <1>1, <1>6, InvReaches DEF PreferenceMade, Places, At, panel, gateway, browser
<1>7. CASE PreferenceRefused(r)
  <2>1. /\ request' = [request EXCEPT ![r] = Idle]
        /\ status' = [status EXCEPT ![o] = "failed"]
        /\ UNCHANGED <<linked, uses, reported, served, gateway, browser>>
    BY <1>7 DEF PreferenceRefused, Ends, Saved, o
  <2>2. TypeOK'
    BY <1>3, <1>5, <2>1 DEF Inv, TypeOK, Statuses, gateway, browser
  <2>3. /\ request'[r].at = "idle" /\ request'[r].order = NoOrder
        /\ \A q \in Requests \ {r} : request'[q] = request[q]
        /\ status'[o] = "failed" /\ served'[o] = 0
        /\ \A k \in Orders \ {o} : status'[k] = status[k] /\ served'[k] = served[k]
    BY <1>1, <1>3, <2>1 DEF Idle, Request, o
  <2>4. QED
    BY <1>1, <1>2, <2>1, <2>2, <2>3, InvOrder
       DEF o, Statuses, Places, Creating, Fulfilling, gateway, browser
<1>8. CASE LinkPreference(r)
  <2>1. /\ request' = [request EXCEPT ![r].at = "offer"]
        /\ linked' = linked \cup {o}
        /\ UNCHANGED <<status, uses, reported, served, gateway, browser>>
    BY <1>8 DEF LinkPreference, Reaches, o
  <2>2. request' \in [Requests -> Request]
    BY <1>3, <2>1, Moved DEF Inv, Places
  <2>3. TypeOK'
    BY <1>1, <2>1, <2>2 DEF Inv, TypeOK, gateway, browser
  <2>4. /\ request'[r].at = "offer" /\ request'[r].order = o
        /\ \A q \in Requests \ {r} : request'[q] = request[q]
        /\ status'[o] = "pending" /\ served'[o] = 0
        /\ \A k \in Orders \ {o} : status'[k] = status[k] /\ served'[k] = served[k]
    BY <1>1, <1>3, <2>1 DEF Idle, Request, o
  <2>5. QED
    BY <1>1, <1>2, <2>1, <2>3, <2>4, InvOrder
       DEF o, Statuses, Places, Creating, Fulfilling, gateway, browser
<1>9. CASE Offer(r)
  <2>1. /\ request' = [request EXCEPT ![r] = Idle]
        /\ offered' = offered \cup {o} /\ stored' = o
        /\ UNCHANGED <<panel, gateway>>
    BY <1>9 DEF Offer, Ends, o
  <2>2. TypeOK'
    BY <1>1, <1>3, <1>5, <2>1 DEF Inv, TypeOK, panel, gateway
  <2>3. /\ request'[r].at = "idle" /\ request'[r].order = NoOrder
        /\ \A q \in Requests \ {r} : request'[q] = request[q]
        /\ status'[o] = "pending" /\ served'[o] = 0
        /\ \A k \in Orders \ {o} : status'[k] = status[k] /\ served'[k] = served[k]
    BY <1>1, <1>3, <2>1 DEF Idle, Request, panel, o
  <2>4. QED
    BY <1>1, <1>2, <2>1, <2>2, <2>3, InvOrder
       DEF o, Statuses, Places, Creating, Fulfilling, panel, gateway
<1>10. QED
  BY <1>6, <1>7, <1>8, <1>9

\* What process and webhook find out before they claim.
LEMMA InvLookup ==
  ASSUME Inv, NEW r \in Requests,
         \/ Search(r) \/ SearchFails(r)
         \/ FetchIgnored(r) \/ Fetch(r) \/ FetchMissed(r) \/ Restore(r) \/ ClaimRefused(r)
  PROVE  Inv'
<1>1. CASE Search(r)
  <2> DEFINE o == request[r].order
  <2>1. PICK i \in Found(o) :
          /\ Enough(o, i)
          /\ request' = [request EXCEPT ![r].at = "claim", ![r].payment = i]
    BY <1>1 DEF Search
  <2>2. request[r].at = "search" /\ o \in Orders /\ UNCHANGED <<panel, gateway, browser>>
    BY <1>1 DEF Search, At, Inv, RequestOK
  <2>3. i \in Approved(o) /\ i \in 1..Len(payments[o]) /\ Len(payments[o]) <= MaxPayments
    BY <2>1, <2>2 DEF Found, Approved, Inv, TypeOK
  <2>4. Paid(o)
    BY <2>1, <2>3 DEF Paid
  <2>5. i \in 0..MaxPayments
    BY <2>2, <2>3, BoundAssumption DEF Inv, TypeOK
  <2> DEFINE n == [request[r] EXCEPT !.at = "claim", !.payment = i]
  <2>6. request[r] \in Request
    BY DEF Inv, TypeOK
  <2>7. n \in Request /\ n.at = "claim" /\ n.order = o
    BY <2>5, <2>6 DEF Request, Places
  <2>8. request' = [request EXCEPT ![r] = n]
    BY <2>1
  <2>9. ~Creating(r) /\ ~Fulfilling(r)
    BY <2>2 DEF Creating, Fulfilling
  <2> HIDE DEF n, o
  <2>10. QED
    BY <2>2, <2>4, <2>7, <2>8, <2>9, InvRequest DEF gateway, browser
<1>2. CASE SearchFails(r)
  BY <1>2, InvEnds DEF SearchFails, gateway, browser
<1>3. CASE FetchIgnored(r) \/ FetchMissed(r) \/ ClaimRefused(r)
  BY <1>3, InvEnds DEF FetchIgnored, FetchMissed, ClaimRefused, Replies, Acknowledged, browser
<1>4. CASE Restore(r)
  <2>1. /\ Ends(r) /\ notices' \subseteq notices
        /\ UNCHANGED <<linked, uses, reported, served, payments, browser>>
    BY <1>4 DEF Restore, Replies, Acknowledged
  <2>2. status' = status
    BY <1>4 DEF Restore, Saved, Inv, TypeOK
  <2>3. QED
    BY <2>1, <2>2, InvEnds DEF panel, browser
<1>5. CASE Fetch(r)
  <2> DEFINE o == request[r].order
             p == IF Enough(o, request[r].payment) THEN "claim" ELSE "restore"
  <2>1. /\ request[r].at = "fetch" /\ ~Ignored(o, request[r].payment)
        /\ Reaches(r, p) /\ UNCHANGED <<panel, gateway, browser>>
    BY <1>5 DEF Fetch, At
  <2>2. p = "claim" => Paid(o)
    BY <2>1 DEF Ignored, Paid
  <2>3. p \in Places /\ p \in {"claim", "restore"}
    BY DEF Places
  <2> HIDE DEF p
  <2>4. QED
    BY <2>1, <2>2, <2>3, InvReaches DEF gateway, browser
<1>6. QED
  BY <1>1, <1>2, <1>3, <1>4, <1>5

\* The claim makes the request that wins it the order's only writer.
LEMMA InvClaim ==
  ASSUME Inv, NEW r \in Requests, Claim(r)
  PROVE  Inv'
<1> DEFINE o == request[r].order
<1>1. /\ request[r].at = "claim" /\ o \in Orders /\ Paid(o) /\ status[o] = "pending"
      /\ served[o] = 0 /\ o \in offered
  <2>1. request[r].at = "claim" /\ o \in Orders /\ Paid(o) /\ status[o] = "pending"
    BY DEF Claim, Claimable, Inv, RequestOK
  <2>2. QED
    BY <2>1, UnpaidAtFirst DEF Inv, OrderOK
<1>2. /\ request' = [request EXCEPT ![r].at = "deliver"]
      /\ status' = [status EXCEPT ![o] = "processing"]
      /\ uses' = IF Usable(o) THEN uses + 1 ELSE uses
      /\ UNCHANGED <<linked, reported, served, gateway, browser>>
  BY DEF Claim, Reaches
<1>3. \A q \in Requests \ {r} : request[q].order = o => ~Creating(q) /\ ~Fulfilling(q)
  BY <1>1 DEF Inv, RequestOK
<1> HIDE DEF o
<1>4. request' \in [Requests -> Request]
  BY <1>2, Moved DEF Inv, TypeOK, Places
<1>5. uses' \in 0..MaxUses
  BY <1>2, UsesAssumption DEF Usable, Inv, TypeOK
<1>6. TypeOK'
  BY <1>1, <1>2, <1>4, <1>5 DEF Inv, TypeOK, Statuses, gateway, browser
<1>7. /\ request'[r].at = "deliver" /\ request'[r].order = o
      /\ \A q \in Requests \ {r} : request'[q] = request[q]
      /\ status'[o] = "processing" /\ served'[o] = 0
      /\ \A k \in Orders \ {o} : status'[k] = status[k] /\ served'[k] = served[k]
  BY <1>1, <1>2 DEF Inv, TypeOK, Request, o
<1>8. QED
  BY <1>1, <1>2, <1>3, <1>6, <1>7, InvOrder
     DEF o, Statuses, Places, Creating, Fulfilling, gateway, browser

\* The steps of fulfill and failOrder.
LEMMA InvFulfill ==
  ASSUME Inv, NEW r \in Requests, Deliver(r) \/ Throws(r) \/ Finish(r) \/ Fail(r)
  PROVE  Inv'
<1> DEFINE o == request[r].order
<1>1. /\ Fulfilling(r) /\ o \in Orders /\ status[o] = "processing"
      /\ Paid(o) /\ served[o] \in {0, 1}
  <2>1. Fulfilling(r) /\ o \in Orders /\ status[o] = "processing"
    BY DEF Deliver, Throws, Finish, Fail, Fulfilling, Inv, RequestOK
  <2>2. OrderOK(o) /\ served[o] \in Nat
    BY <2>1 DEF Inv, TypeOK
  <2>3. QED
    BY <2>1, <2>2 DEF OrderOK
<1>2. \A q \in Requests \ {r} : request[q].order = o => ~Creating(q) /\ ~Fulfilling(q)
  BY <1>1, Owner
<1>3. \A p \in Places : [request EXCEPT ![r].at = p] \in [Requests -> Request]
  BY Moved DEF Inv, TypeOK
<1>4. served = [served EXCEPT ![o] = served[o]] /\ status = [status EXCEPT ![o] = "processing"]
  BY <1>1 DEF Inv, TypeOK
<1>10. /\ request \in [Requests -> Request] /\ status \in [Orders -> Statuses]
       /\ served \in [Orders -> Nat]
  BY DEF Inv, TypeOK
<1> HIDE DEF o
<1>5. CASE Deliver(r)
  <2>1. /\ request[r].at = "deliver" /\ served[o] = 0
        /\ request' = [request EXCEPT ![r].at = "finish"]
        /\ served' = [served EXCEPT ![o] = @ + 1]
        /\ UNCHANGED <<status, linked, uses, reported, gateway, browser>>
    BY <1>5 DEF Deliver, Reaches, Inv, RequestOK, o
  <2>2. served' = [served EXCEPT ![o] = 1] /\ served' \in [Orders -> Nat]
    BY <2>1, <1>1 DEF Inv, TypeOK
  <2>3. TypeOK'
    BY <1>3, <2>1, <2>2 DEF Inv, TypeOK, Places, gateway, browser
  <2>4. /\ request'[r].at = "finish" /\ request'[r].order = o
        /\ \A q \in Requests \ {r} : request'[q] = request[q]
        /\ status'[o] = "processing" /\ served'[o] = 1
        /\ \A k \in Orders \ {o} : status'[k] = status[k] /\ served'[k] = served[k]
    BY <1>1, <1>10, <2>1, <2>2 DEF Request, o
  <2>5. QED
    BY <1>1, <1>2, <2>1, <2>3, <2>4, InvOrder
       DEF o, Statuses, Places, Creating, Fulfilling, gateway, browser
<1>6. CASE Throws(r)
  BY <1>1, <1>6, InvReaches DEF Throws, Places, panel, gateway, browser
<1>7. CASE Finish(r)
  <2>1. /\ request[r].at = "finish" /\ served[o] = 1
        /\ request' = [request EXCEPT ![r].at = "answer"]
        /\ status' = [status EXCEPT ![o] = "processed"]
        /\ UNCHANGED <<linked, uses, reported, served, gateway, browser>>
    BY <1>7 DEF Finish, Reaches, Saved, Inv, RequestOK, o
  <2>2. TypeOK'
    BY <1>3, <2>1 DEF Inv, TypeOK, Places, Statuses, gateway, browser
  <2>3. /\ request'[r].at = "answer" /\ request'[r].order = o
        /\ \A q \in Requests \ {r} : request'[q] = request[q]
        /\ status'[o] = "processed" /\ served'[o] = 1
        /\ \A k \in Orders \ {o} : status'[k] = status[k] /\ served'[k] = served[k]
    BY <1>1, <1>10, <2>1 DEF Request, o
  <2>4. QED
    BY <1>1, <1>2, <2>1, <2>2, <2>3, InvOrder
       DEF o, Statuses, Places, Creating, Fulfilling, gateway, browser
<1>8. CASE Fail(r)
  <2>1. /\ request' = [request EXCEPT ![r].at = "report"]
        /\ status' = [status EXCEPT ![o] = "failed"]
        /\ UNCHANGED <<linked, uses, reported, served, gateway, browser>>
    BY <1>8 DEF Fail, Reaches, Saved, FailedStatus, o
  <2>2. TypeOK'
    BY <1>3, <2>1 DEF Inv, TypeOK, Places, Statuses, gateway, browser
  <2>3. /\ request'[r].at = "report" /\ request'[r].order = o
        /\ \A q \in Requests \ {r} : request'[q] = request[q]
        /\ status'[o] = "failed" /\ served'[o] = served[o]
        /\ \A k \in Orders \ {o} : status'[k] = status[k] /\ served'[k] = served[k]
    BY <1>1, <1>10, <2>1 DEF Request, o
  <2>4. QED
    BY <1>1, <1>2, <2>1, <2>2, <2>3, InvOrder
       DEF o, Statuses, Places, Creating, Fulfilling, gateway, browser
<1>9. QED
  BY <1>5, <1>6, <1>7, <1>8

\* Reporting a failure and answering a request change no order.
LEMMA InvReports ==
  ASSUME Inv, NEW r \in Requests, Report(r) \/ Answer(r) \/ Crash(r)
  PROVE  Inv'
<1>1. CASE Report(r)
  <2> DEFINE o == request[r].order
  <2>1. /\ o \in Orders /\ request[r].at = "report"
        /\ request' = [request EXCEPT ![r] = Idle]
        /\ reported' = reported \cup {o}
        /\ notices' \subseteq notices
        /\ UNCHANGED <<status, linked, uses, served, payments, browser>>
    BY <1>1 DEF Report, Reported, Replies, Ends, Acknowledged, Inv, RequestOK
  <2>2. Idle \in Request /\ Idle.at = "idle"
    BY Moved, <2>1 DEF Inv, Places
  <2>3. TypeOK'
    BY <2>1, <2>2 DEF Inv, TypeOK, browser
  <2>4. /\ request'[r].at = "idle"
        /\ \A q \in Requests \ {r} : request'[q] = request[q]
    BY <2>1, <2>2 DEF Inv, TypeOK
  <2>5. \A k \in Orders : Paid(k)' <=> Paid(k)
    BY <2>1 DEF Paid, Approved, Enough
  <2>6. \A q \in Requests : RequestOK(q)'
    BY <2>1, <2>4, <2>5 DEF Inv, RequestOK, Creating, Fulfilling, browser
  <2>7. \A p, q \in Requests : Alone(p, q)'
    BY <2>4 DEF Inv, Alone, Creating, Fulfilling
  <2>8. \A k \in Orders : OrderOK(k)'
    BY <2>1, <2>5 DEF Inv, OrderOK, browser
  <2>9. QED
    BY <2>3, <2>6, <2>7, <2>8 DEF Inv
<1>2. CASE Answer(r)
  <2>1. /\ Ends(r) /\ notices' \subseteq notices
        /\ stored' \in {stored, NoOrder} /\ UNCHANGED <<panel, payments, offered>>
    BY <1>2 DEF Answer, Replies, Acknowledged
  <2>2. QED
    BY <2>1, InvEnds
<1>3. CASE Crash(r)
  BY <1>3, InvEnds DEF Crash, gateway, browser
<1>4. QED
  BY <1>1, <1>2, <1>3

\* Every step of the customer, of the gateway and of the requests keeps the
\* invariant.
LEMMA InvNext == Inv /\ [Next]_vars => Inv'
<1> SUFFICES ASSUME Inv, [Next]_vars PROVE Inv'
  OBVIOUS
<1>1. CASE Customer
  BY <1>1, InvCustomer
<1>2. ASSUME NEW r \in Requests, Arrives(r) PROVE Inv'
  BY <1>2, InvArrives
<1>3. ASSUME NEW r \in Requests, Runs(r) PROVE Inv'
  BY <1>3, InvCreate, InvLookup, InvClaim, InvFulfill, InvReports DEF Runs
<1>4. ASSUME NEW r \in Requests, Crash(r) PROVE Inv'
  BY <1>4, InvReports
<1>5. CASE UNCHANGED vars
  <2>1. UNCHANGED <<status, linked, uses, reported, served, payments, notices, offered, stored, request>>
    BY <1>5 DEF vars, panel, gateway, browser
  <2>2. TypeOK'
    BY <2>1 DEF Inv, TypeOK
  <2>3. \A o \in Orders : Paid(o)' <=> Paid(o)
    BY <2>1 DEF Paid, Approved, Enough
  <2>4. \A r \in Requests : RequestOK(r)'
    BY <2>1, <2>3 DEF Inv, RequestOK, Creating, Fulfilling
  <2>5. \A r, q \in Requests : Alone(r, q)'
    BY <2>1 DEF Inv, Alone, Creating, Fulfilling
  <2>6. \A o \in Orders : OrderOK(o)'
    BY <2>1, <2>3 DEF Inv, OrderOK
  <2>7. QED
    BY <2>2, <2>4, <2>5, <2>6 DEF Inv
<1>6. QED
  BY <1>1, <1>2, <1>3, <1>4, <1>5 DEF Next

\* The inductive invariant of the checkout: who is at work on an order, what
\* its status then is, and what was paid and served.
THEOREM Invariance == Spec => []Inv
BY InvInit, InvNext, PTL DEF Spec

\* Always every variable has its type; in particular a discount code is used no
\* more often than it may be (`isValid' under the lock of claimPendingOrder).
THEOREM CheckoutTyping == Spec => []TypeOK
<1>1. Inv => TypeOK
  BY DEF Inv
<1>2. QED
  BY <1>1, Invariance, PTL

\* Always at most one request fulfils an order, and only while it is processing,
\* however many returns and notifications are handled at once.
THEOREM Sole == Spec => []SoleFulfilment
<1>1. Inv => SoleFulfilment
  <2> SUFFICES ASSUME Inv, NEW r \in Requests, NEW q \in Requests, Fulfilling(r)
               PROVE  /\ status[request[r].order] = "processing"
                      /\ Fulfilling(q) /\ request[q].order = request[r].order => q = r
    BY DEF SoleFulfilment
  <2>1. RequestOK(r) /\ Alone(r, q)
    BY DEF Inv
  <2>2. QED
    BY <2>1 DEF RequestOK, Alone
<1>2. QED
  BY <1>1, Invariance, PTL

\* Always an order has been served at most once, only if it was paid in full,
\* and exactly once if it is processed: through crashes, repeated notifications
\* and returns, nobody's server is deployed or renewed twice.
THEOREM ServedOnce == Spec => []ServedOnceIfPaid
<1>1. Inv => ServedOnceIfPaid
  BY DEF Inv, OrderOK, ServedOnceIfPaid
<1>2. QED
  BY <1>1, Invariance, PTL

-----------------------------------------------------------------------------
(* The checkout implements PaidOrder *)

PaidOrders == {o \in Orders : Paid(o)}

\* What a step does to the order it is about, as PaidOrder sees it.
LEMMA OtherSteps ==
  ASSUME UNCHANGED <<status, served, payments>>
  PROVE  UNCHANGED Promise!vars
BY DEF Promise!vars, Paid, Approved, Enough

\* The customer's payments are the abstract Pay, or nothing new.
LEMMA PromiseCustomer ==
  ASSUME Inv, Customer
  PROVE  [Promise!Next]_(Promise!vars)
<1>1. UNCHANGED <<status, served>> /\ PaidOrders \subseteq PaidOrders'
  BY StaysPaid DEF Inv, panel, PaidOrders
<1>2. PICK o \in Orders : o \in offered /\ \A k \in Orders \ {o} : payments'[k] = payments[k]
  <2>1. ASSUME NEW o \in Orders, NEW state, NEW enough, Pay(o, state, enough)
        PROVE  o \in offered /\ \A k \in Orders \ {o} : payments'[k] = payments[k]
    BY <2>1 DEF Pay, Inv, TypeOK
  <2>2. ASSUME NEW o \in Orders, NEW i, NEW state, Clear(o, i, state)
        PROVE  o \in offered /\ \A k \in Orders \ {o} : payments'[k] = payments[k]
    <3>1. payments[o] # <<>> /\ \A k \in Orders \ {o} : payments'[k] = payments[k]
      BY <2>2 DEF Clear, Inv, TypeOK
    <3>2. QED
      BY <3>1 DEF Inv, OrderOK
  <2>3. QED
    BY <2>1, <2>2 DEF Customer
<1>3. \A k \in Orders \ {o} : Paid(k)' <=> Paid(k)
  BY <1>2 DEF Paid, Approved, Enough
<1>4. PaidOrders' = PaidOrders \/ PaidOrders' = PaidOrders \cup {o}
  BY <1>1, <1>3 DEF PaidOrders
<1>5. status[o] # "none"
  BY <1>2 DEF Inv, OrderOK
<1>6. QED
  BY <1>1, <1>4, <1>5 DEF Promise!Next, Promise!Pay, Promise!vars, PaidOrders

\* The steps that write an order's status or serve it are PaidOrder's.
LEMMA PromiseRequest ==
  ASSUME Inv, NEW r \in Requests, Arrives(r) \/ Runs(r) \/ Crash(r)
  PROVE  [Promise!Next]_(Promise!vars)
<1> DEFINE o == request[r].order
<1>1. payments' = payments
  BY DEF Arrives, Runs, PlaceOrder, Return, Notify, PreferenceMade, PreferenceRefused,
         LinkPreference, Offer, Search, SearchFails, FetchIgnored, Fetch, FetchMissed, Restore,
         Claim, ClaimRefused, Deliver, Throws, Finish, Answer, Fail, Report, Crash, Replies, gateway
<1>2. PaidOrders' = PaidOrders
  BY <1>1 DEF PaidOrders, Paid, Approved, Enough
<1>3. RequestOK(r)
  BY DEF Inv
<1>4. ASSUME NEW k \in Orders, PlaceOrder(r, k) PROVE Promise!Next
  BY <1>2, <1>4 DEF PlaceOrder, Promise!Next, Promise!Place, Promise!Becomes, PaidOrders
<1>5. CASE PreferenceRefused(r)
  <2>1. o \in Orders /\ status[o] = "pending" /\ o \notin offered
    BY <1>3, <1>5 DEF PreferenceRefused, At, RequestOK, Creating
  <2>2. o \notin PaidOrders
    BY <2>1, UnpaidAtFirst DEF Inv, OrderOK, PaidOrders
  <2>3. QED
    BY <1>2, <1>5, <2>1, <2>2
       DEF PreferenceRefused, Saved, Promise!Next, Promise!Abandon, Promise!Becomes, PaidOrders
<1>6. CASE Claim(r)
  <2>1. o \in Orders /\ o \in PaidOrders /\ status[o] = "pending"
    BY <1>3, <1>6 DEF Claim, Claimable, RequestOK, PaidOrders
  <2>2. QED
    BY <1>2, <1>6, <2>1 DEF Claim, Promise!Next, Promise!Take, Promise!Becomes, PaidOrders
<1>7. CASE Deliver(r)
  <2>1. o \in Orders /\ status[o] = "processing" /\ served[o] = 0
    BY <1>3, <1>7 DEF Deliver, RequestOK, Fulfilling
  <2>2. served' = [served EXCEPT ![o] = 1] /\ status' = status
    BY <1>7, <2>1 DEF Deliver
  <2>3. QED
    BY <1>2, <2>1, <2>2 DEF Promise!Next, Promise!Serve, PaidOrders
<1>8. CASE Finish(r)
  <2>1. o \in Orders /\ status[o] = "processing" /\ served[o] = 1
    BY <1>3, <1>8 DEF Finish, RequestOK, Fulfilling
  <2>2. QED
    BY <1>2, <1>8, <2>1
       DEF Finish, Saved, Promise!Next, Promise!Close, Promise!Becomes, PaidOrders
<1>9. CASE Fail(r)
  <2>1. o \in Orders /\ status[o] = "processing"
    BY <1>3, <1>9 DEF Fail, RequestOK, Fulfilling
  <2>2. QED
    BY <1>2, <1>9, <2>1
       DEF Fail, FailedStatus, Saved, Promise!Next, Promise!Fail, Promise!Becomes, PaidOrders
<1>10. CASE Restore(r)
  <2>1. status' = status /\ served' = served
    BY <1>10 DEF Restore, Saved, Inv, TypeOK
  <2>2. QED
    BY <1>1, <2>1, OtherSteps
<1>11. CASE \/ Return(r) \/ PreferenceMade(r) \/ LinkPreference(r) \/ Offer(r) \/ Search(r)
            \/ SearchFails(r) \/ FetchIgnored(r) \/ Fetch(r) \/ FetchMissed(r) \/ ClaimRefused(r)
            \/ Throws(r) \/ Answer(r) \/ Report(r) \/ Crash(r)
            \/ \E k \in Orders, i \in 1..MaxPayments : Notify(r, k, i)
  <2>1. status' = status /\ served' = served
    BY <1>11 DEF Return, PreferenceMade, LinkPreference, Offer, Search, SearchFails, FetchIgnored,
         Fetch, FetchMissed, ClaimRefused, Throws, Answer, Report, Crash, Notify, panel
  <2>2. QED
    BY <1>1, <2>1, OtherSteps
<1>12. QED
  BY <1>4, <1>5, <1>6, <1>7, <1>8, <1>9, <1>10, <1>11 DEF Arrives, Runs

\* The checkout implements PaidOrder: each order is taken once and only when it
\* is paid, served once by whoever took it, and no decision about it is undone.
THEOREM Implements == Spec => ImplementsPaidOrder
<1>1. Init => Promise!Init
  BY UnpaidAtFirst DEF Init, Promise!Init
<1>2. Inv /\ [Next]_vars => [Promise!Next]_(Promise!vars)
  <2>1. UNCHANGED vars => UNCHANGED Promise!vars
    BY OtherSteps DEF vars, panel, gateway
  <2>2. QED
    BY <2>1, PromiseCustomer, PromiseRequest DEF Next
<1>3. QED
  BY <1>1, <1>2, Invariance, PTL DEF Spec, ImplementsPaidOrder, Promise!Spec

-----------------------------------------------------------------------------
(* Orders and their preferences *)

\* An order has its preference once `create' is past linking it, and before that
\* it is in nobody's hands.
LinkInv ==
  /\ \A r \in Requests : request[r].at = "preference" => request[r].order \notin linked
  /\ \A r \in Requests : request[r].at = "offer" => request[r].order \in linked
  /\ offered \subseteq linked
  /\ \A o \in Orders : status[o] = "none" => o \notin linked

\* A step of requests alone, none of which comes to create an order.
LEMMA LinksKept ==
  ASSUME LinkInv, UNCHANGED <<linked, offered>>,
         \A o \in Orders : status'[o] = "none" => status[o] = "none",
         \A q \in Requests :
           \/ request'[q] = request[q]
           \/ request'[q].at \notin {"preference", "offer"}
  PROVE  LinkInv'
BY DEF LinkInv

\* Every step keeps the order's links.
LEMMA LinkNext == Inv /\ LinkInv /\ [Next]_vars => LinkInv'
<1> SUFFICES ASSUME Inv, LinkInv, [Next]_vars PROVE LinkInv'
  OBVIOUS
<1>a. /\ request \in [Requests -> Request] /\ status \in [Orders -> Statuses]
      /\ Idle.at = "idle"
  BY DEF Inv, TypeOK, Idle
<1>1. CASE Customer \/ UNCHANGED vars
  BY <1>1, LinksKept DEF Customer, Pay, Clear, vars, panel, browser
<1>2. ASSUME NEW r \in Requests, NEW o \in Orders, PlaceOrder(r, o) PROVE LinkInv'
  <2>1. /\ request'[r].at = "preference" /\ request'[r].order = o
        /\ \A q \in Requests \ {r} : request'[q] = request[q]
        /\ status[o] = "none" /\ \A k \in Orders : status'[k] = "none" => status[k] = "none"
        /\ UNCHANGED <<linked, offered>>
    BY <1>a, <1>2 DEF PlaceOrder, Begin, browser
  <2>2. QED
    BY <2>1 DEF LinkInv
<1>3. ASSUME NEW r \in Requests, Return(r) \/ \E o \in Orders, i \in 1..MaxPayments : Notify(r, o, i)
      PROVE  LinkInv'
  <2>1. UNCHANGED <<linked, offered, status>>
    BY <1>3 DEF Return, Notify, panel, browser
  <2>2. \E kind, o, i : \/ Begin(r, kind, o, i, "search")
                        \/ Begin(r, kind, o, i, "fetch")
    BY <1>3 DEF Return, Notify
  <2>3. /\ request'[r].at \notin {"preference", "offer"}
        /\ \A q \in Requests \ {r} : request'[q] = request[q]
    BY <1>a, <2>2 DEF Begin
  <2>4. QED
    BY <2>1, <2>3, LinksKept
<1>4. ASSUME NEW r \in Requests, LinkPreference(r) PROVE LinkInv'
  <2> DEFINE o == request[r].order
  <2>1. /\ request[r].at = "link" /\ Creating(r)
        /\ request'[r].at = "offer" /\ request'[r].order = o
        /\ \A q \in Requests \ {r} : request'[q] = request[q]
        /\ linked' = linked \cup {o} /\ UNCHANGED <<offered, status>>
    BY <1>a, <1>4 DEF LinkPreference, At, Reaches, Creating, browser, Request
  <2>2. o \in Orders /\ status[o] = "pending"
    BY <2>1 DEF Inv, RequestOK
  <2>3. \A q \in Requests \ {r} : request[q].at = "preference" => request[q].order # o
    BY <2>1, Owner DEF Creating
  <2> HIDE DEF o
  <2>4. QED
    BY <2>1, <2>2, <2>3 DEF LinkInv
<1>5. ASSUME NEW r \in Requests, Offer(r) PROVE LinkInv'
  <2>1. /\ request[r].at = "offer" /\ offered' = offered \cup {request[r].order}
        /\ request'[r].at = "idle" /\ \A q \in Requests \ {r} : request'[q] = request[q]
        /\ UNCHANGED <<linked, status>>
    BY <1>a, <1>5 DEF Offer, At, Ends, panel
  <2>2. QED
    BY <2>1 DEF LinkInv
<1>6. ASSUME NEW r \in Requests, Runs(r) \/ Crash(r), ~LinkPreference(r), ~Offer(r)
      PROVE  LinkInv'
  <2>1. UNCHANGED <<linked, offered>>
    BY <1>6 DEF Runs, PreferenceMade, PreferenceRefused, Search, SearchFails, FetchIgnored, Fetch,
                FetchMissed, Restore, Claim, ClaimRefused, Deliver, Throws, Finish, Answer, Fail,
                Report, Crash, Replies, panel, browser
  <2>2. \/ Search(r) \/ Ends(r)
        \/ Reaches(r, "link") \/ Reaches(r, "claim") \/ Reaches(r, "restore")
        \/ Reaches(r, "deliver") \/ Reaches(r, "finish") \/ Reaches(r, "answer")
        \/ Reaches(r, "fail") \/ Reaches(r, "report")
    BY <1>6 DEF Runs, PreferenceMade, PreferenceRefused, SearchFails, FetchIgnored, Fetch,
                FetchMissed, Restore, Claim, ClaimRefused, Deliver, Throws, Finish, Answer, Fail,
                Report, Crash, Replies
  <2>3. /\ request'[r].at \notin {"preference", "offer"}
        /\ \A q \in Requests \ {r} : request'[q] = request[q]
    BY <1>a, <2>2 DEF Search, Ends, Reaches, Request
  <2>4. \A o \in Orders : status'[o] = "none" => status[o] = "none"
    BY <1>a, <1>6 DEF Runs, PreferenceMade, PreferenceRefused, Search, SearchFails, FetchIgnored, Fetch,
                FetchMissed, Restore, Claim, ClaimRefused, Deliver, Throws, Finish, Answer, Fail,
                Report, Crash, Replies, Saved, FailedStatus, panel
  <2>5. QED
    BY <2>1, <2>3, <2>4, LinksKept
<1>7. QED
  BY <1>1, <1>2, <1>3, <1>4, <1>5, <1>6 DEF Next, Arrives

\* An order is linked to its preference before anybody can pay for it, and is
\* linked once (create writes transaction_id before it answers).
THEOREM Linking == Spec => []LinkInv
<1>1. Init => LinkInv
  BY DEF Init, LinkInv, Idle
<1>2. QED
  BY <1>1, LinkNext, Invariance, PTL DEF Spec

-----------------------------------------------------------------------------
(* The discount code *)

\* The coded orders that were ever claimed, and how often the code is then used.
ClaimedOrders == {o \in Coded \cap linked : status[o] \in {"processing", "processed", "failed"}}
UsesOf(n) == IF n < MaxUses THEN n ELSE MaxUses

\* Only a claim makes an order one of them, and it counts the use at once.
LEMMA ClaimCounts ==
  ASSUME Inv, LinkInv, [Next]_vars
  PROVE  \/ UNCHANGED <<ClaimedOrders, uses>>
         \/ \E o \in Coded \ ClaimedOrders :
              /\ ClaimedOrders' = ClaimedOrders \cup {o}
              /\ uses' = IF uses < MaxUses THEN uses + 1 ELSE uses
<1>a. request \in [Requests -> Request] /\ status \in [Orders -> Statuses]
  BY DEF Inv, TypeOK
<1>b. Coded \subseteq Orders
  BY OrderAssumption
<1>c. ASSUME UNCHANGED <<linked, status>> PROVE ClaimedOrders' = ClaimedOrders
  BY <1>c DEF ClaimedOrders
<1>1. CASE Customer \/ UNCHANGED vars
  BY <1>1, <1>c DEF Customer, Pay, Clear, vars, panel
<1>2. ASSUME NEW r \in Requests, NEW o \in Orders, PlaceOrder(r, o)
      PROVE  UNCHANGED <<ClaimedOrders, uses>>
  BY <1>a, <1>b, <1>2 DEF PlaceOrder, ClaimedOrders
<1>3. ASSUME NEW r \in Requests, PreferenceRefused(r) PROVE UNCHANGED <<ClaimedOrders, uses>>
  <2>1. request[r].order \notin linked /\ linked' = linked /\ uses' = uses
    BY <1>3 DEF PreferenceRefused, At, LinkInv
  <2>2. \A k \in Orders \ {request[r].order} : status'[k] = status[k]
    BY <1>a, <1>3 DEF PreferenceRefused
  <2>3. QED
    BY <1>b, <2>1, <2>2 DEF ClaimedOrders
<1>4. ASSUME NEW r \in Requests, LinkPreference(r) PROVE UNCHANGED <<ClaimedOrders, uses>>
  <2>1. status[request[r].order] = "pending"
    BY <1>4 DEF LinkPreference, At, Inv, RequestOK, Creating
  <2>2. linked' = linked \cup {request[r].order} /\ UNCHANGED <<status, uses>>
    BY <1>4 DEF LinkPreference
  <2>3. QED
    BY <2>1, <2>2 DEF ClaimedOrders
<1>5. ASSUME NEW r \in Requests, Claim(r)
      PROVE  \/ UNCHANGED <<ClaimedOrders, uses>>
             \/ \E o \in Coded \ ClaimedOrders :
                  /\ ClaimedOrders' = ClaimedOrders \cup {o}
                  /\ uses' = IF uses < MaxUses THEN uses + 1 ELSE uses
  <2> DEFINE o == request[r].order
  <2>1. /\ o \in Orders /\ status[o] = "pending" /\ Paid(o)
        /\ status' = [status EXCEPT ![o] = "processing"] /\ linked' = linked
        /\ uses' = IF Usable(o) THEN uses + 1 ELSE uses
    BY <1>5 DEF Claim, Claimable, Inv, RequestOK
  <2>2. o \in linked
    BY <2>1, UnpaidAtFirst DEF Inv, OrderOK, LinkInv
  <2> HIDE DEF o
  <2>3. status'[o] = "processing" /\ \A k \in Orders \ {o} : status'[k] = status[k]
    BY <1>a, <2>1
  <2>4. CASE o \in Coded
    <3>1. o \notin ClaimedOrders /\ ClaimedOrders' = ClaimedOrders \cup {o}
      BY <1>b, <2>1, <2>2, <2>3, <2>4 DEF ClaimedOrders
    <3>2. uses' = IF uses < MaxUses THEN uses + 1 ELSE uses
      BY <2>1, <2>4 DEF Usable
    <3>3. QED
      BY <2>4, <3>1, <3>2
  <2>5. CASE o \notin Coded
    BY <1>b, <2>1, <2>3, <2>5 DEF ClaimedOrders, Usable
  <2>6. QED
    BY <2>4, <2>5
<1>6. ASSUME NEW r \in Requests, Finish(r) \/ Fail(r) PROVE UNCHANGED <<ClaimedOrders, uses>>
  <2> DEFINE o == request[r].order
  <2>1. /\ o \in Orders /\ status[o] = "processing" /\ UNCHANGED <<linked, uses>>
        /\ \A k \in Orders \ {o} : status'[k] = status[k]
        /\ status'[o] \in {"processed", "failed"}
    BY <1>a, <1>6 DEF Finish, Fail, Saved, FailedStatus, Inv, RequestOK, Fulfilling
  <2>2. QED
    BY <1>b, <2>1 DEF ClaimedOrders
<1>7. ASSUME NEW r \in Requests, Restore(r) PROVE UNCHANGED <<ClaimedOrders, uses>>
  <2>1. status' = status /\ UNCHANGED <<linked, uses>>
    BY <1>a, <1>7 DEF Restore, Saved
  <2>2. QED
    BY <1>c, <2>1
<1>8. ASSUME NEW r \in Requests, Arrives(r) \/ Runs(r) \/ Crash(r),
             \A o \in Orders : ~PlaceOrder(r, o),
             ~PreferenceRefused(r), ~LinkPreference(r), ~Claim(r), ~Finish(r), ~Fail(r), ~Restore(r)
      PROVE  UNCHANGED <<ClaimedOrders, uses>>
  BY <1>8, <1>c DEF Arrives, Return, Notify, Runs, PreferenceMade, Offer, Search, SearchFails,
       FetchIgnored, Fetch, FetchMissed, ClaimRefused, Deliver, Throws, Answer, Report, Crash, panel
<1>9. QED
  BY <1>1, <1>2, <1>3, <1>4, <1>5, <1>6, <1>7, <1>8 DEF Next

\* Every coded order that was ever claimed used the discount code once, until it
\* was used up (the code's use and the claim are one transaction), however often
\* requests die.
THEOREM CodeUses == Spec => []CodeUsedByClaims
<1>1. CodeUsedByClaims <=> uses = UsesOf(Cardinality(ClaimedOrders))
  BY DEF CodeUsedByClaims, ClaimedOrders, UsesOf
<1>2. Init => CodeUsedByClaims
  <2> SUFFICES ASSUME Init PROVE uses = UsesOf(Cardinality(ClaimedOrders))
    BY <1>1
  <2>1. ClaimedOrders = {}
    BY DEF Init, ClaimedOrders
  <2>2. Cardinality(ClaimedOrders) = 0
    BY <2>1, FS_EmptySet
  <2>3. QED
    BY <2>2, UsesAssumption DEF Init, UsesOf
<1>3. Inv /\ LinkInv /\ CodeUsedByClaims /\ [Next]_vars => CodeUsedByClaims'
  <2> SUFFICES ASSUME Inv, LinkInv, CodeUsedByClaims, [Next]_vars
               PROVE  CodeUsedByClaims'
    OBVIOUS
  <2>1. uses = UsesOf(Cardinality(ClaimedOrders))
    BY <1>1
  <2>2. CodeUsedByClaims' <=> uses' = UsesOf(Cardinality(ClaimedOrders'))
    BY DEF CodeUsedByClaims, ClaimedOrders, UsesOf
  <2>3. IsFiniteSet(ClaimedOrders) /\ Cardinality(ClaimedOrders) \in Nat
    <3>1. IsFiniteSet(Orders) /\ ClaimedOrders \subseteq Orders
      BY OrderAssumption DEF ClaimedOrders
    <3>2. QED
      BY <3>1, FS_Subset, FS_CardinalityType
  <2>4. ASSUME NEW o \in Coded \ ClaimedOrders, ClaimedOrders' = ClaimedOrders \cup {o},
               uses' = IF uses < MaxUses THEN uses + 1 ELSE uses
        PROVE  CodeUsedByClaims'
    <3>1. Cardinality(ClaimedOrders') = Cardinality(ClaimedOrders) + 1
      BY <2>3, <2>4, FS_AddElement
    <3>2. QED
      BY <2>1, <2>2, <2>3, <2>4, <3>1, UsesAssumption DEF UsesOf
  <2>5. ASSUME UNCHANGED <<ClaimedOrders, uses>> PROVE CodeUsedByClaims'
    BY <2>1, <2>2, <2>5
  <2>6. QED
    BY <2>4, <2>5, ClaimCounts
<1>4. QED
  BY <1>2, <1>3, Linking, Invariance, PTL DEF Spec

-----------------------------------------------------------------------------
(* Failures *)

\* A failure is written by the request that is about to report it, and the report
\* is only lost with the request.
LEMMA FailureNext ==
  ASSUME ~MayCrash, Inv, LinkInv, FailureReported, [Next]_vars
  PROVE  FailureReported'
<1>a. request \in [Requests -> Request] /\ status \in [Orders -> Statuses]
  BY DEF Inv, TypeOK
<1>b. ASSUME UNCHANGED <<status, linked, reported>>,
             \A q \in Requests : request[q].at = "report" => request'[q] = request[q]
      PROVE  FailureReported'
  BY <1>b DEF FailureReported
<1>1. CASE Customer \/ UNCHANGED vars
  BY <1>1, <1>b DEF Customer, Pay, Clear, vars, panel
<1>2. ASSUME NEW r \in Requests, NEW at \in Places, NEW kind, NEW o, NEW i, Begin(r, kind, o, i, at)
      PROVE  \A q \in Requests : request[q].at = "report" => request'[q] = request[q]
  BY <1>a, <1>2 DEF Begin, Idle
<1>3. ASSUME NEW r \in Requests, Ends(r) \/ (\E at : Reaches(r, at)) \/ Search(r),
             request[r].at # "report"
      PROVE  \A q \in Requests : request[q].at = "report" => request'[q] = request[q]
  BY <1>a, <1>3 DEF Ends, Reaches, Search
<1>4. ASSUME NEW r \in Requests, NEW o \in Orders, PlaceOrder(r, o) PROVE FailureReported'
  <2>1. \A q \in Requests : request[q].at = "report" => request'[q] = request[q]
    BY <1>2, <1>4 DEF PlaceOrder, Places
  <2>2. status'[o] # "failed" /\ (\A k \in Orders \ {o} : status'[k] = status[k])
        /\ UNCHANGED <<linked, reported>>
    BY <1>a, <1>4 DEF PlaceOrder
  <2>3. QED
    BY <2>1, <2>2 DEF FailureReported
<1>5. ASSUME NEW r \in Requests, Return(r) \/ \E o \in Orders, i \in 1..MaxPayments : Notify(r, o, i)
      PROVE  FailureReported'
  BY <1>2, <1>5, <1>b DEF Return, Notify, Places, panel
<1>6. ASSUME NEW r \in Requests, PreferenceRefused(r) PROVE FailureReported'
  <2>1. /\ request[r].at = "preference" /\ request[r].order \notin linked
        /\ UNCHANGED <<linked, reported>> /\ Ends(r)
        /\ \A k \in Orders \ {request[r].order} : status'[k] = status[k]
    BY <1>a, <1>6 DEF PreferenceRefused, At, LinkInv
  <2>2. \A q \in Requests : request[q].at = "report" => request'[q] = request[q]
    BY <1>3, <2>1
  <2>3. QED
    BY <2>1, <2>2 DEF FailureReported
<1>7. ASSUME NEW r \in Requests, LinkPreference(r) PROVE FailureReported'
  <2>1. status[request[r].order] = "pending" /\ request[r].at = "link" /\ Reaches(r, "offer")
    BY <1>7 DEF LinkPreference, At, Inv, RequestOK, Creating
  <2>2. linked' = linked \cup {request[r].order} /\ UNCHANGED <<status, reported>>
    BY <1>7 DEF LinkPreference
  <2>3. \A q \in Requests : request[q].at = "report" => request'[q] = request[q]
    BY <1>3, <2>1
  <2>4. QED
    BY <2>1, <2>2, <2>3 DEF FailureReported
<1>8. ASSUME NEW r \in Requests, Claim(r) \/ Finish(r) PROVE FailureReported'
  <2>1. /\ request[r].order \in Orders /\ status'[request[r].order] # "failed"
        /\ \A k \in Orders \ {request[r].order} : status'[k] = status[k]
        /\ UNCHANGED <<linked, reported>> /\ request[r].at # "report"
        /\ (Reaches(r, "deliver") \/ Reaches(r, "answer"))
    BY <1>a, <1>8 DEF Claim, Finish, Saved, Inv, RequestOK, Fulfilling
  <2>2. \A q \in Requests : request[q].at = "report" => request'[q] = request[q]
    BY <1>3, <2>1
  <2>3. QED
    BY <2>1, <2>2 DEF FailureReported
<1>9. ASSUME NEW r \in Requests, Fail(r) PROVE FailureReported'
  <2>1. /\ request[r].at = "fail" /\ Reaches(r, "report") /\ UNCHANGED <<linked, reported>>
        /\ \A k \in Orders \ {request[r].order} : status'[k] = status[k]
        /\ request'[r].at = "report" /\ request'[r].order = request[r].order
    BY <1>a, <1>9 DEF Fail, Reaches, Request
  <2>2. \A q \in Requests : request[q].at = "report" => request'[q] = request[q]
    BY <1>3, <2>1
  <2>3. QED
    BY <2>1, <2>2 DEF FailureReported
<1>10. ASSUME NEW r \in Requests, Report(r) PROVE FailureReported'
  <2>1. /\ UNCHANGED <<linked, status>> /\ reported' = reported \cup {request[r].order}
        /\ \A q \in Requests \ {r} : request'[q] = request[q]
    BY <1>a, <1>10 DEF Report, Reported, Replies, Ends
  <2>2. QED
    BY <2>1 DEF FailureReported
<1>11. ASSUME NEW r \in Requests, Restore(r) PROVE FailureReported'
  <2>1. status' = status /\ UNCHANGED <<linked, reported>> /\ Ends(r) /\ request[r].at # "report"
    BY <1>a, <1>11 DEF Restore, Saved, At, Replies
  <2>2. QED
    BY <1>3, <1>b, <2>1
<1>12. ASSUME NEW r \in Requests, Runs(r),
              ~PreferenceRefused(r), ~LinkPreference(r), ~Claim(r), ~Finish(r), ~Fail(r),
              ~Report(r), ~Restore(r)
       PROVE  FailureReported'
  <2>1. /\ UNCHANGED <<status, linked, reported>>
        /\ request[r].at # "report"
        /\ \/ Search(r) \/ Ends(r)
           \/ Reaches(r, "link") \/ Reaches(r, "claim") \/ Reaches(r, "restore")
           \/ Reaches(r, "finish") \/ Reaches(r, "fail")
    BY <1>12 DEF Runs, PreferenceMade, Offer, Search, SearchFails, FetchIgnored, Fetch, FetchMissed,
         ClaimRefused, Deliver, Throws, Answer, Replies, At, panel
  <2>2. \A q \in Requests : request[q].at = "report" => request'[q] = request[q]
    BY <1>3, <2>1
  <2>3. QED
    BY <1>b, <2>1, <2>2
<1>13. \A r \in Requests : ~Crash(r)
  BY DEF Crash
<1>14. QED
  BY <1>1, <1>4, <1>5, <1>6, <1>7, <1>8, <1>9, <1>10, <1>11, <1>12, <1>13 DEF Next, Arrives

\* An order that failed after it was linked to its preference has a
\* BillingException, or the request that failed it is about to write one
\* (failOrder, from process and from webhook), as long as requests do not die.
THEOREM FailuresReported ==
  ASSUME ~MayCrash
  PROVE  Spec => []FailureReported
<1>1. Init => FailureReported
  BY DEF Init, FailureReported
<1>2. Inv /\ LinkInv /\ FailureReported /\ [Next]_vars => FailureReported'
  BY FailureNext
<1>3. QED
  BY <1>1, <1>2, Linking, Invariance, PTL DEF Spec
=============================================================================

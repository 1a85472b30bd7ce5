------------------------- MODULE MercadoPagoCheckout -------------------------
(***************************************************************************)
(* Checkout with Mercado Pago (MercadoPagoController.php): a customer      *)
(* places an order and is sent to the gateway; the order is fulfilled, a   *)
(* server deployed or renewed, by whichever request first sees the         *)
(* approved payment: the one the customer's browser makes on return        *)
(* (`process'), or the gateway's notification (`webhook').                 *)
(*                                                                         *)
(* Every request is a PHP process of its own.  It talks to the gateway and *)
(* to the database in separate steps, other requests run in between, and   *)
(* it may die between any two of them.  Only `claimPendingOrder' is a      *)
(* transaction.  The gateway, the panel's models and its deployment        *)
(* service are outside the repository; they are modelled as the controller *)
(* uses them.                                                              *)
(***************************************************************************)
EXTENDS Naturals, Sequences, FiniteSets

CONSTANTS
  Orders,       \* rows of table orders, each placed at most once
  Requests,     \* PHP processes that serve the controller
  Coded,        \* orders with a discount code, the same one
  MaxUses,      \* how often the code may be used
  MaxPayments,  \* bound: payments the customer makes for one order
  MayCrash,     \* requests die in the middle
  MayMiss,      \* the gateway does not answer some of the webhook's questions
  NoOrder

ASSUME OrderAssumption == IsFiniteSet(Orders) /\ Coded \subseteq Orders /\ NoOrder \notin Orders
ASSUME UsesAssumption == MaxUses \in Nat
ASSUME BoundAssumption == MaxPayments \in Nat
ASSUME FaultAssumption == MayCrash \in BOOLEAN /\ MayMiss \in BOOLEAN

VARIABLES
  status,    \* orders.status
  linked,    \* orders whose transaction_id holds the preference
  uses,      \* uses of the discount code
  reported,  \* orders with a BillingException
  served,    \* deployments and renewals carried out for each order
  payments,  \* the gateway: payments of each order, oldest first
  notices,   \* the gateway: notifications not acknowledged yet
  offered,   \* orders whose payment page the customer was sent to
  stored,    \* the browser: order of the preference in localStorage
  request    \* what each PHP process is doing

panel   == <<status, linked, uses, reported, served>>
gateway == <<payments, notices>>
browser == <<offered, stored>>
vars == <<panel, gateway, browser, request>>

-----------------------------------------------------------------------------
(* Requests *)

Idle == [kind |-> "none", order |-> NoOrder, payment |-> 0, at |-> "idle"]

Begin(r, kind, o, i, at) ==
  /\ request[r] = Idle
  /\ request' = [request EXCEPT ![r] = [kind |-> kind, order |-> o, payment |-> i, at |-> at]]
At(r, kind, at) == request[r].kind = kind /\ request[r].at = at
Reaches(r, at) == request' = [request EXCEPT ![r].at = at]
Ends(r) == request' = [request EXCEPT ![r] = Idle]

\* A webhook that ends in any way but a crash answers 200, which acknowledges
\* the notification.
Acknowledged(r) ==
  IF request[r].kind = "webhook"
  THEN notices \ {<<request[r].order, request[r].payment>>} ELSE notices
Replies(r) ==
  /\ Ends(r)
  /\ notices' = Acknowledged(r)
  /\ UNCHANGED payments

\* Bug: a status is written whether the instance in memory differs or not.
SavedAlways(held, value, row) == value
\* Eloquent writes an attribute only if it differs from the one it loaded:
\* `held' is the loaded status, `row' the one in the table by now.
Saved(held, value, row) == IF held = value THEN row ELSE value

-----------------------------------------------------------------------------
(* The gateway and the customer *)

Approved(o) == {i \in DOMAIN payments[o] : payments[o][i].state = "approved"}
Enough(o, i) == payments[o][i].enough
Paid(o) == \E i \in Approved(o) : Enough(o, i)

\* The customer pays on the gateway's page: at once, or by a slow method (Pix).
\* `enough' is what assertPaymentMatchesOrder decides of amount and currency.
Pay(o, state, enough) ==
  /\ o \in offered
  /\ Len(payments[o]) < MaxPayments
  /\ payments' = [payments EXCEPT ![o] = Append(@, [state |-> state, enough |-> enough])]
  /\ notices' = notices \cup {<<o, Len(payments[o]) + 1>>}
  /\ UNCHANGED <<panel, browser, request>>

\* A slow payment clears, or does not; the gateway notifies again.
Clear(o, i, state) ==
  /\ i \in DOMAIN payments[o]
  /\ payments[o][i].state = "pending"
  /\ payments' = [payments EXCEPT ![o][i].state = state]
  /\ notices' = notices \cup {<<o, i>>}
  /\ UNCHANGED <<panel, browser, request>>

-----------------------------------------------------------------------------
(* create *)

PlaceOrder(r, o) ==
  /\ status[o] = "none"
  /\ Begin(r, "create", o, 0, "preference")
  /\ status' = [status EXCEPT ![o] = "pending"]
  /\ UNCHANGED <<linked, uses, reported, served, gateway, browser>>

PreferenceMade(r) ==
  /\ At(r, "create", "preference")
  /\ Reaches(r, "link")
  /\ UNCHANGED <<panel, gateway, browser>>

PreferenceRefused(r) ==
  /\ At(r, "create", "preference")
  /\ Ends(r)
  /\ status' = [status EXCEPT ![request[r].order] = Saved("pending", "failed", @)]
  /\ UNCHANGED <<linked, uses, reported, served, gateway, browser>>

LinkPreference(r) ==
  /\ At(r, "create", "link")
  /\ Reaches(r, "offer")
  /\ linked' = linked \cup {request[r].order}
  /\ UNCHANGED <<status, uses, reported, served, gateway, browser>>

\* The answer reaches the browser, which remembers the preference and goes to
\* the payment page.
Offer(r) ==
  /\ At(r, "create", "offer")
  /\ Ends(r)
  /\ offered' = offered \cup {request[r].order}
  /\ stored' = request[r].order
  /\ UNCHANGED <<panel, gateway>>

-----------------------------------------------------------------------------
(* process *)

\* The customer comes back; the browser asks about the preference it remembers.
\* An order that is not pending is refused.
Return(r) ==
  /\ stored \in linked
  /\ status[stored] = "pending"
  /\ Begin(r, "process", stored, 0, "search")
  /\ UNCHANGED <<panel, gateway, browser>>

\* Bug: a payment that has not cleared is as good.
FoundInAnyState(o) == {i \in DOMAIN payments[o] : \A j \in DOMAIN payments[o] : j <= i}
\* findApprovedPayment: the most recent approved payment of the order.
Found(o) == {i \in Approved(o) : \A j \in Approved(o) : j <= i}

Search(r) ==
  /\ At(r, "process", "search")
  /\ \E i \in Found(request[r].order) :
       /\ Enough(request[r].order, i)
       /\ request' = [request EXCEPT ![r].at = "claim", ![r].payment = i]
  /\ UNCHANGED <<panel, gateway, browser>>

\* The gateway does not answer, or has no approved payment that matches.
SearchFails(r) ==
  /\ At(r, "process", "search")
  /\ Ends(r)
  /\ UNCHANGED <<panel, gateway, browser>>

-----------------------------------------------------------------------------
(* webhook *)

\* A notification arrives, perhaps again; its signature is valid.
Notify(r, o, i) ==
  /\ <<o, i>> \in notices
  /\ Begin(r, "webhook", o, i, "fetch")
  /\ UNCHANGED <<panel, gateway, browser>>

\* The payment is fetched and the order looked up: nothing to do, a payment that
\* does not match, or an order to claim.
Ignored(o, i) == i \notin Approved(o) \/ status[o] # "pending"

FetchIgnored(r) ==
  /\ At(r, "webhook", "fetch")
  /\ Ignored(request[r].order, request[r].payment)
  /\ Replies(r)
  /\ UNCHANGED <<panel, browser>>

Fetch(r) ==
  /\ At(r, "webhook", "fetch")
  /\ ~Ignored(request[r].order, request[r].payment)
  /\ Reaches(r, IF Enough(request[r].order, request[r].payment) THEN "claim" ELSE "restore")
  /\ UNCHANGED <<panel, gateway, browser>>

\* The gateway does not answer: the notification is acknowledged all the same.
FetchMissed(r) ==
  /\ MayMiss
  /\ At(r, "webhook", "fetch")
  /\ Replies(r)
  /\ UNCHANGED <<panel, browser>>

\* `$order->setStatus(Order::STATUS_PENDING)' on the instance loaded before.
Restore(r) ==
  /\ At(r, "webhook", "restore")
  /\ status' = [status EXCEPT ![request[r].order] = Saved("pending", "pending", @)]
  /\ Replies(r)
  /\ UNCHANGED <<linked, uses, reported, served, browser>>

-----------------------------------------------------------------------------
(* claimPendingOrder and fulfill *)

\* Bug: the status is not read again under the lock.
ClaimableUnlocked(o) == TRUE
Claimable(o) == status[o] = "pending"

\* Bug: the validity of the code is not read again under the lock.
UsableUnlocked(o) == o \in Coded
Usable(o) == o \in Coded /\ uses < MaxUses

Claim(r) ==
  LET o == request[r].order IN
  /\ request[r].at = "claim"
  /\ Claimable(o)
  /\ status' = [status EXCEPT ![o] = "processing"]
  /\ uses' = IF Usable(o) THEN uses + 1 ELSE uses
  /\ Reaches(r, "deliver")
  /\ UNCHANGED <<linked, reported, served, gateway, browser>>

ClaimRefused(r) ==
  /\ request[r].at = "claim"
  /\ ~Claimable(request[r].order)
  /\ Replies(r)
  /\ UNCHANGED <<panel, browser>>

\* The server is deployed or renewed.
Deliver(r) ==
  /\ request[r].at = "deliver"
  /\ served' = [served EXCEPT ![request[r].order] = @ + 1]
  /\ Reaches(r, "finish")
  /\ UNCHANGED <<status, linked, uses, reported, gateway, browser>>

\* Anything thrown before or after the delivery: the order fails.
Throws(r) ==
  /\ request[r].at \in {"deliver", "finish"}
  /\ Reaches(r, "fail")
  /\ UNCHANGED <<panel, gateway, browser>>

Finish(r) ==
  /\ request[r].at = "finish"
  /\ status' = [status EXCEPT ![request[r].order] = Saved("processing", "processed", @)]
  /\ Reaches(r, "answer")
  /\ UNCHANGED <<linked, uses, reported, served, gateway, browser>>

\* On the answer to `process' the browser forgets its preference, whichever it
\* is by now.
Answer(r) ==
  /\ request[r].at = "answer"
  /\ Replies(r)
  /\ stored' = IF request[r].kind = "process" THEN NoOrder ELSE stored
  /\ UNCHANGED <<panel, offered>>

\* Bug: failing goes back to pending, so that the customer may try again.
FailedStatusPending == "pending"
FailedStatus == "failed"

Fail(r) ==
  /\ request[r].at = "fail"
  /\ status' = [status EXCEPT ![request[r].order] = Saved("processing", FailedStatus, @)]
  /\ Reaches(r, "report")
  /\ UNCHANGED <<linked, uses, reported, served, gateway, browser>>

\* Bug: only what fails in the background is reported.
ReportedByWebhook(r) == IF request[r].kind = "webhook" THEN {request[r].order} ELSE {}
Reported(r) == {request[r].order}

Report(r) ==
  /\ request[r].at = "report"
  /\ reported' = reported \cup Reported(r)
  /\ Replies(r)
  /\ UNCHANGED <<status, linked, uses, served, browser>>

\* The process is killed, loses the database, or throws what nothing catches.
Crash(r) ==
  /\ MayCrash
  /\ request[r] # Idle
  /\ Ends(r)
  /\ UNCHANGED <<panel, gateway, browser>>

-----------------------------------------------------------------------------
(* The specification *)

Init ==
  /\ status = [o \in Orders |-> "none"]
  /\ linked = {}
  /\ uses = 0
  /\ reported = {}
  /\ served = [o \in Orders |-> 0]
  /\ payments = [o \in Orders |-> <<>>]
  /\ notices = {}
  /\ offered = {}
  /\ stored = NoOrder
  /\ request = [r \in Requests |-> Idle]

Customer ==
  \E o \in Orders :
    \/ \E state \in {"pending", "approved"}, enough \in BOOLEAN : Pay(o, state, enough)
    \/ \E i \in 1..MaxPayments, state \in {"approved", "rejected"} : Clear(o, i, state)

Arrives(r) ==
  \/ \E o \in Orders : PlaceOrder(r, o)
  \/ Return(r)
  \/ \E o \in Orders, i \in 1..MaxPayments : Notify(r, o, i)

\* The code of a request runs on.
Runs(r) ==
  \/ PreferenceMade(r) \/ PreferenceRefused(r) \/ LinkPreference(r) \/ Offer(r)
  \/ Search(r) \/ SearchFails(r)
  \/ FetchIgnored(r) \/ Fetch(r) \/ FetchMissed(r) \/ Restore(r)
  \/ Claim(r) \/ ClaimRefused(r)
  \/ Deliver(r) \/ Throws(r) \/ Finish(r) \/ Answer(r) \/ Fail(r) \/ Report(r)

Next == Customer \/ \E r \in Requests : Arrives(r) \/ Runs(r) \/ Crash(r)

Spec == Init /\ [][Next]_vars

\* Requests run on, and the gateway repeats a notification until it is
\* acknowledged.  The customer need not come back.
Fairness ==
  /\ \A r \in Requests : WF_vars(Runs(r))
  /\ \A o \in Orders, i \in 1..MaxPayments : SF_vars(\E r \in Requests : Notify(r, o, i))

FairSpec == Spec /\ Fairness

-----------------------------------------------------------------------------
(* Properties *)

Statuses == {"none", "pending", "processing", "processed", "failed"}
Places ==
  {"idle", "preference", "link", "offer", "search", "fetch", "restore", "claim",
   "deliver", "finish", "answer", "fail", "report"}

Payment == [state : {"pending", "approved", "rejected"}, enough : BOOLEAN]
Request ==
  [kind : {"none", "create", "process", "webhook"}, order : Orders \cup {NoOrder},
   payment : 0..MaxPayments, at : Places]

\* Every variable has its type; the code is used at most MaxUses times.
TypeOK ==
  /\ status \in [Orders -> Statuses]
  /\ linked \subseteq Orders /\ reported \subseteq Orders /\ offered \subseteq Orders
  /\ uses \in 0..MaxUses
  /\ served \in [Orders -> Nat]
  /\ payments \in [Orders -> Seq(Payment)]
  /\ \A o \in Orders : Len(payments[o]) <= MaxPayments
  /\ notices \subseteq Orders \X (1..MaxPayments)
  /\ stored \in Orders \cup {NoOrder}
  /\ request \in [Requests -> Request]

Fulfilling(r) == request[r].at \in {"deliver", "finish", "fail"}

\* However many returns and notifications of one order are under way, one
\* request at most fulfils it, and only as long as the order is `processing'
\* (lockForUpdate and the status re-read under it).
SoleFulfilment ==
  \A r, q \in Requests : Fulfilling(r) =>
    /\ status[request[r].order] = "processing"
    /\ Fulfilling(q) /\ request[q].order = request[r].order => q = r

\* Nobody gets two servers for one order, or one that was not paid for in full;
\* a processed order has its server ("sem duplicar deploy",
\* docs/mercadopago-gateway.md).
ServedOnceIfPaid ==
  \A o \in Orders :
    /\ served[o] <= 1
    /\ served[o] > 0 => Paid(o)
    /\ status[o] = "processed" => served[o] = 1

\* Every order that carries the discount code and was ever claimed used it once,
\* until it was used up: no claim is counted twice or not at all.  (An
\* order that failed before it was linked to a preference was never claimed.)
CodeUsedByClaims ==
  LET claimed == {o \in Coded \cap linked : status[o] \in {"processing", "processed", "failed"}}
      n == Cardinality(claimed)
  IN uses = IF n < MaxUses THEN n ELSE MaxUses

\* An order that failed after it had been linked to its preference has a
\* BillingException, or the request that failed it is about to write one.
\* Assumes requests do not crash.
FailureReported ==
  \A o \in Orders : status[o] = "failed" /\ o \in linked =>
    o \in reported \/ \E r \in Requests : request[r].at = "report" /\ request[r].order = o

\* A pending order with an approved payment of the full amount is decided, even
\* if the customer never comes back ("cobre Pix aprovado depois do retorno",
\* docs/mercadopago-gateway.md).  Assumes requests do not crash.
PaidIsSettled ==
  \A o \in Orders : (status[o] = "pending" /\ Paid(o)) ~> status[o] \in {"processed", "failed"}

\* Each order behaves as PaidOrder says.
Promise ==
  INSTANCE PaidOrder WITH
    paid <- {o \in Orders : Paid(o)}

ImplementsPaidOrder == Promise!Spec
=============================================================================

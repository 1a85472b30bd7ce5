------------------------------ MODULE PaidOrder ------------------------------
(***************************************************************************)
(* What the checkout promises about an order, with requests, preferences,  *)
(* notifications and the browser left out: it is taken once, after it was  *)
(* paid; whoever took it serves it once and then closes it; and what was   *)
(* decided about an order is never undone.                                 *)
(***************************************************************************)
EXTENDS Naturals

CONSTANTS Orders

VARIABLES
  status,  \* none, pending, processing, processed or failed
  served,  \* how often each order was served
  paid     \* orders with an approved payment of the full amount

vars == <<status, served, paid>>

Init ==
  /\ status = [o \in Orders |-> "none"]
  /\ served = [o \in Orders |-> 0]
  /\ paid = {}

Becomes(o, from, to) ==
  /\ status[o] = from
  /\ status' = [status EXCEPT ![o] = to]

Place(o) == Becomes(o, "none", "pending") /\ UNCHANGED <<served, paid>>

\* No payment page could be made for it.
Abandon(o) == Becomes(o, "pending", "failed") /\ o \notin paid /\ UNCHANGED <<served, paid>>

Pay(o) ==
  /\ status[o] # "none"
  /\ paid' = paid \cup {o}
  /\ UNCHANGED <<status, served>>

Take(o) == Becomes(o, "pending", "processing") /\ o \in paid /\ UNCHANGED <<served, paid>>

Serve(o) ==
  /\ status[o] = "processing"
  /\ served[o] = 0
  /\ served' = [served EXCEPT ![o] = 1]
  /\ UNCHANGED <<status, paid>>

Close(o) ==
  /\ served[o] = 1
  /\ Becomes(o, "processing", "processed")
  /\ UNCHANGED <<served, paid>>

Fail(o) == Becomes(o, "processing", "failed") /\ UNCHANGED <<served, paid>>

Next ==
  \E o \in Orders :
    Place(o) \/ Abandon(o) \/ Pay(o) \/ Take(o) \/ Serve(o) \/ Close(o) \/ Fail(o)

Spec == Init /\ [][Next]_vars
=============================================================================

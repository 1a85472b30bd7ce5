----------------------------- MODULE LedgerBook -----------------------------
(***************************************************************************)
(* What the ledger of the queue promises, whoever writes to it and however *)
(* the writers interleave: a patch, an overlay or a shared override        *)
(* belongs to the category that registered it first, it lists units of     *)
(* that category only, and nothing but a new `init' takes it away.         *)
(***************************************************************************)
CONSTANTS Entries, Categories, Units, CategoryOf, NoOne

VARIABLES holder, listed

book == <<holder, listed>>

Blank ==
  /\ holder = [e \in Entries |-> NoOne]
  /\ listed = [e \in Entries |-> {}]

Register(e, c, S) ==
  /\ holder[e] \in {c, NoOne}
  /\ \A u \in S : CategoryOf[u] = c
  /\ holder' = [holder EXCEPT ![e] = c]
  /\ listed' = [listed EXCEPT ![e] = @ \cup S]

Relist(e, S) ==
  /\ holder[e] # NoOne
  /\ \A u \in S : CategoryOf[u] = holder[e]
  /\ listed' = [listed EXCEPT ![e] = S]
  /\ UNCHANGED holder

StartOver == Blank'

Next ==
  \/ \E e \in Entries, S \in SUBSET Units :
       (\E c \in Categories : Register(e, c, S)) \/ Relist(e, S)
  \/ StartOver

Spec == Blank /\ [][Next]_book
=============================================================================

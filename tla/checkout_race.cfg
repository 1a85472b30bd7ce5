SPECIFICATION Spec
CONSTANTS
  Orders = {a}
  Requests = {r1, r2, r3}
  Coded = {a}
  MaxUses = 1
  MaxPayments = 2
  MayCrash = TRUE
  MayMiss = TRUE
  NoOrder = NoOrder
SYMMETRY Processes
INVARIANTS SoleFulfilment ServedOnceIfPaid
PROPERTIES ImplementsPaidOrder
CHECK_DEADLOCK FALSE

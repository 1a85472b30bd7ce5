SPECIFICATION FairSpec
CONSTANTS
  Orders = {a, b}
  Requests = {r1, r2}
  Coded = {a, b}
  MaxUses = 1
  MaxPayments = 1
  MayCrash = FALSE
  MayMiss = FALSE
  NoOrder = NoOrder
INVARIANTS CodeUsedByClaims FailureReported
PROPERTIES PaidIsSettled
CHECK_DEADLOCK FALSE

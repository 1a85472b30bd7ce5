SPECIFICATION UnattendedSpec
CONSTANTS
  c1 = c1
  c2 = c2
  u1 = u1
  u2 = u2
  u3 = u3
  Categories = {c1, c2}
  Units = {u1, u2, u3}
  CategoryOf <- WideCategoryOf
  Ord <- PairOrd
  Owners = {o1, o2}
  RequiredGates = {g}
  MaxAgents = 2
  MaxRounds = 3
  Leases = {1}
  MaxDelay = 0
  Forces = {}
  OrderlyUnblock = TRUE
  NoOne = NoOne
PROPERTIES Settles
CHECK_DEADLOCK FALSE

SPECIFICATION Spec
CONSTANTS
  c1 = c1
  c2 = c2
  u1 = u1
  u2 = u2
  u3 = u3
  Categories = {c1, c2}
  Units = {u1, u2}
  CategoryOf <- PairCategoryOf
  Ord <- PairOrd
  Owners = {o1, o2}
  RequiredGates = {}
  MaxAgents = 1
  MaxRounds = 1
  Leases = {2}
  MaxDelay = 1
  Forces = {FALSE}
  OrderlyUnblock = TRUE
  NoOne = NoOne
SYMMETRY Agents
INVARIANTS UnitsFitStage

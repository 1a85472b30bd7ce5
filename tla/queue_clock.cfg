SPECIFICATION Spec
CONSTANTS
  c1 = c1
  c2 = c2
  u1 = u1
  u2 = u2
  u3 = u3
  Categories = {c1}
  Units = {u1, u2}
  CategoryOf <- SoloCategoryOf
  Ord <- SoloOrd
  Owners = {o1, o2, o3}
  RequiredGates = {g}
  MaxAgents = 1
  MaxRounds = 2
  Leases = {1, 2}
  MaxDelay = 1
  Forces = {FALSE}
  OrderlyUnblock = TRUE
  NoOne = NoOne
SYMMETRY Agents
INVARIANTS ReviewerIndependence ClaimsMatchUnits ConcurrencyLimit VerdictFresh ProposalsHold
PROPERTIES RoundsKept

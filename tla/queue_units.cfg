SPECIFICATION Spec
CONSTANTS
  c1 = c1
  c2 = c2
  u1 = u1
  u2 = u2
  u3 = u3
  Categories = {c1}
  Units = {u1, u2}
  CategoryOf <- SoloCategoryOf
  Ord <- SoloOrd
  Owners = {o1, o2}
  RequiredGates = {g}
  MaxAgents = 2
  MaxRounds = 3
  Leases = {1}
  MaxDelay = 0
  Forces = {TRUE}
  OrderlyUnblock = TRUE
  NoOne = NoOne
SYMMETRY Agents
INVARIANTS TypeOK ThreeStrikes VerifiedAfterReview TranslatedBeforeReview ValidateAccepts WorkInSight

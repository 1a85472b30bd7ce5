SPECIFICATION Spec
CONSTANTS
  p1 = p1
  p2 = p2
  c1 = c1
  c2 = c2
  u1 = u1
  u2 = u2
  patch = patch
  override = override
  Processes = {p1, p2}
  Categories = {c1, c2}
  Units = {u1, u2}
  CategoryOf <- MCCategoryOf
  Patches = {patch}
  Overlays = {}
  Overrides = {override}
  MaxFiles = 2
  NoOne = NoOne
SYMMETRY Symmetry
INVARIANTS LinkedToOwner
PROPERTIES OwnerKept ImplementsBook
CHECK_DEADLOCK FALSE

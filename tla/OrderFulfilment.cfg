SPECIFICATION Spec
CONSTANTS
  Lines = {l1, l2}
  Batches = {b1}
  Dispatches = {d1, d2}
  Clients = {c1, c2}
  MaxOrdered = 2
  MaxQty = 2
  Yield <- MCYield
  None = None
INVARIANTS
  QuantitiesAgree
  ReferencesSurvive
PROPERTIES
  LinksGrowWithinDemand
  ShipsOnlyOpenOrder
SYMMETRY Symmetry
CHECK_DEADLOCK FALSE

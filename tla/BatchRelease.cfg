SPECIFICATION Spec
CONSTANTS
  Batches = {b1}
  Dispatches = {d1, d2}
  Clients = {c1, c2}
  MaxQty = 2
  MaxVersion = 4
  None = None
INVARIANTS
  NoOversell
  ShippedOnlyReleased
  ShipmentsAccounted
  OnOfferOnlyReleased
PROPERTIES
  ReleasedIsFinal
  ApprovedAsSeen
SYMMETRY Symmetry
CHECK_DEADLOCK FALSE

SPECIFICATION Spec
CONSTANTS
  WorkOrders = {w1, w2}
  Batches = {b1, b2}
  Keys = {k1}
  Clients = {c1, c2}
  Planned = 21
  Sizes = {10}
  None = None
INVARIANTS
  OneBatchPerKey
  StatusFollowsBatches
PROPERTIES
  NoBatchOnClosed
  ClosedStaysClosed
  ActsAsSeen
SYMMETRY Symmetry
CHECK_DEADLOCK FALSE

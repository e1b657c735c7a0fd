SPECIFICATION Spec
CONSTANTS
  Items = {i1, i2}
  Containers = {k1}
  Numberings = {n1, n2}
  Batches = {b1, b2}
  Reqs = {r1, r2}
  MaxNeed = 1
  Handled = {i1, k1}
  MaxStock = 1
  None = None
INVARIANTS
  Conserved
  SameContainerNeverDeadlocks
PROPERTIES
  ImplementsLedger
SYMMETRY Symmetry
CHECK_DEADLOCK FALSE

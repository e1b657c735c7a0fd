SPECIFICATION FairSpec
CONSTANTS
  Items = {i1, i2}
  Containers = {k1}
  Numberings = {n1, n2}
  Batches = {b1, b2}
  Reqs = {r1, r2}
  MaxNeed = 1
  Handled = {}
  MaxStock = 1
  None = None
PROPERTIES
  EveryRequestEnds
CHECK_DEADLOCK FALSE

SPECIFICATION Spec
CONSTANTS
  Batches = {b1}
  Dispatches = {d1}
  Clients = {c1}
  MaxQty = 1
  MaxVersion = 4
  None = None
PROPERTY
  ReleasedEvidenceKept
CHECK_DEADLOCK FALSE

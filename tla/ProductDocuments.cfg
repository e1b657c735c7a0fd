SPECIFICATION FairSpec
CONSTANTS
  DocTypes = {"tds"}
  Clients = {c1}
  RedisMayFail = TRUE
  MaxEdits = 2
  FirstStatuses = {"qa_review", "published"}
  MaxRestarts = 1
  Drainer = Drainer
  None = None
INVARIANTS
  QueueHasRunner
  ChangeOnItsWay
  StoredWasPublished
PROPERTIES
  ChangeIsTried
  CacheRecovers

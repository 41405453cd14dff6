SPECIFICATION Spec
CONSTANTS
  Files = {f1}
  Slots = {s1}
  Web = {w1}
  Requests = {"reindex", "pause", "resume", "cancel", "index"}
  Legacy = TRUE
  MaxJobs = 2
  MaxVersion = 2
  MaxUpsets = 1
INVARIANTS
  SyncRunsOnce
  IndexedIsStored
PROPERTIES
  ExecutionsEnd
  PendingIsTaken
CHECK_DEADLOCK FALSE

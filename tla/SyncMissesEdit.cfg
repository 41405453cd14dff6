SPECIFICATION Spec
CONSTANTS
  Files = {f1}
  Slots = {s1}
  Web = {w1}
  Requests = {"sync"}
  Legacy = FALSE
  MaxJobs = 2
  MaxVersion = 2
  MaxUpsets = 0
PROPERTIES
  SyncedIsCurrent

SPECIFICATION Spec
CONSTANTS
  MaxFailures = 2
  Jobs = {j1}
  MaxRuns = 2
  Procs = {p1}
  Clients = {}
  Watches = {}
  FiresOnce = {}
  InitialKinds = {"once", "recurring"}
  Endings = {"success", "failed", "interrupted", "task_ask"}
  BadTimezones = {FALSE}
  Ops = {}
  LapseLive = FALSE
  NoticesArrive = TRUE
  MaxCrashes = 0
  MaxFaults = 0
  MaxEdits = 0
PROPERTIES
  DueNoticeIsDelivered

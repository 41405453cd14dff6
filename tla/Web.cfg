SPECIFICATION Spec
CONSTANTS
  MaxFailures = 2
  Jobs = {j1}
  MaxRuns = 3
  Procs = {p1}
  Clients = {c1}
  Watches = {j1}
  FiresOnce = {}
  InitialKinds = {"once", "recurring"}
  Endings = {"interrupted", "task_ask", "check_ask"}
  BadTimezones = {FALSE}
  Ops = {"pause", "resume", "edit", "adopt", "answer", "suspend", "delete"}
  LapseLive = FALSE
  NoticesArrive = FALSE
  MaxCrashes = 1
  MaxFaults = 0
  MaxEdits = 1
INVARIANTS
  OneScheduledRun
  OneLossOneAttempt
PROPERTIES
  ParkHoldsTheSchedule
  PausedIsNotClaimed
  ResumedRunLeavesSchedule
  NothingIsMadeUpFor

SPECIFICATION Spec
CONSTANTS
  MaxFailures = 2
  Jobs = {j1}
  MaxRuns = 2
  Procs = {p1}
  Clients = {c1}
  Watches = {j1}
  FiresOnce = {j1}
  InitialKinds = {"once", "recurring"}
  Endings = {"success", "failed", "interrupted", "no_sign_in", "token_error", "condition_not_met"}
  BadTimezones = {FALSE}
  Ops = {"toggle", "report", "share", "sign_in", "bind", "run_now"}
  LapseLive = FALSE
  NoticesArrive = FALSE
  MaxCrashes = 0
  MaxFaults = 0
  MaxEdits = 0
INVARIANTS
  AutoPauseIsEarned
  ReportedStaysUndelivered
PROPERTIES
  StopLiftDropsRetry
  EngineKeepsStop

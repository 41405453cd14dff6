SPECIFICATION Spec
CONSTANTS
  MaxFailures = 2
  Jobs = {j1}
  MaxRuns = 3
  Procs = {p1, p2}
  Clients = {c1, c2}
  Watches = {}
  FiresOnce = {}
  InitialKinds = {"recurring"}
  Endings = {"success", "interrupted", "task_ask"}
  BadTimezones = {FALSE}
  Ops = {"answer"}
  LapseLive = TRUE
  NoticesArrive = FALSE
  MaxCrashes = 0
  MaxFaults = 0
  MaxEdits = 0
PROPERTIES
  OutcomeIsFinal
  ImplementsLedger
SYMMETRY Interchangeable

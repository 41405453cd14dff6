SPECIFICATION FairSpec
CONSTANTS
  MaxFailures = 2
  Jobs = {j1, j2}
  MaxRuns = 3
  Procs = {p1}
  Clients = {}
  Watches = {}
  FiresOnce = {}
  InitialKinds = {"once", "recurring"}
  Endings = {"interrupted"}
  BadTimezones = {FALSE, TRUE}
  Ops = {}
  LapseLive = FALSE
  NoticesArrive = FALSE
  MaxCrashes = 1
  MaxFaults = 1
  MaxEdits = 0
PROPERTIES
  NoRunIsStranded
  RetryIsTaken
  DueJobMovesOn

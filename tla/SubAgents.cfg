SPECIFICATION Spec
CONSTANTS
  Calls = {a1}
  MaxPrompt = 2
  MaxSkill = 2
  FirstPrompts = {2}
  FirstSkills = {1}
  FirstPins = {1}
  FirstFlags = {FALSE}
  OwnFlags = {TRUE}
  NewPins = {}
  Asked = {"keep", "yes"}
  Limit = 3
  MaxVersions = 3
  Discardable = {2}
INVARIANTS
  NothingRunsUnreviewed
  AutomaticFits
  DefaultIsApproved
PROPERTIES
  NoFollowerLeftBehind
CHECK_DEADLOCK FALSE

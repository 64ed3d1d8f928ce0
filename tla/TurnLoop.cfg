\* Two turns with every way to end one early: what goes to the model stays well formed.
SPECIFICATION Spec
CONSTANTS
  read = read
  edit = edit
  Keys <- MCKeys
  Mutators <- MCMutators
  MaxLLMCalls = 2
  AutoContinueMax = 1
  Streak = 2
  Environment = {"compact", "restart"}
  MaxTurns = 2
  MaxReplies = 3
  MaxQueue = 1
  MaxUpsets = 2
INVARIANTS
  TypeOK
  RequestWellFormed
  NoStaleWarning
  MutatorsRunAlone
PROPERTIES
  OnlyWantedToolsRun
CHECK_DEADLOCK FALSE

\* An editor that waits for what it has asked for, and opens no session twice.
SPECIFICATION Spec
CONSTANTS
  MaxDirs = 3
  MaxLoops = 2
  MaxPrompts = 3
  MaxModes = 2
  Races = {}
INVARIANTS
  TypeOK
  OneTurnPerSession
PROPERTIES
  CancelAnswered
CHECK_DEADLOCK FALSE

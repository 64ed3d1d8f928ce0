\* Four messages at any time, one queued at a time, Esc, compactions, panels and rewinds.
SPECIFICATION Spec
CONSTANTS
  MaxTyped = 4
  MaxOther = 3
  Races = {}
INVARIANTS
  TypeOK
  NothingLost
  
  PromptAnswerable
PROPERTIES
  QueuedArrives
CHECK_DEADLOCK FALSE

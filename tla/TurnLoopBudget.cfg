\* One tool the model may call again and again: the loop breakers, the mode
\* reminder and the end of a turn, with compactions and mode switches between.
SPECIFICATION FairSpec
CONSTANTS
  read = read
  edit = edit
  Keys <- OneKey
  Mutators <- NoKeys
  MaxLLMCalls = 2
  AutoContinueMax = 1
  Streak = 2
  Environment = {"auto_compact", "restart", "switch_agent"}
  MaxTurns = 2
  MaxReplies = 6
  MaxQueue = 0
  MaxUpsets = 1
INVARIANTS
  LoopsAreCut
  BudgetCapsCounted

  
  
CHECK_DEADLOCK FALSE

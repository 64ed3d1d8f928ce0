\* Two messages are queued when the turn ends.
SPECIFICATION Spec
CONSTANTS
  MaxTyped = 3
  MaxOther = 0
  Races = {"many"}
INVARIANTS
  NothingLost
CHECK_DEADLOCK FALSE

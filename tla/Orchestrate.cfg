\* Two tasks, two rounds, three states of the files; stopped and resumed anywhere, any number of times.
SPECIFICATION Spec
CONSTANTS
  Keys = {1, 2}
  Trees = {"before", "partly", "right"}
  Fresh = "before"
  Passing = {"right"}
  MaxRounds = 2
INVARIANTS
  TypeOK
  CheckpointsNumberRounds
  BeginsAtBoundary
  MarkerIsOfOpenRound
PROPERTIES
  NeverTwiceInARow
  JobSpec
CHECK_DEADLOCK FALSE

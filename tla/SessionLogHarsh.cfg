\* Torn lines, failed compactions and cut write-ups on top: what still holds.
SPECIFICATION Spec
CONSTANTS
  ToolSets = {1, 2}
  Mishaps = {"died", "torn", "count_failed", "write_up_cut"}
  MaxDirs = 2
  MaxEntries = 4
  MaxEnds = 1
INVARIANTS
  TypeOK
  PrefixStable
PROPERTIES
  LeftSessionsRest
CHECK_DEADLOCK FALSE

\* Two savers, cancellations, process ends, rewinds, compactions and resumes.
SPECIFICATION Spec
CONSTANTS
  ToolSets = {1, 2}
  Mishaps = {"cancelled", "died"}
  MaxDirs = 3
  MaxEntries = 3
  MaxEnds = 1
INVARIANTS
  DiskIsPrefix
  CountIsOfItsFile
CHECK_DEADLOCK FALSE

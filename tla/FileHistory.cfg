\* One file in three versions: every checkpoint and every undo goes back to what was there.
SPECIFICATION Spec
CONSTANTS
  Files = {f}
  Contents = {a, b}
  Absent = absent
  Oversize = {b}
  MaxVersions = 2
  Mishaps = {"outside", "save_fails"}
  MaxMessages = 5
  MaxEdits = 2
  MaxOutside = 1
INVARIANTS
  TypeOK
  RestoreGoesBack
  OneCheckpointPerPrompt
PROPERTIES
  RewindKeepsBatchesWhole
  UndoGoesBackOne
CHECK_DEADLOCK FALSE

\* Files of up to three lines with repeated texts, two edit calls (the first of one
\* or two replacements, the second of one), a change from outside between them.
SPECIFICATION Spec
CONSTANTS
  Texts = {a, b}
  MaxLines = 3
  MaxNew = 2
  MaxCalls = 2
  MaxReps = 2
  MaxPairs = 1
  MaxOutside = 1
  DupWindow = 3
SYMMETRY TextSymmetry

  
PROPERTIES
  OnlyAddressedChange
CHECK_DEADLOCK FALSE

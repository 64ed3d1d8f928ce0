\* The case of a denial that comes while the nanny thinks: two concurrent calls that share a permission, one of them escalated; a nanny with a brief.
SPECIFICATION Spec
CONSTANTS
  Calls = {"first", "second"}
  Perms = {"place", "outside"}
  Escalated = {"outside"}
  Needs <- TwoNeeds
  Long = {"second"}
  Brief = TRUE
  MaxTells = 0
PROPERTIES
  DeniedStaysDenied
CHECK_DEADLOCK FALSE

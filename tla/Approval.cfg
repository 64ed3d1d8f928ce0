\* Two concurrent calls that share a permission, one of them escalated; a nanny with a brief.
SPECIFICATION Spec
CONSTANTS
  Calls = {"first", "second"}
  Perms = {"place", "outside"}
  Escalated = {"outside"}
  Needs <- TwoNeeds
  Long = {"second"}
  Brief = TRUE
  MaxTells = 2
INVARIANTS
  TypeOK
  EscalatedReachesPerson
  OneDiscussion
  ReviewsRecorded
PROPERTIES
  CallsEnd
CHECK_DEADLOCK FALSE

\* Four nights, and three requests or restarts among them: bounded, so that the
\* run comes to an end.  A third master would be seen if there ever were one.
CONSTANTS
  MaxMasters = 3
  MaxDays = 4
  MaxEvents = 3

SPECIFICATION Spec
CHECK_DEADLOCK FALSE

INVARIANTS
  ServiceGoesOn
  FilesNameMasters
  RepliesCounted
  ImagesKept

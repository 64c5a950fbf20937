\* Seven samples in batches of two, two local steps for a version: a version, a local step and a
\* sample more.  Either component may fail at any moment.
CONSTANTS
  Samples = 7
  Required = 2
  Trigger = 2
SPECIFICATION FairSpec
INVARIANTS
  ReturnsWhenDone
PROPERTY
  AllEnd
CHECK_DEADLOCK FALSE

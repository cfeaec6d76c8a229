CONSTANTS
  Pages = 3
  MaxEve = 2
  PowerEve = 2
  Fates = {{"kill"}, {"power"}}
SPECIFICATION SnapSpec
INVARIANT CleanPagesAreSaved
PROPERTY CheckpointSpec
CHECK_DEADLOCK FALSE

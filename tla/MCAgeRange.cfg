\* Children born around the ends of months, day by day until the last bucket;
\* the clock stops there.
SPECIFICATION Spec
CONSTANTS
  Births <- MCBirths
  MaxAge <- MCMaxAge
CHECK_DEADLOCK FALSE
INVARIANT TypeOK
INVARIANT AtMostTwoDaysLate
PROPERTY NoBucketSkipped

SPECIFICATION KeepSpec
CONSTANTS
  s1 = s1  s2 = s2  s3 = s3  mine = mine  other = other
  Sessions <- WithStranger
  Codes <- Both
  Code <- StrangerCode
  Point <- ThreePoints
  MaxCandidates = 1
  MaxBuffered = 1
INVARIANTS TypeOK PairAgrees NoConfirmMissed
PROPERTY Implements
CHECK_DEADLOCK FALSE

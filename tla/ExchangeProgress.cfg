SPECIFICATION FairSpec
CONSTANTS
  s1 = s1  s2 = s2  s3 = s3  mine = mine  other = other
  Sessions <- TwoPeers
  Codes <- Both
  Code <- OneCode
  Point <- TwoPoints
  MaxCandidates = 1
  MaxBuffered = 1
PROPERTY SomeoneAuthenticates
CHECK_DEADLOCK FALSE

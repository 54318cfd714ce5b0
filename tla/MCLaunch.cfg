SPECIFICATION FairLaunchSpec
CONSTANTS
  s1 = s1
  s2 = s2
  n1 = n1
  n2 = n2
  Sessions = {s1, s2}
  Names = {n1, n2}
  Worlds <- Pairs
  MaxSecond = 2
INVARIANT LaunchTypeOK
 
INVARIANT ToadAlone
PROPERTY LaunchReturns
CHECK_DEADLOCK FALSE

SPECIFICATION FairPolSpec
CONSTANTS
  Warn1 = 300
  Warn2 = 180
  Warn3 = 60
  Advances = {0, 40}
  MaxAdvance = 40
  Ends <- ShortLong
  Resets <- EarlyReset
  TimeFlags = {1, 9}
  MaxNow = 501
  MaxEdits = 2
  Faults = {"time", "auth"}
INVARIANT PolicyTypeOK WarnedBeforeEnd
  
CHECK_DEADLOCK FALSE

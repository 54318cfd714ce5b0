SPECIFICATION PolSpec
CONSTANTS
  Warn1 = 300
  Warn2 = 180
  Warn3 = 60
  Advances = {0, 10}
  MaxAdvance = 40
  Ends <- OneEnd
  Resets <- EarlyReset
  TimeFlags = {1, 9}
  MaxNow = 501
  MaxEdits = 1
  Faults = {}
PROPERTY EndsOnlyAtEnd
CHECK_DEADLOCK FALSE

SPECIFICATION CompSpec
CONSTANT MaxLosses = 2
CONSTANT MaxCrashes = 1
CONSTANT MaxSuffix = 2
INVARIANT VideoKept
INVARIANT NameKept
CHECK_DEADLOCK FALSE

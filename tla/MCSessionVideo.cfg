SPECIFICATION SesSpec
CONSTANT Ample = TRUE
CONSTANT Configs <- RemoteOnly
INVARIANT RecordingComplete
CHECK_DEADLOCK FALSE

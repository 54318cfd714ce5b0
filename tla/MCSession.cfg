SPECIFICATION FairSesSpec
CONSTANT Ample = TRUE
CONSTANT Configs <- Several
INVARIANT SessionTypeOK
INVARIANT AuditComplete
PROPERTY AppExitEndsSession
PROPERTY ExitCompletes
CHECK_DEADLOCK FALSE

SPECIFICATION LogSpec
CONSTANT Faults = TRUE
CONSTANT Configs <- AllConfigs
INVARIANT LoginTypeOK
 
INVARIANT SectionLeft
PROPERTY ReopenedByMonitorOnly
CHECK_DEADLOCK FALSE

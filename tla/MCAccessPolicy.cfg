SPECIFICATION FairAccSpec
CONSTANTS
  g1 = g1
  g2 = g2
  Conns = {c1, c2}
  MaxRows = 2
  Root = Root
  Zero = Zero
  None = None
  Groups <- MCGroups
  Databases <- MCDatabases
  Faults = TRUE
  FirstAlone = TRUE
INVARIANTS AccessTypeOK  PolicyOfRow UnitedRights 
PROPERTY Returns
CHECK_DEADLOCK FALSE

SPECIFICATION RowsSpec
CONSTANTS
  Conns = {c1, c2}
  MaxCols = 2
  Texts = {a}
  NULL = NULL
  MaxRows = 3
  Clients <- MCClients
SYMMETRY Symmetric
INVARIANT RowsTypeOK
 
CHECK_DEADLOCK FALSE

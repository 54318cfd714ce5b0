SPECIFICATION FilterSpec
CONSTANTS
  c1 = c1
  c2 = c2
  Conns <- MCConns
  Verbs = {"SELECT", "DELETE"}
  Others = {"DROP"}
  Tables = {"T"}
  MaxStmts = 2
  Worlds <- MCWorlds
INVARIANT FilterTypeOK
INVARIANT StatementsSeen
 
INVARIANT ResultsOfStatement
CHECK_DEADLOCK FALSE

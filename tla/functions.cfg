SPECIFICATION FairFuncSpec
CONSTANTS
  c1 = c1
  c2 = c2
  s1 = s1
  s2 = s2
  d1 = d1
  d2 = d2
  o1 = o1
  o2 = o2
  f1 = f1
  n1 = n1
  Conn <- MCConn
  Stmt <- MCStmt
  Database <- MCDatabase
  Statement <- MCStatement
  Func <- MCFunc
  Name <- MCName
  Null = Null
  Plain = Plain
INVARIANTS FuncTypeOK Ownership StatementsHaveConnection RunningFunctionLives FunctionsAccountedFor
PROPERTY ZombiesEnd

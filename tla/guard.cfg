SPECIFICATION Spec
CONSTANTS
  d1 = d1
  d2 = d2
  t1 = t1
  t2 = t2
  t3 = t3
  c1 = c1
  c2 = c2
  c3 = c3
  Database <- MCDatabase
  Transaction <- MCTransaction
  Connection <- MCConnection
  Null = Null
  Careless = TRUE
INVARIANTS TypeOK NoOrphan GuardsMatch
CHECK_DEADLOCK FALSE

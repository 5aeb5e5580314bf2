SPECIFICATION FairSpec
CONSTANTS
  c1 = c1
  c2 = c2
  k1 = k1
  k2 = k2
  Conn <- MCConn
  Key <- MCKey
  Page <- MCPage
  None = None
  Reopen = TRUE
  MaxVersion = 2
INVARIANTS SharedTypeOK OneKey NoStaleCache
PROPERTIES SerialTransactions CommitsNotStarved

SPECIFICATION Spec
CONSTANTS
  k0 = k0
  k1 = k1
  aes = aes
  null = null
  v1 = v1
  v2 = v2
  Page <- MCPage2
  Value <- MCValue1
  Key <- MCKey
  ZeroKey = k0
  Cipher <- MCCipher
  NullCipher = null
  Reserve <- MCReserve
  Malformed = Malformed
  Damaged = Damaged
  NoImage = NoImage
  NotADb = NotADb
  NotVacuum = NotVacuum
  Client = "any"
  Setups <- RekeyOnly
INVARIANTS NothingOverwritten Bookkeeping

\* Three fragments of one event, one of another, one without a key, two
\* transactions, room for two entries and two inputs at once.
SPECIFICATION FairSpec
CONSTANTS
  a = a
  b = b
  c = c
  d = d
  h = h
  k1 = k1
  k2 = k2
  t1 = t1
  t2 = t2
  p = p
  q = q
  NoKey = NoKey
  NoTxn = NoTxn
  NoFrag = NoFrag
  Required = {p, q}
  Txns = {t1, t2}
  Frags = {a, b, c, d, h}
  Keys = {k1, k2}
  MaxEntries = 2
  KeyOf <- MCKeyOf
  OwnerOf <- TwoOwners
  Says <- MCSays
INVARIANTS
  NothingLostOrTwice
  EmittedWorkIsSafe
PROPERTIES
  NothingStale
  ComesToRest
CHECK_DEADLOCK FALSE

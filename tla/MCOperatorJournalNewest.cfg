SPECIFICATION MCSpec
CONSTANTS
  w1 = w1
  w2 = w2
  o1 = o1
  o2 = o2
  Workers = {w1, w2}
  Ops = {o1, o2}
  Foreign = hand
  Fees = {1, 2}
  None = None
  CONFIRMATIONS = 1
  MAX_REORGS = 1
  MAX_FOREIGN = 1
INVARIANT
  NewestVouchesForEarlier

SPECIFICATION Spec
CONSTANTS
  Txs = {t1, t2, t3}
  Collateral = {t1, t2, t3}
  ListPageSize = 1
  ListMaxPages = 3
  MaxMoves = 2
CHECK_DEADLOCK FALSE
INVARIANTS SpentWasSpent

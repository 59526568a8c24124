SPECIFICATION Spec
CONSTANTS
  Txs = {1, 2, 3, 4, 5}
  Sources = {a1, a2}
  HistoryPageSize = 1
  MaxBlock = 3
  ListPageSize = 2
  ListMaxPages = 9
INVARIANTS NothingSkipped

SPECIFICATION FairSpec
CONSTANTS
  Rows = {1,2,3,4}
  Outs = {o1,o2,o3}
  Sources = {stake1}
  PageSize = 1
  MaxPagedRows = 3
  ReadAttempts = 2
  MaxPages = 2
  ConsistencyScans = 2
  LookupAttempts = 2
  RollbackAttempts = 2
  MaxBlock = 3
  Txs = {t1, t2, t3}
  Collateral = {t1, t2}
  ListPageSize = 1
  ListMaxPages = 2
  MaxMoves = 2
  EarnedEpoch <- EpochDef
  FirstEpochs = {0, 1, 2, 3}
  EntryPageSize = 2
  EntryMaxPages = 2
  MaxReads = 2
  WalletTxs = {1, 2, 3, 4}
  Addresses = {a1, a2}
  HistoryPageSize = 2
  HistoryBlocks = 3
  HistoryListSize = 3
  HistoryListPages = 9
  MaxListRows = 5
  MaxTwice = 1
  Runs = {r1, r2}
  ItemSeqs <- RaceLists
  Samples <- AllLists
  Envelope = 1
  Margin = 1
  InitialLimit = 7
  Caps = {4, 5}
CHECK_DEADLOCK FALSE
INVARIANTS NothingMissing NothingInvented LookupsWereTrue
INVARIANTS BodiesAreExact
PROPERTIES EveryReadEnds

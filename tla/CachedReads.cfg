SPECIFICATION FairSpec
CONSTANTS
  Callers = {c1, c2}
  Recoveries = {r1, r2}
  NoRecovery = NoRecovery
  TipTtl = 1
  LoadMax = 1
  MinEpoch = 3
  MaxLag = 1
  MaxNow = 6
  MaxEpoch = 2
  Pools = {1,2,3}
  FirstPools = {{1,3}}
  Stake <- StakeDef
  Askers = {1,2}
  Limit = 1
  Offsets = {0,1}
  PoolPageSize = 1
  PoolMaxPages = 2
  LastEpoch = 2
  MaxChurn = 1
  Dreps = {1,2,3}
  Readers = {1,2}
  DrepLimit = 1
  DrepOffsets = {0,1}
  DrepPageSize = 1
  DrepMaxPages = 2
  FirstStandings <- FirstDef
  MaxChanges = 1
  FirstProposals = 3
  LastProposal = 4
  FirstFates <- FateDef
  ProposalLimit = 2
  ProposalOffsets = {0,1,2}
  ProposalPageSize = 1
  ProposalMaxPages = 3
  ProposalLookupConcurrency = 1
  MaxEvents = 2
  Names = {1,2,3}
  NoKey = "none"
  TextKey <- TextDef
  HexKey <- HexDef
  PolicyMaps <- MapDef
  Datums <- DatumDef
  Wallets = {1,2}
  AskLists <- ListDef
  MaxEdits = 1
CHECK_DEADLOCK FALSE
INVARIANTS OneRecovery AnswersAreCurrent PagesOfOneRanking
INVARIANTS RowsWereTrue OwnMetadata
PROPERTIES EveryCallEnds

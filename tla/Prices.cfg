SPECIFICATION FairSpec
CONSTANTS
  Subjects = {1, 2}
  Batches = {b1, b2}
  Readers = {r1}
  BatchSize = 1
  NoBatch = NoBatch
  Pools = {1, 2, 3}
  SubjectOf <- SubjectDef
  Limits <- LimitsDef
  ChartRanges = {"1d"}
  Asked <- AskedDef
  Charted <- ChartedDef
  Callers = {c1}
  KindsOf <- KindsDef
  MaxReserve = 2
  MaxDay = 2
  MaxTrades = 1
  Currencies = {1, 2}
  Unpriced = {2}
  AskedFor <- AskedForDef
  Ranges = {"1d"}
  Askers = {a1, a2}
  MaxTime = 2
  NoTime = NoTime
  Digits = {0, 1, 9}
  MaxDigits = 4
  Exponents <- ExponentsDef
INVARIANTS PoolsAreTrue PricesAreTrue DecimalsAreExact
PROPERTIES EveryoneEnds
CHECK_DEADLOCK FALSE

SPECIFICATION Spec
CONSTANTS
  Names <- TwoNames
  Root <- EmptyName
  StartsWith <- MCStartsWith
  Keys <- TwoKeys
  UnguardedKeys <- SetKeys
  TokenName <- OwnToken
  Ttl <- TtlOne
  StaleIfError <- StaleOne
  MaxEntries = 1
  a1 = a1  a2 = a2  c1 = c1  c2 = c2
  Attempts = {a1, a2}
  NoAttempt = NoAttempt
  Callers = {c1, c2}
  Batches = {b1}
  MaxNow = 3
  MaxClears = 2
SYMMETRY ReadSymmetry
INVARIANTS NoResurrection ReadAfterClear OneLoadPerGeneration ServedWithinWindow NobodyIsStranded
PROPERTIES EvictsOldestUsable

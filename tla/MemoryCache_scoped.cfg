SPECIFICATION Spec
CONSTANTS
  Names <- ScopedNames
  Root <- EmptyName
  StartsWith <- MCStartsWith
  Keys <- ScopedKeys
  UnguardedKeys = {}
  TokenName <- RootToken
  Ttl <- TtlOne
  StaleIfError <- StaleOne
  MaxEntries = 1
  a1 = a1  a2 = a2  c1 = c1  c2 = c2
  Attempts = {a1, a2}
  NoAttempt = NoAttempt
  Callers = {}
  Batches = {b1}
  MaxNow = 4
  MaxClears = 2
INVARIANTS GuardedWriteLands

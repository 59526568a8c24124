SPECIFICATION Spec
CONSTANTS
  Runs = {r1, r2}
  ItemSeqs <- OneList
  Samples = {}
  Envelope = 1
  Margin = 1
  InitialLimit = 7
  Caps = {5}
  ReadAttempts = 1
INVARIANTS RepackedBeforeGivingUp
CHECK_DEADLOCK FALSE

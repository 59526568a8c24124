SPECIFICATION Spec
CONSTANTS
  Clients = {c1, c2, c3, c4, c5}
  Capacity = 2
  Interval = 2
  MaxStep = 0
  MaxClockSteps = 0
  TimeoutMs = 4
INVARIANTS PacedCallGoesOut

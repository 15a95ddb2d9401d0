SPECIFICATION TokenSpec
CONSTANTS
  p1 = p1
  p2 = p2
  Callers <- McCallers
  Lifetimes <- McLifetimes
  Hour <- McHour
  Timeout = 1
  Backoff = 1
  Margin = 6
  MaxClock = 12
SYMMETRY McSymmetry
INVARIANTS TokenTimely TokenInv
PROPERTIES CachedIsOfUse

SPECIFICATION Spec
CONSTANTS
  Cns = {c1, c2}
  NoCn = NoCn
  MaxRequests = 2
INVARIANTS NextIdFree

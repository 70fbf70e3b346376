SPECIFICATION Spec
CONSTANTS
  Items = {m1, m2}
  Zero = Zero
  Limits <- AllLimits
  InitialCap = 2
  MaxCap = 8
INVARIANTS
  OccupiedExactly
PROPERTIES
  ImplementsFifo

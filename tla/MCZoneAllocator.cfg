CONSTANTS
  HeapSize = 12
  Requests = {12, 13, 44}
  Free = Free
  Uncategorized = Uncategorized
  FluidSynth = FluidSynth
SPECIFICATION Spec
INVARIANTS ZoneInv Accounted
PROPERTIES AllocFailsOnlyWhenFull HeapSpec
CHECK_DEADLOCK FALSE

CONSTANTS
  HeapStart = 5
  HeapSize = 18
  ChunkHeader = 2
  Sizes = {1, 4}
  HandlerSizes = {1, 2, 4}
  MaxHeld = 2

SPECIFICATION PreemptedSpec

CHECK_DEADLOCK FALSE

INVARIANT RestConsistent
INVARIANT PointersLead
INVARIANT BlocksApart
PROPERTY RefusedOnlyWhenFull

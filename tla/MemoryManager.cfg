CONSTANTS
  HeapStart = 5
  HeapSize = 14
  ChunkHeader = 2
  Sizes = {0, 1, 3, 5}

SPECIFICATION Spec

INVARIANT ListConsistent
INVARIANT OwnersKnown
INVARIANT WholeAgain
PROPERTY ImplementsAbstractHeap

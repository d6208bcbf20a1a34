SPECIFICATION HeapSpec
CONSTANTS
  ALIGNMENT = 2
  ALIGN_INFO = 2
  MajorHeader = 3
  MinorHeader = 3
  PageSize = 8
  PageCount = 3
  Frames = 9
  Requests = {0, 6, 20}
CHECK_DEADLOCK FALSE
INVARIANTS
  BooksExact
  MinorsApart
PROPERTIES
  GrowsOnlyWhenFull
  ImplementsAllocator

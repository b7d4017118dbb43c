CONSTANTS
  Page = 4
  Span = 16
  MappedWindows <- Windows
  DirectWindows <- OnChip
  JmpZone <- Zones
  HdrLen = 2
  SegHdrLen = 1
  MaxSegments = 3
  MaxMappings = 2
  MaxCopies = 2
  MaxData = 5
  Addrs <- Loads
  Lens = {0, 1, 2, 5, 6}
  Zero = Zero
  BufferPages = {0, 1, 2, 3}
  Memory <- Cells
  IWindow <- IBus
  Alias = 16
  WordWindows <- IBusOnly
  Word = 2
  Scratch <- EvictBufCells
  Resident <- OwnCells
  Own = Own
  Lost = Lost
SPECIFICATION Spec
CHECK_DEADLOCK FALSE
INVARIANT LastPageIsMapped

CONSTANTS
  Names = {n1}
  ReqNames = {n1, bad}
  Temps = {t1}
  Blocks = {a, b}
  MaxFile = 2
  ChunkMax = 2
  Faults = {"io", "write", "misread", "power", "appear"}
  Absent = Absent
  Dir = Dir
  None = None
SPECIFICATION FairSpec
INVARIANTS TypeOK SessionInv OffsetIsTempLength RenamesOnlyVerified
PROPERTIES PublishesAtomically SettlesWhenHostStops

CONSTANTS
  Names = {n1}
  ReqNames = {n1}
  Temps = {t1}
  Blocks = {a, b}
  MaxFile = 1
  ChunkMax = 1
  Faults = {}
  MaxTries = 2
  MaxFiles = 2
  Wire = {}
  Late = {"hello"}
  Absent = Absent
  Dir = Dir
  None = None
SPECIFICATION SessionSpec
INVARIANT VerifiedMatches

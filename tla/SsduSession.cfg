CONSTANTS
  Names = {n1}
  ReqNames = {n1}
  Temps = {t1}
  Blocks = {a, b}
  MaxFile = 1
  ChunkMax = 1
  Faults = {"io", "write"}
  MaxTries = 2
  MaxFiles = 2
  Wire = {"loss"}
  Late = {"hello", "list", "verify", "remove", "begin", "write", "commit"}
  Absent = Absent
  Dir = Dir
  None = None
SPECIFICATION FairSession
INVARIANTS SessionTypeOK CommittedIsTrue PrintedIsTrue
PROPERTIES CommandEnds UploadRemovesOnlyOther

CONSTANTS
  Names = {n1, n2}
  ReqNames = {n1, n2}
  Temps = {t1, t2}
  Blocks = {a, b}
  MaxFile = 1
  ChunkMax = 1
  Faults = {"io", "misread", "power", "appear"}
  Absent = Absent
  Dir = Dir
  None = None
SPECIFICATION Spec
PROPERTIES ReceiptStaysTrue UncertainFreezesCard OnlyFailuresLeaveTemp LeftoversAreNotUsed

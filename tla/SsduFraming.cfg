CONSTANTS
  Bytes = {0, 1, 2, 7, 8}
  Magic <- MCMagic
  Types = {0}
  MaxPayload = 7
  Payloads <- MCPayloads
  MaxSends = 3
  MaxFaults = 2
  None = None
SPECIFICATION Spec
INVARIANTS FramingTypeOK BufferBounded QuietFrameArrives
PROPERTY IsLossyLine
CHECK_DEADLOCK FALSE

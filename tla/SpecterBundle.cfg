CONSTANTS
  W = 32
  Base = 8
  MaxFw = 11
  HdrLen = 2
  RecLen = 2
  PayloadMax = 16
  VersionMax = 5
  AttrLen = 5
  StrMax = 3
  PlatformKey = 4
  Platform <- MCPlatform
  KeyLists <- MCKeyLists
  Fingerprint <- MCFingerprint
  Threshold = 2
  Nobody = Nobody
  Bundles <- MCBundles
  k1 = k1
  k2 = k2
  k3 = k3
  stranger = stranger
SPECIFICATION BundleSpec
INVARIANTS BundleTypeOK ReadsStayInBundle AcceptedIsWellFormed AcceptedIsAuthorized RejectedIsFaulty
CHECK_DEADLOCK FALSE

CONSTANTS
  Sectors = 2
  Randoms = {r1, r2}
  FlashFaults = {"io", "power", "partition", "modify", "readVerify"}
  Erased = Erased
  Torn = Torn
  Blank = Blank
  Scrap = Scrap
  TornRecord = TornRecord
  Nothing = Nothing
  NoBuffer = NoBuffer
  NoCard = NoCard
  Wiped = Wiped
  Cards = {{}, {"size"}, {"magic"}, {"platform"}, {"sigBounds", "multisig"}, {"image"}}
SPECIFICATION LoaderSpec
INVARIANTS LoaderTypeOK OnlySoundBundlesRun  CardIsDeadAfterLoad HaltLeavesNoFirmware
PROPERTIES FlashIsProvisionedOnce RecordIsHonest

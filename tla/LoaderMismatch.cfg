CONSTANTS
  Sectors = 2
  Randoms = {r1, r2}
  FlashFaults = {"power"}
  Erased = Erased
  Torn = Torn
  Blank = Blank
  Scrap = Scrap
  TornRecord = TornRecord
  Nothing = Nothing
  NoBuffer = NoBuffer
  NoCard = NoCard
  Wiped = Wiped
  Cards = {{}, {"size"}, {"magic"}, {"platform"}, {"sigBounds", "multisig"}, {"image"}}
SPECIFICATION LoaderSpec
INVARIANT MismatchMeansModified

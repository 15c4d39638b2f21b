SPECIFICATION FairSpec
CONSTANTS
  f0 = f0
  f1 = f1
  f2 = f2
  Firmwares = {f0, f1, f2}
  Factory = f0
  Blocks <- ThreeSizes
  MY_OTA_RETRY = 1
  Erased = Erased
  Garbage = Garbage
  Torn = Torn
  MaxOffers = 3
  MaxResets = 2
INVARIANTS SignedImageComplete DownloadInOrder CurrentUntilReset
PROPERTIES ImplementsInstallation DownloadEnds

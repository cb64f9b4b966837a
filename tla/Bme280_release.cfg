CONSTANTS
  HalFaults = FALSE
  SpinReloads = FALSE
SPECIFICATION FairSpec
PROPERTY SpinWaits

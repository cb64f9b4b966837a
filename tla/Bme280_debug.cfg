CONSTANTS
  HalFaults = TRUE
  SpinReloads = TRUE
SPECIFICATION FairSpec
INVARIANTS HandOver TrustedUnlessFailed
PROPERTY TaskNeverHangs

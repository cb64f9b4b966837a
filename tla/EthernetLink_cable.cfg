CONSTANTS
  Modes = {2, 5}
  AutoNego = TRUE
  ForcedMode = 2
  ReadFaults = TRUE
  Frame = {f1, f2, f3}
  NoFrame = NoFrame
  TxDescriptors = 2
  Preempted = FALSE
  QuickSwap = FALSE
SPECIFICATION FairSpec
INVARIANTS TypeOK FramesAccounted MacFollowsFlag
PROPERTIES LinkFollowsCable SendersReturn

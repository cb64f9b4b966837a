CONSTANTS
  Buffer = {b1, b2, b3, b4}
  RxDescriptors = 4
SPECIFICATION FairSpec
INVARIANTS TypeOK DescriptorsAccounted NoLostWakeup FramesNoticed
PROPERTY ReceptionGoesOn

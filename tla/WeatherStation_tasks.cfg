CONSTANTS
  Channel <- MCChannel
  QueueLength <- MCQueueLength
  MaxSequence = 5
SPECIFICATION FairSpec
INVARIANTS TypeOK TakenOnce SequenceDistinct ConversionOnce
PROPERTIES LatestSpec Delivered

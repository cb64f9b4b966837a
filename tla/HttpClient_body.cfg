CONSTANTS
  BufferSize = 40
  Sockets = 2
  Replies <- MCReplies
SPECIFICATION Spec
INVARIANT BodylessHasNoLength

CONSTANTS
  BufferSize = 40
  Sockets = 2
  Replies <- MCReplies
SPECIFICATION FairSpec
INVARIANTS TypeOK SocketsReleased ReceiveErrorIsReal
PROPERTIES UploadSpec RequestEnds

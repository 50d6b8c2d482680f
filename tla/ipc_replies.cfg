SPECIFICATION Spec
CONSTANTS
  MaxPeers = 2
  MaxTokens <- OneTalks
  Sends <- Mixed
  MaxEvents = 1
  MaxClients = 1
  MaxAcceptsPerPoll = 1
  MaxTotalMessages = 2
  MaxTotalReadBytes = 6
  MaxMessagesPerPoll = 2
  MaxReadBytesPerPoll = 4
  MaxClientBuf = 5
  MaxClientOut = 1
  SocketSpace = 1
INVARIANTS TypeOK RepliesInFrameOrder NoFrameLost RetiredAfterReplies OnlyLongFramesOverflow

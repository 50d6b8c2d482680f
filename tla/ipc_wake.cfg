SPECIFICATION FairSpec
CONSTANTS
  MaxPeers = 2
  MaxTokens <- BothTalk
  Sends <- Competing
  MaxEvents = 0
  MaxClients = 2
  MaxAcceptsPerPoll = 1
  MaxTotalMessages = 1
  MaxTotalReadBytes = 3
  MaxMessagesPerPoll = 1
  MaxReadBytesPerPoll = 3
  MaxClientBuf = 4
  MaxClientOut = 1
  SocketSpace = 1
INVARIANTS NeverSleepsOnFrames ReadyMeansWork
PROPERTIES SkippedGoesFirst EveryFrameAnswered HalfClosedRetired

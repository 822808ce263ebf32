SPECIFICATION FairSpec
CONSTANTS
  Commands <- MCLiveCommands
  Cap = 11
  ReplyLen <- MCReplyLen
  MaxPacket = 5
  ConnectErrors = {"line", "other"}
  Pad <- MCPadX
  VcomAtBoot = FALSE
  Cuts = {3}
  MaxBreaks = 0
  Restarts = 0
  None = None
INVARIANTS TypeOK CommandIntact ScanExact
PROPERTIES SessionSpec CommandAnswered StopReported

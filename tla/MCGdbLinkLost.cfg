SPECIFICATION FairSpec
CONSTANTS
  Commands <- MCBreakCommands
  Cap = 10
  ReplyLen <- MCReplyLen
  MaxPacket = 5
  ConnectErrors = {}
  Pad <- MCNoPad
  VcomAtBoot = FALSE
  Cuts = {}
  MaxBreaks = 1
  Restarts = 0
  None = None
PROPERTIES BreakHonoured

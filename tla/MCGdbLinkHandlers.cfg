SPECIFICATION Spec
CONSTANTS
  Commands <- MCHandlerCommands
  Cap = 12
  ReplyLen <- MCReplyLen
  MaxPacket = 6
  ConnectErrors = {"line", "other"}
  Pad <- MCNoPad
  VcomAtBoot = FALSE
  Cuts = {}
  MaxBreaks = 0
  Restarts = 0
  None = None
PROPERTIES AckAgrees DisconnectResumes SessionSpec

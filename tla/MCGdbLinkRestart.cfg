SPECIFICATION Spec
CONSTANTS
  Commands <- MCRestartCommands
  Cap = 10
  ReplyLen <- MCReplyLen
  MaxPacket = 5
  ConnectErrors = {"other"}
  Pad <- MCNoPad
  VcomAtBoot = FALSE
  Cuts = {}
  MaxBreaks = 0
  Restarts = 1
  None = None
INVARIANTS StoppedMeansStopped
PROPERTIES ResponseSent

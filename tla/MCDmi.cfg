SPECIFICATION FairSpec
CONSTANTS
  IrPre = 0
  IrPost = 5
  DrPre = 0
  DrPost = 1
  DataBits = 1
  AddrBits = 1
  DtmIdle = 2
  Retries = 3
  RetryTicks = 11
  MaxCycles = 1
  BusFails = TRUE
INVARIANTS TypeOK InStep CachedInstruction
PROPERTIES PortSpec CallsReturn

SPECIFICATION LiveSpec
CONSTANTS
  RingSize = 4
  BufferSize = 2
  MaxPrinted = 5
  MaxWritten = 3
INVARIANTS TypeOK HostBytesInOrder
PROPERTIES ChannelSpec PrintedIsRead WrittenIsSent

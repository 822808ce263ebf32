----------------------------- MODULE UartBridge -----------------------------
(***************************************************************************)
(* main.c with the UART bridge: the main loop polls the two protothreads   *)
(* of USB port 2 in turn (what else it polls shares no state with them),   *)
(* the interrupt handlers of the UART and of USB run at any moment.  The   *)
(* host writes and reads the virtual COM port, the target prints when it   *)
(* likes.  Byte n of a direction is the n-th that was sent.                *)
(***************************************************************************)
EXTENDS UsbSerial2

CONSTANTS
  MaxPrinted,   \* how many bytes the target sends in one behaviour
  MaxWritten    \* how many the host writes

ASSUME BridgeAssumption == MaxPrinted \in Nat /\ MaxWritten \in Nat

VARIABLES
  turn,         \* the protothread the main loop polls: recv or send
  printed,      \* how many bytes the target has sent
  written,      \* how many the host has written
  fetched,      \* how many of these have gone out in packets
  hostGot,      \* the bytes the host has read
  targetGot     \* the bytes the target has received

endVars == <<printed, written, fetched, hostGot, targetGot>>
vars == <<serialVars, usbVars, turn, endVars>>

Init ==
  /\ SerialInit /\ UsbInit
  /\ turn = "recv"
  /\ printed = 0 /\ written = 0 /\ fetched = 0
  /\ hostGot = <<>> /\ targetGot = <<>>

LoopRecv ==
  /\ turn = "recv"
  /\ \/ Recv /\ UNCHANGED turn
     \/ RecvBlocked /\ turn' = "send" /\ UNCHANGED <<serialVars, usbVars>>
  /\ UNCHANGED endVars

LoopSend ==
  /\ turn = "send"
  /\ \/ Send /\ UNCHANGED turn
     \/ SendBlocked /\ turn' = "recv" /\ UNCHANGED <<serialVars, usbVars>>
  /\ UNCHANGED endVars

MainLoop == LoopRecv \/ LoopSend

(***************************************************************************)
(* The two ends of the bridge.                                             *)
(***************************************************************************)
TargetPrints ==
  /\ printed < MaxPrinted
  /\ printed' = printed + 1
  /\ RecvBufPut(printed')
  /\ UNCHANGED <<usbVars, turn, written, fetched, hostGot, targetGot>>

TargetReceives ==
  /\ ShiftOut
  /\ targetGot' = Append(targetGot, txReg)
  /\ UNCHANGED <<usbVars, turn, printed, written, fetched, hostGot>>

HostWrites ==
  /\ written < MaxWritten
  /\ written' = written + 1
  /\ UNCHANGED <<serialVars, usbVars, turn, printed, fetched, hostGot, targetGot>>

HostOut ==
  /\ \E n \in 1 .. BufferSize :
       /\ fetched + n <= written
       /\ DataOut([i \in 1 .. n |-> fetched + i])
       /\ fetched' = fetched + n
  /\ UNCHANGED <<turn, printed, written, hostGot, targetGot>>

HostIn ==
  /\ DataIn
  /\ hostGot' = IF inXfer = 0 THEN hostGot ELSE hostGot \o sendBuf
  /\ UNCHANGED <<turn, printed, written, fetched, targetGot>>

HostConfigures == Configure /\ UNCHANGED <<turn, endVars>>

Next ==
  \/ MainLoop
  \/ TargetPrints \/ TargetReceives
  \/ HostWrites \/ HostOut \/ HostIn \/ HostConfigures

Spec == Init /\ [][Next]_vars

(***************************************************************************)
(* The main loop never ends, the transmitter shifts, and the host polls    *)
(* both endpoints of an open port.                                         *)
(***************************************************************************)
LiveSpec ==
  /\ Spec
  /\ WF_vars(MainLoop)
  /\ WF_vars(TargetReceives)
  /\ WF_vars(HostOut) /\ WF_vars(HostIn)

-----------------------------------------------------------------------------
\* Every variable has its type, the indices among them staying in the ring.
TypeOK ==
  /\ UsbTypeOK
  /\ turn \in {"recv", "send"}
  /\ printed \in Nat /\ written \in Nat /\ fetched \in Nat
  /\ hostGot \in Seq(Nat \cup {NoByte}) /\ targetGot \in Seq(Nat)

\* The bytes taken from the ring that the host has not read yet.
Pending ==
  CASE sendPc \in {"more", "clear", "submit"} -> sendBuf
    [] sendPc = "wait" /\ inXfer > 0          -> sendBuf
    [] OTHER                                  -> <<>>

Channel == INSTANCE UartChannel WITH
  Capacity <- RingSize - 1, offered <- printed, queue <- Contents,
  out <- hostGot \o Pending

\* What the target prints reaches the host in order and once, and a byte is
\* dropped only when the ring holds as many as it can: the interrupt handler
\* and getchar, with no lock, and the batches of send_poll implement UartChannel.
ChannelSpec == Channel!Spec

\* What the host writes reaches the target in order, once and whole: the bytes
\* received, the one in the transmit register and those left in the buffer of
\* recv_poll are what was fetched from the host.
HostBytesInOrder ==
  LET waiting == IF received /\ recvPc \in {"arm", "wait"} THEN recvBuf
                 ELSE IF recvPc = "put"
                   THEN SubSeq(recvBuf, recvIdx + 1, Len(recvBuf))
                 ELSE <<>>
      register == IF txReg = NoByte THEN <<>> ELSE <<txReg>>
  IN  targetGot \o register \o waiting = [i \in 1 .. fetched |-> i]

\* Every byte that waits in the ring when the host has configured the device
\* is read by the host: no wake-up is lost, also when a batch fills its packet.
PrintedIsRead ==
  \A n \in 1 .. MaxPrinted :
    (configured /\ \E i \in DOMAIN Contents : Contents[i] = n)
      ~> \E i \in DOMAIN hostGot : hostGot[i] = n

\* Every byte the host writes to a configured device is sent to the target.
WrittenIsSent ==
  \A n \in 1 .. MaxWritten :
    (configured /\ written >= n) ~> Len(targetGot) >= n
=============================================================================

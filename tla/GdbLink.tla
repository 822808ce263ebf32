------------------------------ MODULE GdbLink ------------------------------
(***************************************************************************)
(* main.c with everything on the path of a GDB command: the main loop      *)
(* polls the receive half of the serial port, its send half and the GDB    *)
(* server in turn (the LED and the UART bridge share nothing with them),   *)
(* the USB interrupt handlers run at any moment, and the host at the other *)
(* end of the cable is GDB.                                                *)
(***************************************************************************)
EXTENDS UsbSerial1, GdbServer

CONSTANTS
  Pad,          \* for every command, how many data bytes follow its name
  Cuts,         \* where the host may cut what GDB has written into packets
  MaxBreaks,    \* how often the user presses Ctrl-C in one behaviour
  Restarts,     \* how often GDB is restarted in one behaviour
  None

ASSUME LinkAssumption ==
  /\ Pad \in [Commands -> Nat]
  /\ Cuts \subseteq 1 .. MaxPacket
  /\ MaxBreaks \in Nat /\ Restarts \in Nat
  /\ None \notin Commands \cup Replies
  /\ {"qSupported", "vMustReplyEmpty"} \subseteq Commands

VARIABLES
  turn,         \* the protothread the main loop polls: recv, send or serve
  hostOut,      \* bytes GDB has written and the USB host has not sent yet
  hostAsked,    \* the command GDB waits for the reply to, or None
  hostGot,      \* the last packet it received for it, or None
  hostPhase,    \* none, opening (qSupported is answered) or open
  hostAck,      \* GDB acknowledges packets, and expects it of the probe
  pressed,      \* the user has pressed Ctrl-C while GDB waits for that reply
  breaks,       \* how often he has in all
  restarts

hostVars == <<hostOut, hostAsked, hostGot, hostPhase, hostAck, pressed, breaks, restarts>>
vars == <<packetVars, usbVars, serverVars, turn, hostVars>>

Init ==
  /\ PacketInit /\ UsbInit /\ ServerInit
  /\ turn = "recv"
  /\ hostOut = <<>> /\ hostAsked = None /\ hostGot = None /\ hostPhase = "none"
  /\ hostAck = TRUE
  /\ pressed = FALSE /\ breaks = 0 /\ restarts = 0

(***************************************************************************)
(* The main loop.  A poll that waits hands the turn on; the others go on   *)
(* to their next statement, and the server hands it on when it waits.      *)
(***************************************************************************)
LoopRecv ==
  /\ turn = "recv"
  /\ \/ Recv /\ UNCHANGED turn
     \/ RecvBlocked /\ turn' = "send" /\ UNCHANGED <<packetVars, usbVars>>
  /\ UNCHANGED <<serverVars, hostVars>>

LoopSend ==
  /\ turn = "send"
  /\ \/ Send /\ UNCHANGED turn
     \/ SendBlocked /\ turn' = "serve" /\ UNCHANGED <<packetVars, usbVars>>
  /\ UNCHANGED <<serverVars, hostVars>>

LoopServe ==
  /\ turn = "serve"
  /\ \/ ServerPoll /\ turn' = "recv"
     \/ CmdTake /\ UNCHANGED turn
     \/ ServerBlocked /\ turn' = "recv" /\ UNCHANGED <<packetVars, serverVars>>
  /\ UNCHANGED <<usbVars, hostVars>>

MainLoop == LoopRecv \/ LoopSend \/ LoopServe

(***************************************************************************)
(* The host.  GDB sends a command when it has the reply to the last one,   *)
(* opens a session with qSupported and vMustReplyEmpty, and gives up when  *)
(* the latter is not answered as it must be.                               *)
(***************************************************************************)
Packet(k) ==
  <<"$", k>> \o [i \in 1 .. Pad[k] |-> "d"] \o <<"#", "x", "x">>

Allowed ==
  CASE hostPhase = "none"    -> {"qSupported"}
    [] hostPhase = "opening" -> {"vMustReplyEmpty"}
    [] OTHER                 -> Commands \ {"qSupported", "vMustReplyEmpty"}

HostAsk(k) ==
  /\ configured /\ hostAsked = None /\ k \in Allowed
  /\ hostAsked' = k /\ hostGot' = None
  /\ hostOut' = hostOut \o Packet(k)
  /\ pressed' = FALSE
  /\ UNCHANGED <<hostPhase, hostAck, breaks, restarts>>

HostBreak ==
  /\ hostAsked \in {"c", "s"} /\ breaks < MaxBreaks
  /\ hostOut' = Append(hostOut, "^C")
  /\ breaks' = breaks + 1
  /\ pressed' = TRUE
  /\ UNCHANGED <<hostAsked, hostGot, hostPhase, hostAck, restarts>>

\* The final reply r to the command asked moves the session on.
PhaseAfter(r) ==
  CASE hostAsked = "qSupported"                      -> "opening"
    [] hostAsked = "vMustReplyEmpty" /\ r = "empty"  -> "open"
    [] hostAsked = "vMustReplyEmpty" /\ r # "empty"  -> "none"
    [] hostAsked = "k"                               -> "none"
    [] OTHER                                         -> hostPhase

\* A response has arrived; GDB acknowledges it unless told not to.
HostReceive(resp) ==
  /\ hostOut' = IF hostAck THEN Append(hostOut, "+") ELSE hostOut
  /\ hostGot' = resp.body
  /\ IF resp.body = "O"
       THEN UNCHANGED <<hostAsked, hostPhase, hostAck>>
       ELSE /\ hostAsked' = None
            /\ hostPhase' = PhaseAfter(resp.body)
            /\ hostAck' = IF hostPhase' = "none" THEN TRUE
                          ELSE hostAck /\ hostAsked # "QStartNoAckMode"
  /\ UNCHANGED <<pressed, breaks, restarts>>

\* GDB is killed and started again; the bytes it had written may be lost.
HostRestart ==
  /\ restarts < Restarts
  /\ restarts' = restarts + 1
  /\ hostOut' \in {<<>>, hostOut}
  /\ hostAsked' = None /\ hostGot' = None /\ hostPhase' = "none"
  /\ hostAck' = TRUE
  /\ pressed' = FALSE
  /\ UNCHANGED breaks

Host ==
  /\ (\E k \in Commands : HostAsk(k)) \/ HostBreak \/ HostRestart
  /\ UNCHANGED <<packetVars, usbVars, serverVars, turn>>

(***************************************************************************)
(* The bus: transfers end in an interrupt handler of the probe.            *)
(***************************************************************************)
Enumerate ==
  /\ Configure
  /\ UNCHANGED <<serverVars, turn, hostVars>>

\* Bytes GDB wrote together or shortly after each other may share a packet,
\* and a packet may end anywhere in a command.
UsbOut ==
  /\ \E n \in 1 .. Len(hostOut) :
       /\ n \in Cuts \cup {Len(hostOut), MaxPacket}
       /\ n <= MaxPacket
       /\ DataOut(SubSeq(hostOut, 1, n))
       /\ hostOut' = SubSeq(hostOut, n + 1, Len(hostOut))
  /\ UNCHANGED <<hostAsked, hostGot, hostPhase, hostAck, pressed,
                 breaks, restarts, serverVars, turn>>

UsbIn ==
  /\ DataIn
  /\ IF inXfer = 0 THEN UNCHANGED hostVars ELSE HostReceive(response)
  /\ UNCHANGED <<serverVars, turn>>

Target ==
  /\ HartStops \/ TimerExpires
  /\ UNCHANGED <<packetVars, usbVars, turn, hostVars>>

Next == MainLoop \/ Host \/ Enumerate \/ UsbOut \/ UsbIn \/ Target

\* The main loop never ends, the host controller keeps polling the endpoints
\* and timers run out.  Nothing obliges GDB to ask, the user to press Ctrl-C or
\* a hart to stop.
Fairness ==
  /\ WF_vars(MainLoop)
  /\ WF_vars(UsbOut)
  /\ WF_vars(UsbIn)
  /\ WF_vars(TimerExpires /\ UNCHANGED <<packetVars, usbVars, turn, hostVars>>)

Spec == Init /\ [][Next]_vars

FairSpec == Spec /\ Fairness
-----------------------------------------------------------------------------
(***************************************************************************)
(* Properties.                                                             *)
(***************************************************************************)
\* Every variable has its type.
TypeOK ==
  /\ UsbTypeOK /\ ServerTypeOK
  /\ turn \in {"recv", "send", "serve"}
  /\ hostOut \in Seq(Byte)
  /\ hostAsked \in Commands \cup {None}
  /\ hostGot \in Replies \cup {None}
  /\ hostPhase \in {"none", "opening", "open"}
  /\ hostAck \in BOOLEAN
  /\ pressed \in BOOLEAN /\ breaks \in 0 .. MaxBreaks /\ restarts \in 0 .. Restarts

\* Who owns the response buffer.  The server has got it whenever it writes
\* without asking: at the head of the loop while the target runs, and at the
\* end of a reset.  The send half has got it from the packet it has taken to
\* the one it releases, and the USB core only within that time.
Ownership ==
  /\ sendPc \in {"clear", "submit", "wait"} => ~response.busy
  /\ sendPc = "submit" => ~sent
  /\ inXfer # Idle => sendPc = "wait" /\ ~sent
  /\ gdbConnected /\ targetRunning => serverPc \in {"poll", "runSent"}
  /\ gdbConnected /\ targetRunning /\ serverPc = "poll" => response.busy
  /\ serverPc = "reset" => response.busy

\* The response pipe hands one buffer to and fro.  While the USB core may
\* still read it, neither its bytes nor its length change, whatever the
\* server, which writes through a pointer it got earlier, does.
ResponseStable ==
  [][inXfer # Idle =>
       /\ response'.body = response.body
       /\ response'.ack = response.ack
       /\ response'.len = response.len]_vars

\* No reply is lost by being overwritten: a response that was handed over is
\* replaced only after its transfer has ended.
ResponseSent ==
  [][~response.busy /\ response' # response => sendPc = "wait" /\ sent]_vars

\* What the server executes is what the host waits for: a command taken from
\* the pipe is the whole payload of the command asked, however USB cut it
\* into packets and whatever "+" or checksum digits lay before it.
CommandIntact ==
  command.busy => Content(command) = SubSeq(Packet(hostAsked), 2, Pad[hostAsked] + 2)

\* The indices that command_buffer keeps between calls are the ones a scan of
\* the whole buffer would find.
ScanExact ==
  LET seen == SubSeq(command.buffer, 1, command.scan)
  IN  /\ command.scan <= Len(command.buffer)
      /\ command.dollar = FirstFrom(seen, "$", 0)
      /\ command.sharp = FirstFrom(seen, "#", 0)

\* Between commands, a server that believes the target of a working
\* connection to be stopped is right: it has stopped or is about to.
StoppedMeansStopped ==
  gdbConnected /\ ~targetRunning /\ targetError = "none" => hart # "running"

\* The end of a session, by a kill or by an error, lets the hart run again,
\* unless the JTAG line itself is down.
DisconnectResumes ==
  [][gdbConnected /\ ~gdbConnected' /\ targetError # "line" => hart' = "running"]_vars

\* GDB gets a "+" with a reply exactly while it is in acknowledgement mode:
\* the two ends change the mode at the same packet.
AckAgrees ==
  [][inXfer > 0 /\ inXfer' # inXfer => response.ack = hostAck]_vars

\* The probe keeps the promise of RspSession to a GDB that does not press
\* Ctrl-C: one final reply of the right kind for every command.
Session == INSTANCE RspSession WITH asked <- hostAsked, got <- hostGot

SessionSpec == Session!Spec

\* The packet the host has sent does not fit in the pipe: more stale bytes,
\* which no command will take away, lie before its "$" than the buffer has room
\* for beside it.
Wedged ==
  /\ recvPc = "push" /\ ~command.busy /\ ~CommandFound
  /\ Cap - Len(command.buffer) < Len(recvBuf)
  /\ FirstFrom(command.buffer \o recvBuf, "$", 0) > Cap - Len(Packet(hostAsked))

\* Every command but c and s is answered in the end; only one that does not fit
\* behind the stale bytes in the pipe (gdb_packet_process_command) is not.
CommandAnswered ==
  (hostAsked \notin {None, "c", "s"}) ~> (hostAsked \in {None, "c", "s"} \/ Wedged)

\* When the hart of a connected target that the server let run has stopped,
\* GDB is told.
StopReported ==
  (gdbConnected /\ targetRunning /\ hart = "halted") ~> (hostGot = "T05")

\* A Ctrl-C ends the wait for the stop it is pressed in, one way or another.
BreakHonoured ==
  (hostAsked \in {"c", "s"} /\ pressed) ~> (hostAsked = None)

\* A Ctrl-C that GDB sends in no-acknowledgement mode and that reaches the
\* pipe of a running target alone stops it.
BreakStops ==
  (gdbConnected /\ targetRunning /\ ~hostAck /\ command.buffer = <<"^C">>)
    ~> (~targetRunning)
=============================================================================

--------------------------- MODULE GdbLinkProofs ---------------------------
(***************************************************************************)
(* Theorems about GdbLink, for every value of its constants.               *)
(***************************************************************************)
EXTENDS GdbLink, SequenceTheorems, NaturalsInduction, WellFoundedInduction, TLAPS

(***************************************************************************)
(* The packet pipes.                                                       *)
(***************************************************************************)
\* A non-empty set of natural numbers has a least element.
LEMMA LeastNatural ==
  ASSUME NEW T \in SUBSET Nat, T # {}
  PROVE  \E i \in T : \A j \in T : i <= j
<1> DEFINE R == {ss \in Nat \X Nat : ss[1] < ss[2]}
<1>1. IsWellFoundedOn(R, Nat)
  BY NatLessThanWellFounded DEF OpToRel
<1>2. PICK i \in T : \A j \in T : ~(<<j, i>> \in R)
  BY <1>1, WFMin
<1>3. ASSUME NEW j \in T  PROVE  i <= j
  <2>1. <<j, i>> \in Nat \X Nat
    OBVIOUS
  <2>2. ~(<<j, i>>[1] < <<j, i>>[2])
    BY <1>2, <2>1
  <2>3. ~(j < i)
    BY <2>2
  <2> QED
    BY <2>3
<1> QED
  BY <1>3

\* FirstFrom returns -1, or an index of x that no earlier one precedes.
LEMMA FirstFromProperties ==
  ASSUME NEW b \in Seq(Byte), NEW x, NEW from \in Nat
  PROVE  LET f == FirstFrom(b, x, from)
         IN  \/ f = -1 /\ \A i \in from .. (Len(b) - 1) : b[i + 1] # x
             \/ /\ f \in from .. (Len(b) - 1)
                /\ b[f + 1] = x
                /\ \A i \in from .. (f - 1) : b[i + 1] # x
<1> DEFINE hits == {i \in from .. (Len(b) - 1) : b[i + 1] = x}
           f == FirstFrom(b, x, from)
<1>1. CASE hits = {}
  BY <1>1 DEF FirstFrom
<1>2. CASE hits # {}
  <2>1. Len(b) \in Nat
    OBVIOUS
  <2>2. hits \in SUBSET Nat
    BY <2>1
  <2>3. \E i \in hits : \A j \in hits : i <= j
    BY <1>2, <2>2, LeastNatural
  <2>4. f = CHOOSE i \in hits : \A j \in hits : i <= j
    BY <1>2 DEF FirstFrom
  <2>5. f \in hits /\ \A j \in hits : f <= j
    BY <2>3, <2>4
  <2>6. f \in from .. (Len(b) - 1) /\ b[f + 1] = x
    BY <2>5
  <2>7. ASSUME NEW i \in from .. (f - 1)  PROVE  b[i + 1] # x
    <3>1. i \in from .. (Len(b) - 1) /\ i < f
      BY <2>1, <2>6
    <3> QED
      BY <3>1, <2>5
  <2> QED
    BY <2>6, <2>7
<1> QED
  BY <1>1, <1>2

\* command_buffer keeps the pipe well-formed.
LEMMA ScanTyped ==
  ASSUME NEW c \in CommandType
  PROVE  Scan(c) \in CommandType
<1>1. c.buffer \in Seq(Byte) /\ c.scan \in Nat /\ Len(c.buffer) \in Nat
  BY DEF CommandType
<1>2. FirstFrom(c.buffer, "$", c.scan) \in Int /\ FirstFrom(c.buffer, "#", c.scan) \in Int
  BY <1>1, FirstFromProperties
<1> QED
  BY <1>1, <1>2 DEF CommandType, Scan

LEMMA NoCommandTyped == NoCommand \in CommandType
<1>1. "x" \in Byte
  BY DEF Byte
<1>2. <<>> \in Seq(Byte)
  OBVIOUS
<1> QED
  BY <1>1, <1>2 DEF NoCommand, CommandType

LEMMA CommandTaken ==
  ASSUME command \in CommandType, TakeCommand
  PROVE  command' \in CommandType
<1> DEFINE s == Scan(command)
<1>1. s \in CommandType
  BY ScanTyped
<1>2. s.buffer \in Seq(Byte) /\ s.dollar \in Int /\ s.sharp \in Int
  BY <1>1 DEF CommandType
<1>3. "^C" \in Byte
  BY DEF Byte
<1>4. CASE Framed(s)
  <2>1. PICK b \in IF s.dollar + 2 <= Len(s.buffer) THEN {s.buffer[s.dollar + 2]} ELSE Byte :
          command' = [s EXCEPT !.busy = TRUE, !.first = b, !.cmdLen = s.sharp - s.dollar - 1]
    BY <1>4 DEF TakeCommand
  <2>2. s.dollar + 2 \in Nat \ {0}
    BY <1>2, <1>4 DEF Framed
  <2>3. b \in Byte
    BY <1>2, <2>1, <2>2
  <2>4. s.sharp - s.dollar - 1 \in Int
    BY <1>2
  <2> QED
    BY <1>1, <2>1, <2>3, <2>4 DEF CommandType
<1>5. CASE ~Framed(s)
  <2>1. command' = [s EXCEPT !.busy = TRUE, !.first = "^C", !.cmdLen = 1]
    BY <1>5 DEF TakeCommand
  <2>2. \E b \in Byte, n \in Int :
          command' = [s EXCEPT !.busy = TRUE, !.first = b, !.cmdLen = n]
    <3>1. 1 \in Int
      OBVIOUS
    <3> QED
      BY <1>3, <2>1, <3>1, Zenon
  <2> QED
    BY <1>1, <2>2 DEF CommandType
<1> QED
  BY <1>4, <1>5

\* A response that is handed over is well-formed and no longer the server's.
LEMMA Responded ==
  ASSUME NEW resp \in ResponseType, NEW r \in Replies
  PROVE  Respond(resp, r) \in ResponseType /\ ~Respond(resp, r).busy
<1>1. ReplyLen[r] \in Nat
  BY PacketAssumption
<1>2. ReplyLen[r] + (IF resp.noAck THEN 1 ELSE 2) + 3 \in Nat
  BY <1>1
<1> QED
  BY <1>2 DEF Respond, ResponseType

(***************************************************************************)
(* The server.  Every handler ends well-formed; one that lets a connected  *)
(* target run, or that starts a reset, keeps the response buffer; and the  *)
(* console output and the replies come from it.                            *)
(***************************************************************************)
Handled ==
  /\ PacketTypeOK' /\ ServerTypeOK'
  /\ gdbConnected' /\ targetRunning' => serverPc' = "poll" /\ response' = response
  /\ serverPc' = "reset" => response' = response

LEMMA AnswerHandles ==
  ASSUME PacketTypeOK, ServerTypeOK, ~(gdbConnected /\ targetRunning),
         NEW r \in Replies, Answer(r)
  PROVE  Handled
<1>1. response' \in ResponseType
  BY Responded DEF Answer, ResponseDone, PacketTypeOK
<1>2. command' \in CommandType
  BY NoCommandTyped DEF Answer, Finish, CommandDone
<1>3. UNCHANGED <<sessionVars, console, vcom, hart, timer>> /\ serverPc' = "poll"
  BY DEF Answer, Finish
<1> QED
  BY <1>1, <1>2, <1>3 DEF Handled, PacketTypeOK, ServerTypeOK, sessionVars

LEMMA RcmdHandles ==
  ASSUME PacketTypeOK, ServerTypeOK, ~(gdbConnected /\ targetRunning), Rcmd
  PROVE  Handled
<1>1. CASE RcmdReset
  BY <1>1 DEF RcmdReset, Handled, PacketTypeOK, ServerTypeOK, packetVars, sessionVars
<1>2. CASE RcmdShow
  <2>1. response' \in ResponseType
    BY <1>2, Responded DEF RcmdShow, ResponseDone, PacketTypeOK, Replies
  <2> QED
    BY <1>2, <2>1 DEF RcmdShow, Handled, PacketTypeOK, ServerTypeOK, sessionVars
<1>3. CASE RcmdVcom
  <2>1. response' \in ResponseType
    BY <1>3, Responded DEF RcmdVcom, ResponseDone, PacketTypeOK, Replies
  <2>2. command' \in CommandType /\ serverPc' = "poll"
    BY <1>3, NoCommandTyped DEF RcmdVcom, Finish, CommandDone
  <2>3. vcom' \in BOOLEAN /\ UNCHANGED <<sessionVars, console, hart, timer>>
    BY <1>3 DEF RcmdVcom
  <2> QED
    BY <2>1, <2>2, <2>3 DEF Handled, PacketTypeOK, ServerTypeOK, sessionVars
<1>4. CASE RcmdHalt
  BY <1>4, AnswerHandles DEF RcmdHalt, Replies
<1>5. CASE RcmdUnsupported
  BY <1>5, AnswerHandles DEF RcmdUnsupported, Replies
<1> QED
  BY <1>1, <1>2, <1>3, <1>4, <1>5 DEF Rcmd

LEMMA QRcmdHandles ==
  ASSUME PacketTypeOK, ServerTypeOK, ~(gdbConnected /\ targetRunning), CmdqRcmd
  PROVE  Handled
<1>1. CASE RcmdFlush
  <2>1. response' \in ResponseType
    BY <1>1, Responded DEF RcmdFlush, ResponseDone, PacketTypeOK, Replies
  <2> QED
    BY <1>1, <2>1 DEF RcmdFlush, Handled, PacketTypeOK, ServerTypeOK, sessionVars
<1> QED
  BY <1>1, RcmdHandles DEF CmdqRcmd

\* A handler that ends the session.
LEMMA DisconnectHandles ==
  ASSUME PacketTypeOK, ServerTypeOK, NEW r \in Replies, ResponseDone(r),
         Disconnected, Finish, console' \in BOOLEAN, UNCHANGED <<vcom, timer>>
  PROVE  Handled
<1>1. response' \in ResponseType
  BY Responded DEF ResponseDone, PacketTypeOK
<1>2. command' \in CommandType /\ serverPc' = "poll"
  BY NoCommandTyped DEF Finish, CommandDone
<1>3. gdbConnected' = FALSE /\ targetRunning' \in BOOLEAN /\ targetError' = targetError
  BY DEF Disconnected, TargetResume, ServerTypeOK
<1>4. hart' \in {"running", "halting", "halted"}
  BY DEF Disconnected, TargetResume, ServerTypeOK
<1> QED
  BY <1>1, <1>2, <1>3, <1>4 DEF Handled, PacketTypeOK, ServerTypeOK

LEMMA DispatchHandles ==
  ASSUME PacketTypeOK, ServerTypeOK, ~(gdbConnected /\ targetRunning), Dispatch
  PROVE  Handled
<1>1. CASE CmdqSupported
  <2>1. [response EXCEPT !.noAck = FALSE] \in ResponseType
    BY DEF PacketTypeOK, ResponseType
  <2>2. response' \in ResponseType
    BY <1>1, <2>1, Responded DEF CmdqSupported, Replies
  <2>3. command' \in CommandType /\ serverPc' = "poll" /\ UNCHANGED <<vcom, timer>>
    BY <1>1, NoCommandTyped DEF CmdqSupported, Finish, CommandDone
  <2>4. gdbConnected' = TRUE /\ targetRunning' = FALSE /\ console' = TRUE
    BY <1>1 DEF CmdqSupported, Connected
  <2>5. /\ targetError' \in {"none"} \cup LineErrors \cup HaltErrors
        /\ hart' \in {"running", "halting", "halted"}
    BY <1>1 DEF CmdqSupported, Connected, TargetHalt, ServerTypeOK
  <2> QED
    BY <2>2, <2>3, <2>4, <2>5 DEF Handled, PacketTypeOK, ServerTypeOK
<1>2. CASE CmdQ
  <2>1. Respond(response, "OK") \in ResponseType
    BY Responded DEF PacketTypeOK, Replies
  <2>2. response' \in ResponseType
    BY <1>2, <2>1 DEF CmdQ, ResponseType
  <2>3. command' \in CommandType /\ serverPc' = "poll"
    BY <1>2, NoCommandTyped DEF CmdQ, Finish, CommandDone
  <2>4. UNCHANGED <<sessionVars, console, vcom, hart, timer>>
    BY <1>2 DEF CmdQ
  <2> QED
    BY <2>2, <2>3, <2>4 DEF Handled, PacketTypeOK, ServerTypeOK, sessionVars
<1>3. CASE CmdResume
  <2>1. command' \in CommandType /\ serverPc' = "poll"
    BY <1>3, NoCommandTyped DEF CmdResume, Finish, CommandDone
  <2> QED
    BY <1>3, <2>1 DEF CmdResume, TargetResume, Handled, PacketTypeOK, ServerTypeOK
<1>4. CASE CmdKill
  BY <1>4, DisconnectHandles DEF CmdKill, Replies, ServerTypeOK
<1>5. CASE CmdFlash
  BY <1>5, AnswerHandles, DisconnectHandles DEF CmdFlash, Replies, ServerTypeOK
<1>6. CASE CmdvMustReplyEmpty
  <2>1. CASE Answer("empty")
    BY <2>1, AnswerHandles DEF Replies
  <2>2. CASE /\ ResponseDone(IF console THEN "text" ELSE "empty")
             /\ console' = FALSE /\ Disconnected /\ Finish /\ UNCHANGED <<vcom, timer>>
    BY <2>2, DisconnectHandles DEF Replies
  <2> QED
    BY <1>6, <2>1, <2>2 DEF CmdvMustReplyEmpty
<1>7. CASE CmdqRcmd
  BY <1>7, QRcmdHandles
<1>8. CASE CmdqXfer \/ CmdH \/ CmdQuestionMark \/ CmdRead \/ CmdWrite
             \/ CmdBreakpoint \/ CmdFlashDone \/ CmdOther
  <2>1. PICK r \in Replies : Answer(r)
    BY <1>8 DEF CmdqXfer, CmdH, CmdQuestionMark, CmdRead, CmdWrite, CmdBreakpoint,
                CmdFlashDone, CmdOther, Replies
  <2> QED
    BY <2>1, AnswerHandles
<1> QED
  BY <1>1, <1>2, <1>3, <1>4, <1>5, <1>6, <1>7, <1>8 DEF Dispatch

\* What a poll of the server does to the parts of the invariant it shares with
\* the USB side.
ServerEffect ==
  /\ PacketTypeOK' /\ ServerTypeOK'
  /\ response' # response => response.busy
  /\ gdbConnected' /\ targetRunning' => serverPc' \in {"poll", "runSent"}
  /\ gdbConnected' /\ targetRunning' /\ serverPc' = "poll" => response'.busy
  /\ serverPc' = "reset" => response'.busy

LEMMA HandledEffect ==
  ASSUME response.busy, Handled
  PROVE  ServerEffect
BY DEF Handled, ServerEffect

\* The stop reply ends the time in which the target runs.
LEMMA HaltCheckEffect ==
  ASSUME response \in ResponseType, response.busy, targetRunning \in BOOLEAN, HaltCheck
  PROVE  /\ response' \in ResponseType /\ targetRunning' \in BOOLEAN
         /\ targetRunning' => response'.busy
<1>1. CASE hart = "halted"
  BY <1>1, Responded DEF HaltCheck, ResponseDone, Replies
<1>2. CASE hart # "halted"
  BY <1>2 DEF HaltCheck
<1> QED
  BY <1>1, <1>2

LEMMA RunPollEffect ==
  ASSUME PacketTypeOK, ServerTypeOK, Ownership, RunPoll
  PROVE  /\ response.busy /\ serverPc' = "poll"
         /\ UNCHANGED <<gdbConnected, targetError, console, vcom, timer>>
BY DEF RunPoll, Ownership

LEMMA ServerStep ==
  ASSUME PacketTypeOK, ServerTypeOK, Ownership, ServerPoll \/ CmdTake
  PROVE  ServerEffect
<1>1. CASE RunConsole
  <2>1. response.busy
    BY <1>1 DEF RunConsole, Ownership
  <2>2. response' \in ResponseType
    BY <1>1, Responded DEF RunConsole, ResponseDone, PacketTypeOK, Replies
  <2> QED
    BY <1>1, <2>1, <2>2 DEF RunConsole, ServerEffect, PacketTypeOK, ServerTypeOK, sessionVars
<1>2. CASE RunIdle
  <2>1. command' \in CommandType
    BY <1>2, ScanTyped DEF RunIdle, NothingFound, PacketTypeOK
  <2>2. /\ response.busy /\ serverPc' = "poll"
        /\ UNCHANGED <<gdbConnected, targetError, console, vcom, timer, hart>>
    BY <1>2, RunPollEffect DEF RunIdle
  <2>3. /\ response' \in ResponseType /\ targetRunning' \in BOOLEAN
        /\ targetRunning' => response'.busy
    BY <1>2, <2>2, HaltCheckEffect DEF RunIdle, PacketTypeOK, ServerTypeOK
  <2> QED
    BY <2>1, <2>2, <2>3 DEF ServerEffect, PacketTypeOK, ServerTypeOK
<1>3. CASE RunBreak
  <2>1. command' \in CommandType
    BY <1>3, NoCommandTyped DEF RunBreak, CommandDone
  <2>2. /\ response.busy /\ serverPc' = "poll" /\ targetRunning' = FALSE
        /\ UNCHANGED <<gdbConnected, targetError, console, vcom, timer>>
    BY <1>3, RunPollEffect DEF RunBreak
  <2>3. response' \in ResponseType
    BY <1>3, Responded DEF RunBreak, ResponseDone, PacketTypeOK, Replies
  <2>4. hart' \in {"running", "halting", "halted"}
    BY <1>3 DEF RunBreak, TargetHalt, ServerTypeOK
  <2> QED
    BY <2>1, <2>2, <2>3, <2>4 DEF ServerEffect, PacketTypeOK, ServerTypeOK
<1>4. CASE RunDrop
  <2>1. command' \in CommandType
    BY <1>4, NoCommandTyped DEF RunDrop, CommandDone
  <2>2. /\ response.busy /\ serverPc' = "poll"
        /\ UNCHANGED <<gdbConnected, targetError, console, vcom, timer, hart>>
    BY <1>4, RunPollEffect DEF RunDrop
  <2>3. /\ response' \in ResponseType /\ targetRunning' \in BOOLEAN
        /\ targetRunning' => response'.busy
    BY <1>4, <2>2, HaltCheckEffect DEF RunDrop, PacketTypeOK, ServerTypeOK
  <2> QED
    BY <2>1, <2>2, <2>3 DEF ServerEffect, PacketTypeOK, ServerTypeOK
<1>5. CASE CmdNone
  <2>1. command' \in CommandType
    BY <1>5, ScanTyped DEF CmdNone, NothingFound, PacketTypeOK
  <2>2. ~(gdbConnected /\ targetRunning) /\ serverPc' = "cmdWait"
    BY <1>5 DEF CmdNone, CmdPoll, Ownership
  <2> QED
    BY <1>5, <2>1, <2>2 DEF CmdNone, ServerEffect, PacketTypeOK, ServerTypeOK, sessionVars
<1>6. CASE CmdTake
  <2>1. command' \in CommandType
    BY <1>6, CommandTaken DEF CmdTake, PacketTypeOK
  <2>2. ~(gdbConnected /\ targetRunning) /\ serverPc' = "resWait"
    BY <1>6 DEF CmdTake, CmdPoll, Ownership
  <2> QED
    BY <1>6, <2>1, <2>2 DEF CmdTake, ServerEffect, PacketTypeOK, ServerTypeOK, sessionVars
<1>7. CASE Dispatch
  <2>1. response.busy /\ ~(gdbConnected /\ targetRunning)
    BY <1>7 DEF Dispatch, Ownership
  <2> QED
    BY <1>7, <2>1, DispatchHandles, HandledEffect
<1>8. CASE RcmdAfterFlush
  <2>1. response.busy /\ ~(gdbConnected /\ targetRunning) /\ Rcmd
    BY <1>8 DEF RcmdAfterFlush, Ownership
  <2> QED
    BY <2>1, RcmdHandles, HandledEffect
<1>9. CASE RcmdShown
  <2>1. response.busy /\ ~(gdbConnected /\ targetRunning) /\ Answer("OK")
    BY <1>9 DEF RcmdShown, Ownership
  <2> QED
    BY <2>1, AnswerHandles, HandledEffect DEF Replies
<1>10. CASE RcmdResetDone
  <2>1. response.busy /\ ~(gdbConnected /\ targetRunning) /\ Answer("OK")
    BY <1>10 DEF RcmdResetDone, Ownership
  <2> QED
    BY <2>1, AnswerHandles, HandledEffect DEF Replies
<1> QED
  BY <1>1, <1>2, <1>3, <1>4, <1>5, <1>6, <1>7, <1>8, <1>9, <1>10 DEF ServerPoll

(***************************************************************************)
(* The serial port.                                                        *)
(***************************************************************************)
LEMMA RecvStep ==
  ASSUME UsbTypeOK, Recv
  PROVE  UsbTypeOK' /\ UNCHANGED <<response, configured, sendVars>>
<1>1. UNCHANGED <<response, configured, sendVars>>
  BY DEF Recv
<1>2. CASE RecvPush
  <2>1. command'.buffer = command.buffer \o recvBuf /\ command' = [command EXCEPT !.buffer = @ \o recvBuf]
    BY <1>2 DEF RecvPush, ProcessCommand, UsbTypeOK, PacketTypeOK, CommandType
  <2>2. command.buffer \o recvBuf \in Seq(Byte)
    BY ConcatProperties DEF UsbTypeOK, PacketTypeOK, CommandType
  <2>3. command' \in CommandType
    BY <2>1, <2>2 DEF UsbTypeOK, PacketTypeOK, CommandType
  <2> QED
    BY <1>1, <1>2, <2>3 DEF RecvPush, UsbTypeOK, PacketTypeOK, sendVars
<1>3. CASE RecvConfigured \/ RecvClear \/ RecvArm \/ RecvWait
  BY <1>1, <1>3 DEF RecvConfigured, RecvClear, RecvArm, RecvWait, UsbTypeOK,
                    PacketTypeOK, sendVars
<1> QED
  BY <1>2, <1>3 DEF Recv

\* The part of Ownership that is about the send half.
SendOwns ==
  /\ sendPc \in {"clear", "submit", "wait"} => ~response.busy
  /\ sendPc = "submit" => ~sent
  /\ inXfer # Idle => sendPc = "wait" /\ ~sent

LEMMA SendStep ==
  ASSUME UsbTypeOK, SendOwns, Send
  PROVE  /\ UsbTypeOK' /\ SendOwns' /\ UNCHANGED <<command, configured, recvVars>>
         /\ response.busy => response'.busy
         /\ response' # response => sendPc = "wait" /\ sent
<1>1. UNCHANGED <<command, configured, recvVars>>
  BY DEF Send
<1>2. CASE SendConfigured \/ SendGet \/ SendClear
  BY <1>1, <1>2 DEF SendConfigured, SendGet, SendClear, ResponseReady, UsbTypeOK,
                    PacketTypeOK, SendOwns, recvVars
<1>3. CASE SendSubmit
  <2>1. response.len \in Nat
    BY DEF UsbTypeOK, PacketTypeOK, ResponseType
  <2> QED
    BY <1>1, <1>3, <2>1 DEF SendSubmit, UsbTypeOK, PacketTypeOK, SendOwns, recvVars
<1>4. CASE SendRelease
  <2>1. \E n \in Nat : response' = [response EXCEPT !.busy = TRUE, !.len = n]
    <3>1. 0 \in Nat
      OBVIOUS
    <3> QED
      BY <1>4, <3>1, Zenon DEF SendRelease, ReleaseResponse
  <2>2. response' \in ResponseType /\ response'.busy
    BY <2>1 DEF UsbTypeOK, PacketTypeOK, ResponseType
  <2> QED
    BY <1>1, <1>4, <2>2 DEF SendRelease, UsbTypeOK, PacketTypeOK, SendOwns, recvVars
<1> QED
  BY <1>2, <1>3, <1>4 DEF Send

LEMMA DataInStep ==
  ASSUME UsbTypeOK, SendOwns, DataIn
  PROVE  UsbTypeOK' /\ SendOwns' /\ UNCHANGED <<packetVars, configured, recvVars, sendPc>>
<1>1. /\ inXfer' \in Nat \cup {Idle} /\ sent' \in BOOLEAN
      /\ inXfer' # Idle => sent' = sent
  <2>1. CASE inXfer' = 0 /\ sent' = sent
    BY <2>1 DEF UsbTypeOK
  <2>2. CASE inXfer' = Idle /\ sent' = TRUE
    BY <2>2
  <2> QED
    BY <2>1, <2>2 DEF DataIn
<1>2. inXfer # Idle /\ UNCHANGED <<packetVars, configured, recvVars, sendPc>>
  BY DEF DataIn
<1> QED
  BY <1>1, <1>2 DEF UsbTypeOK, PacketTypeOK, SendOwns, packetVars, recvVars

(***************************************************************************)
(* The host.                                                               *)
(***************************************************************************)
HostTypeOK ==
  /\ hostOut \in Seq(Byte)
  /\ hostAsked \in Commands \cup {None}
  /\ hostGot \in Replies \cup {None}
  /\ hostPhase \in {"none", "opening", "open"}
  /\ hostAck \in BOOLEAN
  /\ pressed \in BOOLEAN /\ breaks \in 0 .. MaxBreaks /\ restarts \in 0 .. Restarts

LEMMA PacketTyped ==
  ASSUME NEW k \in Commands
  PROVE  Packet(k) \in Seq(Byte)
<1>1. {"$", "#", "x", "d", k} \subseteq Byte
  BY DEF Byte
<1>2. <<"$", k>> \in Seq(Byte) /\ <<"#", "x", "x">> \in Seq(Byte)
  BY <1>1
<1>3. Pad[k] \in Nat
  BY LinkAssumption
<1>4. [i \in 1 .. Pad[k] |-> "d"] \in Seq(Byte)
  BY <1>1, <1>3
<1>5. <<"$", k>> \o [i \in 1 .. Pad[k] |-> "d"] \in Seq(Byte)
  BY <1>2, <1>4, ConcatProperties
<1> QED
  BY <1>2, <1>5, ConcatProperties DEF Packet

LEMMA HostStep ==
  ASSUME HostTypeOK, (\E k \in Commands : HostAsk(k)) \/ HostBreak \/ HostRestart
  PROVE  HostTypeOK'
<1>1. ASSUME NEW k \in Commands, HostAsk(k)  PROVE  HostTypeOK'
  <2>1. hostOut' \in Seq(Byte)
    BY <1>1, PacketTyped, ConcatProperties DEF HostAsk, HostTypeOK
  <2> QED
    BY <1>1, <2>1 DEF HostAsk, HostTypeOK
<1>2. CASE HostBreak
  <2>1. "^C" \in Byte
    BY DEF Byte
  <2>2. hostOut' \in Seq(Byte)
    BY <1>2, <2>1, AppendProperties DEF HostBreak, HostTypeOK
  <2>3. breaks' \in 0 .. MaxBreaks
    BY <1>2, LinkAssumption DEF HostBreak, HostTypeOK
  <2> QED
    BY <1>2, <2>2, <2>3 DEF HostBreak, HostTypeOK
<1>3. CASE HostRestart
  <2>1. hostOut' \in Seq(Byte)
    <3>1. <<>> \in Seq(Byte)
      OBVIOUS
    <3> QED
      BY <1>3, <3>1 DEF HostRestart, HostTypeOK
  <2>2. restarts' \in 0 .. Restarts
    BY <1>3, LinkAssumption DEF HostRestart, HostTypeOK
  <2> QED
    BY <1>3, <2>1, <2>2 DEF HostRestart, HostTypeOK
<1> QED
  BY <1>1, <1>2, <1>3

LEMMA HostReceives ==
  ASSUME HostTypeOK, NEW resp \in ResponseType, HostReceive(resp)
  PROVE  HostTypeOK'
<1>1. "+" \in Byte
  BY DEF Byte
<1>2. hostOut' \in Seq(Byte)
  BY <1>1, AppendProperties DEF HostReceive, HostTypeOK
<1>3. hostGot' \in Replies
  BY DEF HostReceive, ResponseType
<1>4. hostPhase' \in {"none", "opening", "open"}
  BY DEF HostReceive, PhaseAfter, HostTypeOK
<1>5. hostAsked' \in Commands \cup {None} /\ hostAck' \in BOOLEAN
  BY DEF HostReceive, HostTypeOK
<1> QED
  BY <1>2, <1>3, <1>4, <1>5 DEF HostReceive, HostTypeOK

LEMMA DataOutStep ==
  ASSUME UsbTypeOK, HostTypeOK, UsbOut
  PROVE  /\ UsbTypeOK' /\ HostTypeOK'
         /\ UNCHANGED <<packetVars, configured, recvPc, sendVars, serverVars, turn>>
<1>1. PICK n \in 1 .. Len(hostOut) :
        /\ DataOut(SubSeq(hostOut, 1, n))
        /\ hostOut' = SubSeq(hostOut, n + 1, Len(hostOut))
  BY DEF UsbOut
<1>2. hostOut \in Seq(Byte) /\ Len(hostOut) \in Nat
  BY DEF HostTypeOK
<1>3. SubSeq(hostOut, 1, n) \in Seq(Byte)
  BY <1>2, SubSeqProperties
<1>4. SubSeq(hostOut, n + 1, Len(hostOut)) \in Seq(Byte)
  BY <1>2, SubSeqProperties
<1>5. UsbTypeOK'
  BY <1>1, <1>3 DEF DataOut, UsbTypeOK, PacketTypeOK, packetVars, sendVars
<1>6. HostTypeOK'
  BY <1>1, <1>4 DEF UsbOut, HostTypeOK
<1> QED
  BY <1>1, <1>5, <1>6 DEF UsbOut, DataOut

(***************************************************************************)
(* The system.                                                             *)
(***************************************************************************)
IInv == TypeOK /\ Ownership

LEMMA InitIInv == Init => IInv
<1> SUFFICES ASSUME Init  PROVE IInv
  OBVIOUS
<1>1. command \in CommandType
  BY NoCommandTyped DEF Init, PacketInit
<1>2. response \in ResponseType
  BY DEF Init, PacketInit, InitResponse, ResponseType, Replies
<1>3. <<>> \in Seq(Byte)
  OBVIOUS
<1>4. UsbTypeOK
  BY <1>1, <1>2, <1>3 DEF Init, UsbInit, UsbTypeOK, PacketTypeOK
<1>5. ServerTypeOK
  BY ServerAssumption DEF Init, ServerInit, ServerTypeOK
<1>6. 0 \in 0 .. MaxBreaks /\ 0 \in 0 .. Restarts
  BY LinkAssumption
<1>7. TypeOK
  BY <1>3, <1>4, <1>5, <1>6 DEF Init, TypeOK
<1>8. Ownership
  BY DEF Init, UsbInit, ServerInit, Ownership, Idle
<1> QED
  BY <1>7, <1>8 DEF IInv

\* Which part of the system an action of it is a step of.
LEMMA Steps ==
  ASSUME Next
  PROVE  \/ Recv /\ UNCHANGED <<serverVars, hostVars, turn>>
         \/ Send /\ UNCHANGED <<serverVars, hostVars, turn>>
         \/ /\ ServerPoll \/ CmdTake
            /\ UNCHANGED <<usbVars, hostVars>>
            /\ turn' \in {"recv", turn}
         \/ /\ turn' \in {"recv", "send", "serve"}
            /\ UNCHANGED <<packetVars, usbVars, serverVars, hostVars>>
         \/ /\ (\E k \in Commands : HostAsk(k)) \/ HostBreak \/ HostRestart
            /\ UNCHANGED <<packetVars, usbVars, serverVars, turn>>
         \/ Configure /\ UNCHANGED <<serverVars, turn, hostVars>>
         \/ UsbOut
         \/ UsbIn
         \/ /\ HartStops \/ TimerExpires
            /\ UNCHANGED <<packetVars, usbVars, turn, hostVars>>
<1>1. CASE LoopRecv
  BY <1>1 DEF LoopRecv
<1>2. CASE LoopSend
  BY <1>2 DEF LoopSend
<1>3. CASE LoopServe
  BY <1>3 DEF LoopServe
<1> QED
  BY <1>1, <1>2, <1>3 DEF Next, MainLoop, Host, Enumerate, Target

\* TypeOK and Ownership are inductive together.
LEMMA NextIInv == IInv /\ [Next]_vars => IInv'
<1> SUFFICES ASSUME IInv, [Next]_vars  PROVE IInv'
  OBVIOUS
<1> USE DEF IInv
<1>0. /\ UsbTypeOK /\ PacketTypeOK /\ ServerTypeOK /\ HostTypeOK /\ SendOwns
      /\ turn \in {"recv", "send", "serve"}
  BY DEF TypeOK, UsbTypeOK, HostTypeOK, Ownership, SendOwns
<1>1. CASE Recv /\ UNCHANGED <<serverVars, hostVars, turn>>
  <2>1. UsbTypeOK' /\ UNCHANGED <<response, configured, sendVars>>
    BY <1>0, <1>1, RecvStep
  <2> QED
    BY <1>1, <2>1 DEF TypeOK, ServerTypeOK, Ownership, serverVars, sessionVars, hostVars,
                      sendVars
<1>2. CASE Send /\ UNCHANGED <<serverVars, hostVars, turn>>
  <2>1. UsbTypeOK' /\ SendOwns' /\ (response.busy => response'.busy)
    BY <1>0, <1>2, SendStep
  <2> QED
    BY <1>2, <2>1 DEF TypeOK, ServerTypeOK, Ownership, SendOwns, serverVars, sessionVars,
                      hostVars
<1>3. CASE /\ ServerPoll \/ CmdTake
           /\ UNCHANGED <<usbVars, hostVars>>
           /\ turn' \in {"recv", turn}
  <2>1. ServerEffect
    BY <1>0, <1>3, ServerStep
  <2>2. UsbTypeOK'
    BY <1>0, <1>3, <2>1 DEF ServerEffect, UsbTypeOK, usbVars, recvVars, sendVars
  <2>3. TypeOK'
    BY <1>0, <1>3, <2>1, <2>2 DEF ServerEffect, TypeOK, hostVars
  <2>4. Ownership'
    BY <1>3, <2>1 DEF ServerEffect, Ownership, usbVars, sendVars
  <2> QED
    BY <2>3, <2>4
<1>4. CASE /\ turn' \in {"recv", "send", "serve"}
           /\ UNCHANGED <<packetVars, usbVars, serverVars, hostVars>>
  BY <1>4 DEF TypeOK, UsbTypeOK, PacketTypeOK, ServerTypeOK, Ownership, packetVars, usbVars,
              recvVars, sendVars, serverVars, sessionVars, hostVars
<1>5. CASE /\ (\E k \in Commands : HostAsk(k)) \/ HostBreak \/ HostRestart
           /\ UNCHANGED <<packetVars, usbVars, serverVars, turn>>
  <2>1. HostTypeOK'
    BY <1>0, <1>5, HostStep
  <2> QED
    BY <1>5, <2>1 DEF TypeOK, HostTypeOK, UsbTypeOK, PacketTypeOK, ServerTypeOK, Ownership,
                      packetVars, usbVars, recvVars, sendVars, serverVars, sessionVars
<1>6. CASE Configure /\ UNCHANGED <<serverVars, turn, hostVars>>
  BY <1>6 DEF Configure, TypeOK, UsbTypeOK, PacketTypeOK, ServerTypeOK, Ownership,
              packetVars, recvVars, sendVars, serverVars, sessionVars, hostVars
<1>7. CASE UsbOut
  <2>1. /\ UsbTypeOK' /\ HostTypeOK'
        /\ UNCHANGED <<packetVars, sendVars, serverVars, turn>>
    BY <1>0, <1>7, DataOutStep
  <2> QED
    BY <2>1 DEF TypeOK, HostTypeOK, ServerTypeOK, Ownership, packetVars, sendVars,
                serverVars, sessionVars
<1>8. CASE UsbIn
  <2>1. UsbTypeOK' /\ SendOwns' /\ UNCHANGED <<packetVars, sendPc, serverVars, turn>>
    BY <1>0, <1>8, DataInStep DEF UsbIn
  <2>2. HostTypeOK'
    <3>1. CASE UNCHANGED hostVars
      BY <1>0, <3>1 DEF HostTypeOK, hostVars
    <3>2. CASE HostReceive(response)
      BY <1>0, <3>2, HostReceives DEF PacketTypeOK
    <3> QED
      BY <1>8, <3>1, <3>2 DEF UsbIn
  <2> QED
    BY <2>1, <2>2 DEF TypeOK, HostTypeOK, ServerTypeOK, Ownership, SendOwns, packetVars,
                      serverVars, sessionVars
<1>9. CASE /\ HartStops \/ TimerExpires
           /\ UNCHANGED <<packetVars, usbVars, turn, hostVars>>
  <2>1. ServerTypeOK' /\ UNCHANGED <<serverPc, sessionVars>>
    BY <1>9 DEF HartStops, TimerExpires, TypeOK, ServerTypeOK, sessionVars
  <2>2. UsbTypeOK'
    BY <1>9 DEF TypeOK, UsbTypeOK, PacketTypeOK, packetVars, usbVars, recvVars, sendVars
  <2>3. TypeOK'
    BY <1>9, <2>1, <2>2 DEF TypeOK, hostVars
  <2>4. Ownership'
    BY <1>9, <2>1 DEF Ownership, packetVars, usbVars, sendVars, sessionVars
  <2> QED
    BY <2>3, <2>4
<1>10. CASE UNCHANGED vars
  BY <1>10 DEF vars, TypeOK, UsbTypeOK, PacketTypeOK, ServerTypeOK, Ownership, packetVars,
               usbVars, recvVars, sendVars, serverVars, sessionVars, hostVars
<1>11. CASE Next
  BY <1>1, <1>2, <1>3, <1>4, <1>5, <1>6, <1>7, <1>8, <1>9, <1>11, Steps
<1> QED
  BY <1>10, <1>11

LEMMA Invariance == Spec => []IInv
BY InitIInv, NextIInv, PTL DEF Spec

\* Every variable keeps its type: what the handlers, the scanner and the
\* protothreads store is what their C types and their callers expect.
THEOREM TypeCorrect == Spec => []TypeOK
<1>1. IInv => TypeOK
  BY DEF IInv
<1> QED
  BY <1>1, Invariance, PTL

\* At every moment the response buffer has one owner, and the server writes to
\* it without asking only while that is the server.
THEOREM OneOwner == Spec => []Ownership
<1>1. IInv => Ownership
  BY DEF IInv
<1> QED
  BY <1>1, Invariance, PTL

(***************************************************************************)
(* The response pipe.                                                      *)
(***************************************************************************)
\* Only the owner changes the response.
LEMMA ResponseStep ==
  ASSUME IInv, [Next]_vars, response' # response
  PROVE  response.busy \/ (sendPc = "wait" /\ sent)
<1> USE DEF IInv
<1>0. UsbTypeOK /\ PacketTypeOK /\ ServerTypeOK /\ HostTypeOK /\ SendOwns
  BY DEF TypeOK, UsbTypeOK, HostTypeOK, Ownership, SendOwns
<1>1. CASE Recv
  BY <1>0, <1>1, RecvStep
<1>2. CASE Send
  BY <1>0, <1>2, SendStep
<1>3. CASE ServerPoll \/ CmdTake
  BY <1>0, <1>3, ServerStep DEF ServerEffect
<1>4. CASE UNCHANGED packetVars
  BY <1>4 DEF packetVars
<1>5. CASE Configure
  BY <1>5 DEF Configure, packetVars
<1>6. CASE UsbOut
  BY <1>0, <1>6, DataOutStep DEF packetVars
<1>7. CASE UsbIn
  BY <1>7 DEF UsbIn, DataIn, packetVars
<1>8. CASE UNCHANGED vars
  BY <1>8 DEF vars, packetVars
<1>9. CASE Next
  BY <1>1, <1>2, <1>3, <1>4, <1>5, <1>6, <1>7, <1>9, Steps
<1> QED
  BY <1>8, <1>9

\* No reply is lost by being overwritten before its transfer has ended, in
\* whatever order the protothreads and the interrupts run.
THEOREM ResponsesAreSent == Spec => ResponseSent
<1>1. IInv /\ [Next]_vars =>
        [~response.busy /\ response' # response => sendPc = "wait" /\ sent]_vars
  BY ResponseStep
<1> QED
  BY <1>1, Invariance, PTL DEF Spec, ResponseSent

\* The bytes the USB core may still read do not change under it.
THEOREM ResponsesAreStable == Spec => ResponseStable
<1>1. ASSUME IInv, [Next]_vars, inXfer # Idle
      PROVE  response' = response
  <2>1. sendPc = "wait" /\ ~sent /\ ~response.busy
    BY <1>1 DEF IInv, Ownership
  <2> QED
    BY <1>1, <2>1, ResponseStep
<1>2. IInv /\ [Next]_vars =>
        [inXfer # Idle => /\ response'.body = response.body
                          /\ response'.ack = response.ack
                          /\ response'.len = response.len]_vars
  BY <1>1
<1> QED
  BY <1>2, Invariance, PTL DEF Spec, ResponseStable

(***************************************************************************)
(* The scanner.                                                            *)
(***************************************************************************)
\* A search that resumes where the last one ended finds what a search from
\* the start would.
LEMMA FirstFromResumes ==
  ASSUME NEW b \in Seq(Byte), NEW x, NEW n \in 0 .. Len(b)
  PROVE  LET g == FirstFrom(SubSeq(b, 1, n), x, 0)
         IN  FirstFrom(b, x, 0) = IF g = -1 THEN FirstFrom(b, x, n) ELSE g
<1> DEFINE p == SubSeq(b, 1, n)
           f == FirstFrom(b, x, 0)
           g == FirstFrom(p, x, 0)
           h == FirstFrom(b, x, n)
<1>1. Len(b) \in Nat /\ n \in Nat /\ n <= Len(b) /\ \A i \in 1 .. n : b[i] \in Byte
  OBVIOUS
<1>2. p \in Seq(Byte) /\ Len(p) = n /\ \A i \in 1 .. n : p[i] = b[i]
  BY <1>1, SubSeqProperties
<1>3. \/ f = -1 /\ \A i \in 0 .. (Len(b) - 1) : b[i + 1] # x
      \/ /\ f \in 0 .. (Len(b) - 1)
         /\ b[f + 1] = x
         /\ \A i \in 0 .. (f - 1) : b[i + 1] # x
  BY FirstFromProperties
<1>4. \/ g = -1 /\ \A i \in 0 .. (n - 1) : b[i + 1] # x
      \/ /\ g \in 0 .. (n - 1)
         /\ b[g + 1] = x
         /\ \A i \in 0 .. (g - 1) : b[i + 1] # x
  <2>1. \/ g = -1 /\ \A i \in 0 .. (Len(p) - 1) : p[i + 1] # x
        \/ /\ g \in 0 .. (Len(p) - 1)
           /\ p[g + 1] = x
           /\ \A i \in 0 .. (g - 1) : p[i + 1] # x
    <3> HIDE DEF p
    <3> QED
      BY <1>2, FirstFromProperties
  <2> HIDE DEF p, g
  <2>2. \A i \in 0 .. (n - 1) : p[i + 1] = b[i + 1]
    BY <1>1, <1>2
  <2> QED
    BY <1>1, <1>2, <2>1, <2>2
<1>5. \/ h = -1 /\ \A i \in n .. (Len(b) - 1) : b[i + 1] # x
      \/ /\ h \in n .. (Len(b) - 1)
         /\ b[h + 1] = x
         /\ \A i \in n .. (h - 1) : b[i + 1] # x
  BY <1>1, FirstFromProperties
<1> HIDE DEF p, f, g, h
<1>6. CASE g # -1
  <2>1. g \in 0 .. (Len(b) - 1)
    BY <1>1, <1>4, <1>6
  <2>2. f # -1
    BY <1>3, <1>4, <1>6, <2>1
  <2>3. ~(f < g) /\ ~(g < f)
    BY <1>1, <1>3, <1>4, <1>6, <2>1, <2>2
  <2>4. f = g
    BY <1>3, <2>1, <2>2, <2>3
  <2> QED
    BY <1>6, <2>4 DEF f, g, h, p
<1>7. CASE g = -1 /\ h = -1
  <2>1. \A i \in 0 .. (Len(b) - 1) : b[i + 1] # x
    BY <1>1, <1>4, <1>5, <1>7
  <2>2. f = -1
    BY <1>3, <2>1
  <2> QED
    BY <1>7, <2>2 DEF f, g, h, p
<1>8. CASE g = -1 /\ h # -1
  <2>1. h \in 0 .. (Len(b) - 1) /\ b[h + 1] = x
    BY <1>1, <1>5, <1>8
  <2>2. \A i \in 0 .. (h - 1) : b[i + 1] # x
    BY <1>1, <1>4, <1>5, <1>8, <2>1
  <2>3. f # -1
    BY <1>3, <2>1
  <2>4. ~(f < h) /\ ~(h < f)
    BY <1>1, <1>3, <2>1, <2>2, <2>3
  <2>5. f = h
    BY <1>3, <2>1, <2>3, <2>4
  <2> QED
    BY <1>8, <2>5 DEF f, g, h, p
<1> QED
  BY <1>6, <1>7, <1>8

\* ScanExact, said of any pipe c.
Exact(c) ==
  /\ c.scan <= Len(c.buffer)
  /\ c.dollar = FirstFrom(SubSeq(c.buffer, 1, c.scan), "$", 0)
  /\ c.sharp = FirstFrom(SubSeq(c.buffer, 1, c.scan), "#", 0)

LEMMA NoCommandExact == Exact(NoCommand)
<1>1. <<>> \in Seq(Byte) /\ Len(<<>>) = 0
  OBVIOUS
<1>2. SubSeq(<<>>, 1, 0) = <<>>
  BY SubSeqEmpty
<1>3. ASSUME NEW x  PROVE FirstFrom(<<>>, x, 0) = -1
  <2>1. {i \in 0 .. (Len(<<>>) - 1) : <<>>[i + 1] = x} = {}
    BY <1>1
  <2> QED
    BY <2>1 DEF FirstFrom
<1>4. /\ NoCommand.buffer = <<>> /\ NoCommand.scan = 0
      /\ NoCommand.dollar = -1 /\ NoCommand.sharp = -1
  BY DEF NoCommand
<1>5. NoCommand.scan <= Len(NoCommand.buffer)
  BY <1>1, <1>4
<1>6. FirstFrom(SubSeq(NoCommand.buffer, 1, NoCommand.scan), "$", 0) = -1
  BY <1>2, <1>3, <1>4
<1>7. FirstFrom(SubSeq(NoCommand.buffer, 1, NoCommand.scan), "#", 0) = -1
  BY <1>2, <1>3, <1>4
<1> QED
  BY <1>4, <1>5, <1>6, <1>7 DEF Exact

LEMMA ScanIsExact ==
  ASSUME NEW c \in CommandType, Exact(c)
  PROVE  Exact(Scan(c))
<1>1. /\ c.buffer \in Seq(Byte) /\ c.scan \in 0 .. Len(c.buffer) /\ Len(c.buffer) \in Nat
  BY DEF CommandType, Exact
<1>2. SubSeq(c.buffer, 1, Len(c.buffer)) = c.buffer
  BY <1>1, SubSeqFull
<1>3. /\ FirstFrom(c.buffer, "$", 0)
           = IF c.dollar = -1 THEN FirstFrom(c.buffer, "$", c.scan) ELSE c.dollar
      /\ FirstFrom(c.buffer, "#", 0)
           = IF c.sharp = -1 THEN FirstFrom(c.buffer, "#", c.scan) ELSE c.sharp
  BY <1>1, FirstFromResumes DEF Exact
<1>4. /\ Scan(c).buffer = c.buffer /\ Scan(c).scan = Len(c.buffer)
      /\ Scan(c).dollar = FirstFrom(c.buffer, "$", 0)
      /\ Scan(c).sharp = FirstFrom(c.buffer, "#", 0)
  BY <1>3 DEF Scan, CommandType
<1>5. SubSeq(Scan(c).buffer, 1, Scan(c).scan) = c.buffer
  BY <1>2, <1>4
<1>6. Scan(c).scan <= Len(Scan(c).buffer)
  BY <1>1, <1>4
<1> QED
  BY <1>4, <1>5, <1>6 DEF Exact

\* More bytes do not change what was scanned.
LEMMA MoreIsExact ==
  ASSUME NEW c \in CommandType, Exact(c), NEW r \in Seq(Byte)
  PROVE  Exact([c EXCEPT !.buffer = @ \o r])
<1> DEFINE d == [c EXCEPT !.buffer = @ \o r]
<1>1. /\ c.buffer \in Seq(Byte) /\ c.scan \in 0 .. Len(c.buffer) /\ Len(c.buffer) \in Nat
  BY DEF CommandType, Exact
<1>2. d.buffer = c.buffer \o r /\ d.scan = c.scan /\ d.dollar = c.dollar /\ d.sharp = c.sharp
  BY DEF CommandType
<1>3. Len(d.buffer) = Len(c.buffer) + Len(r) /\ Len(r) \in Nat
  BY <1>1, <1>2, ConcatProperties
<1>4. SubSeq(c.buffer \o r, 1, c.scan) = SubSeq(c.buffer, 1, c.scan)
  <2>1. CASE c.scan = 0
    BY <2>1, SubSeqEmpty
  <2>2. CASE c.scan # 0
    BY <1>1, <2>2, SubSeqOfConcat1
  <2> QED
    BY <2>1, <2>2
<1> HIDE DEF d
<1>5. SubSeq(d.buffer, 1, d.scan) = SubSeq(c.buffer, 1, c.scan)
  BY <1>2, <1>4
<1>6. d.scan <= Len(d.buffer)
  BY <1>1, <1>2, <1>3
<1>7. Exact(d)
  BY <1>2, <1>5, <1>6 DEF Exact
<1> QED
  BY <1>7 DEF d

\* What a poll of the server does to the command pipe.
LEMMA ServerCommands ==
  ASSUME ServerPoll \/ CmdTake
  PROVE  \/ command' = command \/ command' = NoCommand \/ command' = Scan(command)
         \/ TakeCommand
<1>1. CASE RunConsole
  BY <1>1 DEF RunConsole
<1>2. CASE RunIdle \/ CmdNone
  BY <1>2 DEF RunIdle, CmdNone, NothingFound
<1>3. CASE RunBreak \/ RunDrop
  BY <1>3 DEF RunBreak, RunDrop, CommandDone
<1>4. CASE CmdTake
  BY <1>4 DEF CmdTake
<1>5. CASE Rcmd
  BY <1>5 DEF Rcmd, RcmdReset, RcmdShow, RcmdVcom, RcmdHalt, RcmdUnsupported, Answer, Finish,
              CommandDone, packetVars
<1>6. CASE CmdqRcmd
  BY <1>5, <1>6 DEF CmdqRcmd, RcmdFlush
<1>7. CASE Dispatch
  BY <1>6, <1>7 DEF Dispatch, CmdqSupported, CmdqXfer, CmdQ, CmdH, CmdQuestionMark, CmdRead,
              CmdWrite, CmdBreakpoint, CmdResume, CmdKill, CmdFlash, CmdFlashDone,
              CmdvMustReplyEmpty, CmdOther, Answer, Finish, CommandDone
<1>8. CASE RcmdAfterFlush \/ RcmdShown \/ RcmdResetDone
  BY <1>5, <1>8 DEF RcmdAfterFlush, RcmdShown, RcmdResetDone, Answer, Finish, CommandDone
<1> QED
  BY <1>1, <1>2, <1>3, <1>4, <1>7, <1>8 DEF ServerPoll

LEMMA TakenIsExact ==
  ASSUME command \in CommandType, Exact(command), TakeCommand
  PROVE  Exact(command')
<1> DEFINE s == Scan(command)
<1>1. s \in CommandType /\ Exact(s)
  BY ScanTyped, ScanIsExact
<1>2. \E b, n : command' = [s EXCEPT !.busy = TRUE, !.first = b, !.cmdLen = n]
  BY Zenon DEF TakeCommand
<1> HIDE DEF s
<1>3. /\ command'.buffer = s.buffer /\ command'.scan = s.scan
      /\ command'.dollar = s.dollar /\ command'.sharp = s.sharp
  BY <1>1, <1>2 DEF CommandType
<1> QED
  BY <1>1, <1>3 DEF Exact

LEMMA NextExact == IInv /\ Exact(command) /\ [Next]_vars => Exact(command')
<1> SUFFICES ASSUME IInv, Exact(command), [Next]_vars  PROVE Exact(command')
  OBVIOUS
<1>0. command \in CommandType /\ recvBuf \in Seq(Byte)
  BY DEF IInv, TypeOK, UsbTypeOK, PacketTypeOK
<1>1. CASE UNCHANGED command
  BY <1>1
<1>2. CASE Recv
  <2>1. CASE RecvPush
    BY <1>0, <2>1, MoreIsExact DEF RecvPush, ProcessCommand
  <2>2. CASE RecvConfigured \/ RecvClear \/ RecvArm \/ RecvWait
    BY <1>1, <2>2 DEF RecvConfigured, RecvClear, RecvArm, RecvWait
  <2> QED
    BY <1>2, <2>1, <2>2 DEF Recv
<1>3. CASE ServerPoll \/ CmdTake
  BY <1>0, <1>3, ServerCommands, NoCommandExact, ScanIsExact, TakenIsExact
<1>4. CASE Send \/ Configure \/ UsbOut \/ UsbIn
  BY <1>1, <1>4 DEF Send, Configure, UsbOut, DataOut, UsbIn, DataIn, packetVars
<1>5. CASE UNCHANGED packetVars
  BY <1>1, <1>5 DEF packetVars
<1>6. CASE UNCHANGED vars
  BY <1>1, <1>6 DEF vars, packetVars
<1>7. CASE Next
  BY <1>2, <1>3, <1>4, <1>5, <1>7, Steps
<1> QED
  BY <1>6, <1>7

\* The scanner may stop at any byte and go on later: what it remembers is
\* always what a scan of all the bytes it has seen would find.
THEOREM ScanningIsExact == Spec => []ScanExact
<1>1. Init => Exact(command)
  BY NoCommandExact DEF Init, PacketInit
<1>2. Exact(command) => ScanExact
  BY DEF Exact, ScanExact
<1>3. Exact(command') <=> Exact(command)'
  BY DEF Exact
<1> QED
  BY <1>1, <1>2, <1>3, NextExact, Invariance, PTL DEF Spec

(***************************************************************************)
(* The target.                                                             *)
(***************************************************************************)
\* What a poll of the server may do to the session: leave it, let the hart of a
\* session that goes on run with the flag, stop it with the flag, open one, or
\* end one; the hart itself stops only by request.
SessionEffect ==
  \/ UNCHANGED sessionVars /\ (hart' = hart \/ hart' = "halting")
  \/ gdbConnected' = gdbConnected /\ targetRunning' = TRUE
  \/ /\ UNCHANGED <<gdbConnected, targetError>> /\ targetRunning' = FALSE
     /\ hart' # "running"
  \/ /\ gdbConnected' = TRUE /\ targetRunning' = FALSE
     /\ targetError' = "none" => hart' # "running"
  \/ /\ gdbConnected' = FALSE
     /\ targetError # "line" => hart' = "running"

LEMMA HaltCheckSession ==
  ASSUME ServerTypeOK, HaltCheck, UNCHANGED <<gdbConnected, targetError, hart>>
  PROVE  SessionEffect
BY DEF HaltCheck, SessionEffect, sessionVars

LEMMA HaltingSession ==
  ASSUME ServerTypeOK, TargetHalt
  PROVE  hart' # "running"
BY DEF TargetHalt

LEMMA DisconnectSession ==
  ASSUME ServerTypeOK, ~(gdbConnected /\ targetRunning), Disconnected,
         gdbConnected \/ ~targetRunning
  PROVE  SessionEffect
BY DEF Disconnected, TargetResume, SessionEffect

LEMMA RcmdSession ==
  ASSUME Rcmd \/ CmdqRcmd
  PROVE  SessionEffect
BY DEF CmdqRcmd, RcmdFlush, Rcmd, RcmdReset, RcmdShow, RcmdVcom, RcmdHalt, RcmdUnsupported,
       Answer, SessionEffect

LEMMA ServerSession ==
  ASSUME PacketTypeOK, ServerTypeOK, Ownership, ServerPoll \/ CmdTake
  PROVE  SessionEffect \/ (gdbConnected' = FALSE /\ ~gdbConnected)
<1>1. CASE RunConsole \/ CmdNone \/ CmdTake
  BY <1>1 DEF RunConsole, CmdNone, CmdTake, SessionEffect
<1>2. CASE RunIdle \/ RunDrop
  BY <1>2, HaltCheckSession DEF RunIdle, RunDrop, RunPoll
<1>3. CASE RunBreak
  BY <1>3, HaltingSession DEF RunBreak, RunPoll, SessionEffect
<1>4. CASE RcmdAfterFlush
  BY <1>4, RcmdSession DEF RcmdAfterFlush
<1>5. CASE RcmdShown \/ RcmdResetDone
  BY <1>5 DEF RcmdShown, RcmdResetDone, Answer, SessionEffect
<1>6. CASE Dispatch
  <2>1. ~(gdbConnected /\ targetRunning)
    BY <1>6 DEF Dispatch, Ownership
  <2>2. CASE CmdqSupported
    BY <2>2, HaltingSession DEF CmdqSupported, Connected, LineErrors, SessionEffect
  <2>3. CASE CmdResume
    BY <2>3 DEF CmdResume, SessionEffect
  <2>4. CASE Disconnected
    <3>1. CASE gdbConnected
      BY <2>1, <2>4, <3>1, DisconnectSession
    <3>2. CASE ~gdbConnected
      BY <2>4, <3>2 DEF Disconnected
    <3> QED
      BY <3>1, <3>2
  <2>5. CASE \E r : Answer(r)
    BY <2>5 DEF Answer, SessionEffect
  <2>6. CASE CmdqRcmd
    BY <2>6, RcmdSession
  <2>7. CASE CmdQ
    BY <2>7 DEF CmdQ, SessionEffect
  <2> QED
    BY <1>6, <2>2, <2>3, <2>4, <2>5, <2>6, <2>7
       DEF Dispatch, CmdqXfer, CmdH, CmdQuestionMark, CmdRead, CmdWrite, CmdBreakpoint,
           CmdKill, CmdFlash, CmdFlashDone, CmdvMustReplyEmpty, CmdOther
<1> QED
  BY <1>1, <1>2, <1>3, <1>4, <1>5, <1>6 DEF ServerPoll

LEMMA NextSession ==
  ASSUME IInv, [Next]_vars
  PROVE  \/ SessionEffect
         \/ gdbConnected' = FALSE /\ ~gdbConnected
         \/ UNCHANGED sessionVars /\ hart' \in {hart, "halted"}
<1>0. PacketTypeOK /\ ServerTypeOK /\ Ownership
  BY DEF IInv, TypeOK, UsbTypeOK
<1>1. CASE ServerPoll \/ CmdTake
  BY <1>0, <1>1, ServerSession
<1>2. CASE UNCHANGED serverVars
  BY <1>2 DEF serverVars
<1>3. CASE HartStops \/ TimerExpires
  BY <1>3 DEF HartStops, TimerExpires
<1>4. CASE UsbOut \/ UsbIn
  BY <1>2, <1>4 DEF UsbOut, UsbIn
<1>5. CASE UNCHANGED vars
  BY <1>2, <1>5 DEF vars
<1>6. CASE Next
  BY <1>1, <1>2, <1>3, <1>4, <1>6, Steps
<1> QED
  BY <1>5, <1>6

\* When GDB is told, or may believe, that the target of a working connection has
\* stopped, no step of the server has let the hart run behind its back.
THEOREM StoppedIsStopped == Spec => []StoppedMeansStopped
<1>1. Init => StoppedMeansStopped
  BY DEF Init, ServerInit, StoppedMeansStopped
<1>2. IInv /\ StoppedMeansStopped /\ [Next]_vars => StoppedMeansStopped'
  <2> SUFFICES ASSUME IInv, StoppedMeansStopped, [Next]_vars
               PROVE  StoppedMeansStopped'
    OBVIOUS
  <2>1. CASE SessionEffect
    BY <2>1 DEF SessionEffect, StoppedMeansStopped, sessionVars
  <2>2. CASE gdbConnected' = FALSE
    BY <2>2 DEF StoppedMeansStopped
  <2>3. CASE UNCHANGED sessionVars /\ hart' \in {hart, "halted"}
    BY <2>3 DEF StoppedMeansStopped, sessionVars
  <2> QED
    BY <2>1, <2>2, <2>3, NextSession
<1> QED
  BY <1>1, <1>2, Invariance, PTL DEF Spec

\* Every way to end a session lets the hart run again, unless the JTAG line is
\* down.
THEOREM DisconnectingResumes == Spec => DisconnectResumes
<1>1. ASSUME IInv, [Next]_vars, gdbConnected, ~gdbConnected', targetError # "line"
      PROVE  hart' = "running"
  <2>1. CASE SessionEffect
    BY <1>1, <2>1 DEF SessionEffect, sessionVars
  <2>2. CASE UNCHANGED sessionVars
    BY <1>1, <2>2 DEF sessionVars
  <2> QED
    BY <1>1, <2>1, <2>2, NextSession
<1>2. IInv /\ [Next]_vars =>
        [gdbConnected /\ ~gdbConnected' /\ targetError # "line" => hart' = "running"]_vars
  BY <1>1
<1> QED
  BY <1>2, Invariance, PTL DEF Spec, DisconnectResumes
=============================================================================

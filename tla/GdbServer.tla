----------------------------- MODULE GdbServer -----------------------------
(***************************************************************************)
(* gdb-server.c: the protothread that executes the commands of the host.   *)
(* serverPc names the statement at which the protothread waits:            *)
(*   poll      PT_YIELD at the head of the loop of gdb_server_poll         *)
(*   runSent   the console packet sent while the target runs is away       *)
(*   cmdWait   a command                                                   *)
(*   resWait   the response buffer, to answer the command it has taken     *)
(*   rcmdOut   the console packet of gdb_server_cmd_qRcmd is away          *)
(*   rcmdText  the text of a monitor command is away                       *)
(*   reset     the timers of rvl_target_reset                              *)
(* What happens between two of these is one step: the interrupt handlers   *)
(* share no variable with the server.  Calls into target.h run to their    *)
(* end without a wait, except rvl_target_reset; what they do to the hart   *)
(* is modelled, the data they move is not.                                 *)
(***************************************************************************)
EXTENDS GdbPacket

CONSTANTS
  ConnectErrors,   \* the errors a connection attempt may meet here
  VcomAtBoot       \* what the configuration page says when the probe starts

LineErrors == {"line", "compat", "debug_module"}  \* found before the halt
HaltErrors == {"compat", "protected", "other"}    \* found after it

ASSUME ServerAssumption ==
  /\ ConnectErrors \subseteq LineErrors \cup HaltErrors
  /\ VcomAtBoot \in BOOLEAN

VARIABLES
  serverPc,
  gdbConnected, targetRunning, targetError,   \* fields of gdb_server_i
  console,       \* the ring of ringbuffer.c holds text
  vcom,          \* config.vcom_enable
  hart,          \* running, halting (haltreq is set) or halted
  timer          \* the timers of rvl_target_reset have expired

sessionVars == <<gdbConnected, targetRunning, targetError>>
serverVars == <<serverPc, sessionVars, console, vcom, hart, timer>>

ServerInit ==
  /\ serverPc = "poll"
  /\ gdbConnected = FALSE /\ targetRunning = FALSE /\ targetError = "none"
  /\ console = FALSE
  /\ vcom = VcomAtBoot
  /\ hart = "running"
  /\ timer = FALSE

(***************************************************************************)
(* The target, as the server sees it.                                      *)
(***************************************************************************)
\* rvl_target_halt requests the halt and does not wait for it.
TargetHalt == hart' = IF hart = "running" THEN "halting" ELSE hart

\* rvl_target_resume and rvl_target_step.
TargetResume == hart' = "running"

\* The hart obeys a halt request or, under the debugger, meets a breakpoint or
\* the end of a step.
HartStops ==
  /\ hart = "halting" \/ (hart = "running" /\ gdbConnected)
  /\ hart' = "halted"
  /\ UNCHANGED <<serverPc, sessionVars, console, vcom, timer>>

TimerExpires ==
  /\ serverPc = "reset" /\ ~timer
  /\ timer' = TRUE
  /\ UNCHANGED <<serverPc, sessionVars, console, vcom, hart>>

(***************************************************************************)
(* Helpers of the command handlers.                                        *)
(***************************************************************************)
Current == command.first

\* gdb_server_poll, after a handler: the command is done.
Finish == CommandDone /\ serverPc' = "poll"

\* A handler that sends r, changes no state of the server and is done.
Answer(r) ==
  /\ ResponseDone(r)
  /\ Finish
  /\ UNCHANGED <<sessionVars, console, vcom, hart, timer>>

\* Mutation: the target is not halted.
ConnectedRunning ==
  /\ gdbConnected' = TRUE
  /\ targetRunning' = FALSE
  /\ targetError' \in {"none"} \cup ConnectErrors
  /\ console' = TRUE
  /\ UNCHANGED hart

\* gdb_server_connected
Connected ==
  /\ gdbConnected' = TRUE
  /\ targetRunning' = FALSE
  /\ \/ \E e \in ConnectErrors \cap LineErrors :
          targetError' = e /\ UNCHANGED hart
     \/ \E e \in {"none"} \cup (ConnectErrors \cap HaltErrors) :
          targetError' = e /\ TargetHalt
  /\ console' = TRUE

\* Mutation: the flag is set and the hart is not resumed.
DisconnectedHalted ==
  /\ targetRunning' = (targetRunning \/ targetError # "line")
  /\ gdbConnected' = FALSE
  /\ UNCHANGED <<hart, targetError>>

\* gdb_server_disconnected
Disconnected ==
  /\ IF ~targetRunning /\ targetError # "line"
       THEN TargetResume /\ targetRunning' = TRUE
       ELSE UNCHANGED <<hart, targetRunning>>
  /\ gdbConnected' = FALSE
  /\ UNCHANGED targetError

(***************************************************************************)
(* The command handlers, called with a command and the response buffer.    *)
(***************************************************************************)
CmdqSupported ==
  /\ Current = "qSupported"
  /\ response' = Respond([response EXCEPT !.noAck = FALSE], "data")
  /\ Connected
  /\ Finish
  /\ UNCHANGED <<vcom, timer>>

\* qXfer:features:read and qXfer:memory-map:read
CmdqXfer == Current = "qXfer" /\ Answer("data")

\* Mutation: the mode changes before the reply is framed.
CmdQEarly ==
  /\ Current = "QStartNoAckMode"
  /\ response' = Respond([response EXCEPT !.noAck = TRUE], "OK")
  /\ Finish
  /\ UNCHANGED <<sessionVars, console, vcom, hart, timer>>

CmdQ ==
  /\ Current = "QStartNoAckMode"
  /\ response' = [Respond(response, "OK") EXCEPT !.noAck = TRUE]
  /\ Finish
  /\ UNCHANGED <<sessionVars, console, vcom, hart, timer>>

\* H with an operation other than g, G, m, M and c is not supported.
CmdH == Current = "H" /\ \E r \in {"OK", "empty"} : Answer(r)

CmdQuestionMark == Current = "?" /\ Answer("S02")

\* g, p, m
CmdRead == Current \in {"g", "p", "m"} /\ Answer("data")

\* G, P, M, X
CmdWrite == Current \in {"G", "P", "M", "X"} /\ Answer("OK")

\* z, Z: a breakpoint table may be full.
CmdBreakpoint == Current \in {"z", "Z"} /\ \E r \in {"OK", "err"} : Answer(r)

\* Mutation: the command is answered like the others.
CmdResumeOK ==
  /\ Current \in {"c", "s"}
  /\ TargetResume
  /\ targetRunning' = TRUE
  /\ ResponseDone("OK")
  /\ Finish
  /\ UNCHANGED <<gdbConnected, targetError, console, vcom, timer>>

\* c, s: no reply until the hart stops.
CmdResume ==
  /\ Current \in {"c", "s"}
  /\ TargetResume
  /\ targetRunning' = TRUE
  /\ Finish
  /\ UNCHANGED <<response, gdbConnected, targetError, console, vcom, timer>>

CmdKill ==
  /\ Current = "k"
  /\ ResponseDone("OK")
  /\ Disconnected
  /\ Finish
  /\ UNCHANGED <<console, vcom, timer>>

CmdFlash ==
  /\ Current \in {"vFlashErase", "vFlashWrite"}
  /\ \/ Answer("OK")
     \/ /\ ResponseDone("err")
        /\ Disconnected
        /\ Finish
        /\ UNCHANGED <<console, vcom, timer>>

CmdFlashDone == Current = "vFlashDone" /\ Answer("OK")

\* The error text of the connection is the unexpected, non-empty, reply.
CmdvMustReplyEmpty ==
  /\ Current = "vMustReplyEmpty"
  /\ \/ (targetError = "none" /\ Answer("empty"))
     \/ /\ targetError # "none"
        /\ ResponseDone(IF console THEN "text" ELSE "empty")
        /\ console' = FALSE
        /\ Disconnected
        /\ Finish
        /\ UNCHANGED <<vcom, timer>>

Monitor == {"reset", "halt", "show", "vcom on", "vcom off", "monitor"}

Known == Monitor \cup
  {"qSupported", "qXfer", "QStartNoAckMode", "H", "?", "g", "p", "m", "G", "P", "M",
   "X", "z", "Z", "c", "s", "k", "vFlashErase", "vFlashWrite", "vFlashDone",
   "vMustReplyEmpty"}

\* Also a Ctrl-C that comes when the target does not run.
CmdOther == Current \notin Known /\ Answer("empty")

(***************************************************************************)
(* gdb_server_cmd_qRcmd; the monitor commands are named without qRcmd.     *)
(***************************************************************************)
\* Text in the ring goes out first, as a console packet.
RcmdFlush ==
  /\ Current \in Monitor /\ console
  /\ ResponseDone("O")
  /\ console' = FALSE
  /\ serverPc' = "rcmdOut"
  /\ UNCHANGED <<command, sessionVars, vcom, hart, timer>>

RcmdReset ==
  /\ Current = "reset"
  /\ hart' = "halting"
  /\ timer' = FALSE
  /\ serverPc' = "reset"
  /\ UNCHANGED <<packetVars, sessionVars, console, vcom>>

\* show error, and vcom without an argument: the text, then OK.
RcmdShow ==
  /\ Current = "show"
  /\ ResponseDone("O")
  /\ serverPc' = "rcmdText"
  /\ UNCHANGED <<command, sessionVars, console, vcom, hart, timer>>

\* The setting changes even when rvl_config_write then fails.
RcmdVcom ==
  /\ Current \in {"vcom on", "vcom off"}
  /\ vcom' = (Current = "vcom on")
  /\ \E r \in {"OK", "err"} : ResponseDone(r)
  /\ Finish
  /\ UNCHANGED <<sessionVars, console, hart, timer>>

RcmdHalt == Current = "halt" /\ Answer("OK")

RcmdUnsupported == Current = "monitor" /\ Answer("text")

Rcmd == RcmdReset \/ RcmdShow \/ RcmdVcom \/ RcmdHalt \/ RcmdUnsupported

CmdqRcmd == RcmdFlush \/ (Current \in Monitor /\ ~console /\ Rcmd)

RcmdAfterFlush == serverPc = "rcmdOut" /\ response.busy /\ Rcmd

RcmdShown == serverPc = "rcmdText" /\ response.busy /\ Answer("OK")

RcmdResetDone == serverPc = "reset" /\ timer /\ Answer("OK")

(***************************************************************************)
(* gdb_server_poll                                                         *)
(***************************************************************************)
\* Mutation: the stop is noted and not reported.
HaltCheckSilent ==
  /\ targetRunning' = (hart # "halted")
  /\ UNCHANGED response

\* rvl_target_halt_check and the stop reply.
HaltCheck ==
  IF hart = "halted"
    THEN ResponseDone("T05") /\ targetRunning' = FALSE
    ELSE UNCHANGED <<response, targetRunning>>

\* Connected, and the target runs.
RunConsole ==
  /\ serverPc = "poll" /\ gdbConnected /\ targetRunning /\ console
  /\ ResponseDone("O")
  /\ console' = FALSE
  /\ serverPc' = "runSent"
  /\ UNCHANGED <<command, sessionVars, vcom, hart, timer>>

RunPoll ==
  /\ \/ serverPc = "poll" /\ gdbConnected /\ targetRunning /\ ~console
     \/ serverPc = "runSent" /\ response.busy
  /\ serverPc' = "poll"
  /\ UNCHANGED <<gdbConnected, targetError, console, vcom, timer>>

RunIdle ==
  /\ RunPoll
  /\ ~CommandFound
  /\ NothingFound
  /\ HaltCheck
  /\ UNCHANGED hart

\* One byte long, and that byte is a Ctrl-C.
BreakFound == CommandFound /\ Content(Scan(command)) = <<"^C">>

\* Mutation: the server goes on to look for the stop.
RunBreakChecks ==
  /\ RunPoll
  /\ BreakFound
  /\ TargetHalt
  /\ ResponseDone("T02")
  /\ CommandDone
  /\ UNCHANGED targetRunning

RunBreak ==
  /\ RunPoll
  /\ BreakFound
  /\ TargetHalt
  /\ targetRunning' = FALSE
  /\ ResponseDone("T02")
  /\ CommandDone

\* Any other command is dropped without an answer.
RunDrop ==
  /\ RunPoll
  /\ CommandFound /\ ~BreakFound
  /\ CommandDone
  /\ HaltCheck
  /\ UNCHANGED hart

\* Otherwise the server waits for a command, then for the response buffer.
CmdPoll ==
  \/ serverPc = "poll" /\ ~(gdbConnected /\ targetRunning)
  \/ serverPc = "cmdWait"

CmdNone ==
  /\ CmdPoll
  /\ ~CommandFound
  /\ NothingFound
  /\ serverPc' = "cmdWait"
  /\ UNCHANGED <<response, sessionVars, console, vcom, hart, timer>>

CmdTake ==
  /\ CmdPoll
  /\ CommandFound
  /\ TakeCommand
  /\ serverPc' = "resWait"
  /\ UNCHANGED <<response, sessionVars, console, vcom, hart, timer>>

Dispatch ==
  /\ serverPc = "resWait" /\ response.busy
  /\ \/ CmdqSupported \/ CmdqXfer \/ CmdqRcmd \/ CmdQ \/ CmdH
     \/ CmdQuestionMark \/ CmdRead \/ CmdWrite \/ CmdBreakpoint
     \/ CmdResume \/ CmdKill \/ CmdFlash \/ CmdFlashDone
     \/ CmdvMustReplyEmpty \/ CmdOther

\* A poll that ends at the next wait.
ServerPoll ==
  \/ RunConsole \/ RunIdle \/ RunBreak \/ RunDrop
  \/ CmdNone \/ Dispatch
  \/ RcmdAfterFlush \/ RcmdShown \/ RcmdResetDone

ServerBlocked ==
  \/ serverPc \in {"runSent", "resWait", "rcmdOut", "rcmdText"} /\ ~response.busy
  \/ serverPc = "reset" /\ ~timer

ServerTypeOK ==
  /\ serverPc \in {"poll", "runSent", "cmdWait", "resWait", "rcmdOut", "rcmdText", "reset"}
  /\ gdbConnected \in BOOLEAN /\ targetRunning \in BOOLEAN
  /\ targetError \in {"none"} \cup LineErrors \cup HaltErrors
  /\ console \in BOOLEAN /\ vcom \in BOOLEAN /\ timer \in BOOLEAN
  /\ hart \in {"running", "halting", "halted"}
=============================================================================

----------------------------- MODULE MCGdbLink -----------------------------
(***************************************************************************)
(* Constants of GdbLink for TLC.                                           *)
(***************************************************************************)
EXTENDS GdbLink

\* With MaxPacket = 5 an empty reply fills its last USB packet when it has a
\* "+" (0 + 5 bytes) and an OK does when it has none (1 + 4).
MCReplyLen == [r \in Replies |-> CASE r = "OK" -> 1 [] r = "empty" -> 0 [] OTHER -> 2]

MCNoPad == [k \in Commands |-> 0]

\* One command of every handler that MCLiveCommands leaves out.
MCHandlerCommands ==
  {"qSupported", "vMustReplyEmpty", "QStartNoAckMode", "qXfer", "H", "?", "G",
   "m", "z", "halt", "monitor", "vcom on", "vFlashErase", "vFlashDone", "D", "k"}

MCBreakCommands == {"qSupported", "vMustReplyEmpty", "QStartNoAckMode", "X", "c"}

\* A command that runs and the monitor command that waits, over a session that
\* may be another GDB's.
MCRestartCommands == {"qSupported", "vMustReplyEmpty", "QStartNoAckMode", "reset", "c"}

\* The commands that wait for something, and two that do not.
MCLiveCommands == {"qSupported", "vMustReplyEmpty", "X", "c", "show", "reset"}

\* An X command fills a packet of the largest size there is here, 8 bytes.  A
\* buffer of 11 has room for as many stale bytes beside it as the code has, 3.
MCPadX == [k \in Commands |-> IF k = "X" THEN 3 ELSE 0]
=============================================================================

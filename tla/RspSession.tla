----------------------------- MODULE RspSession -----------------------------
(***************************************************************************)
(* What the probe promises to GDB: it is asked one command at a time and   *)
(* sends it exactly one final reply, of a kind the remote protocol allows  *)
(* for that command; console output comes only while a command is being    *)
(* executed, and nothing at all comes between a reply and the next         *)
(* command.                                                                *)
(***************************************************************************)
CONSTANTS Commands, None

VARIABLES
  asked,      \* the command that waits for its final reply, or None
  got         \* the last packet that came back for it, or None

RunCommands == {"c", "s"}
ConsoleCommands == RunCommands \cup {"reset", "halt", "show", "vcom on", "vcom off", "monitor"}

\* The final replies the protocol allows for a command.
Final(k) ==
  CASE k \in {"qSupported", "qXfer"}         -> {"data"}
    [] k \in {"g", "p", "m"}                 -> {"data"}
    [] k = "?"                               -> {"S02"}
    [] k \in RunCommands                     -> {"T05"}
    [] k \in {"QStartNoAckMode", "G", "P", "M", "X", "k", "vFlashDone"} -> {"OK"}
    [] k \in {"reset", "halt", "show"}       -> {"OK"}
    [] k \in {"vcom on", "vcom off"}         -> {"OK", "err"}
    [] k = "monitor"                         -> {"text"}
    [] k \in {"z", "Z", "vFlashErase", "vFlashWrite"} -> {"OK", "err"}
    [] k = "H"                               -> {"OK", "empty"}
    [] k = "vMustReplyEmpty"                 -> {"empty", "text"}
    [] OTHER                                 -> {"empty"}

Init == asked = None /\ got = None

Ask(k) ==
  /\ asked = None
  /\ asked' = k
  /\ got' = None

Output ==
  /\ asked \in ConsoleCommands
  /\ got' = "O"
  /\ UNCHANGED asked

Reply(r) ==
  /\ asked # None
  /\ r \in Final(asked)
  /\ got' = r
  /\ asked' = None

Next ==
  \/ \E k \in Commands : Ask(k)
  \/ Output
  \/ asked # None /\ \E r \in Final(asked) : Reply(r)

Spec == Init /\ [][Next]_<<asked, got>>
=============================================================================

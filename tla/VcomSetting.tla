---------------------------- MODULE VcomSetting ----------------------------
(***************************************************************************)
(* The one setting of RV-LINK, whether the host sees a second serial port: *)
(* gdb_server_init reads it from the configuration page and repairs the    *)
(* page when it is not valid, the monitor commands "rvl vcom on" and "off" *)
(* change it, the USB core asks for it, and the power may fail any time.   *)
(***************************************************************************)
EXTENDS NvmConfig

CONSTANT AssertEnabled  \* built with RVL_ASSERT_EN

ASSUME AssertAssumption == AssertEnabled \in BOOLEAN

Off == {}               \* vcom_enable = 0
On == {0}               \* vcom_enable = 1

VARIABLES
  mode,         \* off, boot (the repair of gdb_server_init), serve, monitor
                \* (a command is under way) or halted (an assertion failed)
  ram,          \* self.config.vcom_enable
  described,    \* the descriptors show the second port
  attached,     \* the host has configured the device
  endpoints,    \* and the endpoints of the second port are set up
  prev, wanted, \* what the last write was to replace, and by what
  promise,      \* what the last OK has said is stored: one setting, or none
  faulted,      \* the flash has failed since the page was last known good
  sure,         \* it had not when promise was made
  changed       \* a command has changed the setting since power came on

serverVars == <<mode, ram, described, attached, endpoints>>
ghostVars == <<prev, wanted, promise, faulted, sure, changed>>
vars == <<nvmVars, serverVars, ghostVars>>

Init ==
  /\ NvmInit
  /\ mode = "off" /\ ram = Off
  /\ described = FALSE /\ attached = FALSE /\ endpoints = FALSE
  /\ prev = Off /\ wanted = Off /\ promise = {}
  /\ faulted = FALSE /\ sure = FALSE /\ changed = FALSE

\* The setting that the server has after power comes on.
BootReads == IF Valid THEN main ELSE Off

\* Mutation: USB is initialised before the server.
ServeEarly(setting) ==
  /\ mode' = "serve"
  /\ described' = FALSE

\* rvl_usb_serial1_init follows gdb_server_init and picks the descriptors.
Serve(setting) ==
  /\ mode' = "serve"
  /\ described' = (setting # Off)

\* gdb_server_init: the page is valid, or it is written with the default.
BootValid ==
  /\ mode = "off" /\ Valid
  /\ ram' = main
  /\ Serve(main)
  /\ faulted' = FALSE
  /\ UNCHANGED <<nvmVars, attached, endpoints, prev, wanted, promise, sure,
                 changed>>

BootRepair ==
  /\ mode = "off" /\ ~Valid
  /\ ram' = Off
  /\ Compare(ram')
  /\ mode' = "boot"
  /\ prev' = BootReads /\ wanted' = Off
  /\ UNCHANGED <<described, attached, endpoints, promise, faulted, sure,
                 changed>>

BootWritten ==
  /\ mode = "boot" /\ pc = "idle"
  /\ IF result = "failed" /\ AssertEnabled
       THEN mode' = "halted" /\ UNCHANGED described
       ELSE Serve(ram)
  /\ faulted' = (result = "failed")
  /\ UNCHANGED <<nvmVars, ram, attached, endpoints, prev, wanted, promise, sure,
                 changed>>

\* gdb_server_cmd_qRcmd: "rvl vcom on" and "rvl vcom off".
Monitor(setting) ==
  /\ mode = "serve"
  /\ ram' = setting
  /\ Compare(setting)
  /\ mode' = "monitor"
  /\ prev' = BootReads /\ wanted' = setting /\ promise' = {} /\ sure' = FALSE
  /\ changed' = TRUE
  /\ UNCHANGED <<described, attached, endpoints, faulted>>

MonitorReply ==
  /\ mode = "monitor" /\ pc = "idle"
  /\ mode' = "serve"
  /\ promise' = IF result = "done" THEN {ram} ELSE {}
  /\ sure' = (result = "done" /\ ~faulted)
  /\ faulted' = (faulted \/ result = "failed")
  /\ UNCHANGED <<nvmVars, ram, described, attached, endpoints, prev, wanted, changed>>

\* The flash driver, while the server waits for it.
Write ==
  /\ Erase \/ ProgramMain(ram) \/ ProgramInverse(ram)
  /\ UNCHANGED <<serverVars, ghostVars>>

\* cdc_acm_core_init: the host configures the device, at first or again.
HostConfigures ==
  /\ mode \in {"serve", "monitor"}
  /\ attached' = TRUE
  /\ endpoints' = (ram # Off)
  /\ UNCHANGED <<nvmVars, mode, ram, described, ghostVars>>

PowerFails ==
  /\ mode # "off"
  /\ CutShort(ram)
  /\ mode' = "off" /\ ram' = Off
  /\ described' = FALSE /\ attached' = FALSE /\ endpoints' = FALSE
  /\ changed' = FALSE
  /\ UNCHANGED <<prev, wanted, promise, faulted, sure>>

Next ==
  \/ BootValid \/ BootRepair \/ BootWritten
  \/ \E setting \in {On, Off} : Monitor(setting)
  \/ MonitorReply \/ Write
  \/ HostConfigures \/ PowerFails

Spec == Init /\ [][Next]_vars

-----------------------------------------------------------------------------
\* Every variable has its type; the setting in RAM is 0 or 1, whatever a page
\* that was cut short may hold.
TypeOK ==
  /\ NvmTypeOK
  /\ mode \in {"off", "boot", "serve", "monitor", "halted"}
  /\ ram \in {On, Off} /\ prev \in {On, Off} /\ wanted \in {On, Off}
  /\ promise \in {{}, {On}, {Off}}
  /\ {described, attached, endpoints, faulted, sure, changed} \subseteq BOOLEAN

\* Wherever the power fails during a write, the next start has the setting
\* from before the write or the one it was to store, never a third word.
SettingAtomic == BootReads \in {prev, wanted}

\* A setting acknowledged with OK is the one the next start has, when the
\* flash had not failed since the page was last found or made good.
OkIsKept == sure => promise \subseteq {BootReads}

\* The endpoints that are set up are those the descriptors show, unless the
\* setting was changed after they were chosen: the server is initialised first.
EndpointsDescribed == attached /\ ~changed => endpoints = described

\* The flash is open only while rvl_config_write is under way: every return
\* from it, also on an error, has locked it.
LockedAtRest == pc = "idle" => locked

\* "this setting is persistent across power cycles" (README.md:42): an OK is
\* the setting after the next start, whatever happened before.
Persistent == promise \subseteq {BootReads}
=============================================================================

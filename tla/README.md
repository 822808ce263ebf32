# RV-LINK in TLA+

RV-LINK is the firmware of a JTAG debug probe. GDB talks to it over a USB
serial port, and it drives the debug module of a GD32VF103 target. These
modules model the firmware; TLC checks them on small instances, and TLAPS
proves what matters most for every value of the constants. Paths below are
relative to `src/rv-link/`.

## The system

The firmware is a set of protothreads on one core. `main.c` polls them in turn
for ever; a protothread runs until its next `PT_WAIT_UNTIL`, and only the
interrupt handlers of USB, the UART and CAN may come between two of its
statements. So there are two kinds of interleaving: handlers against every
statement, and protothreads against each other at their waits.

| Component | Source | State | Operations | What makes it correct |
| --- | --- | --- | --- | --- |
| Main loop | `main.c` | none | polls LED, USB port 1 (receive, then send), USB port 2, GDB server | each thread gets its turn |
| Packet pipes | `gdb-server/gdb-packet.c` | command buffer with scan indices and `busy`; response buffer with `busy` and the acknowledgement mode | append bytes, find a command, drop it; frame a response, hand it out, take it back | a command is found whole; the response buffer has one owner |
| GDB server | `gdb-server/gdb-server.c` | connected, running, target error, configuration, console ring | one handler for each command; the poll of a running target | one final reply of the right kind for each command; its idea of the target is right |
| USB port 1 | `usb-serial1.c` | two protothreads, the flags of its endpoints | receive, send | no wake-up is lost, a buffer in flight is not touched |
| CDC ACM core | `details/cdc_acm_core.c` | flags and lengths of the endpoints, line coding | data IN and OUT handlers, control requests | a transfer ends once, with an empty packet when one is due |
| RISC-V target | `target/arch/riscv/target.c` | image of DCSR, the two breakpoint tables, `err_msg` | connect, disconnect, halt, resume, step, reset, registers, memory, breakpoints, halt check | what it reports of a stop is what stopped the hart; tables, triggers and memory agree |
| DMI | `dmi.c` | operation, result, retries left | read, write, vector read and write, NOP, dmireset | DONE means that the accesses were made, once and in order |
| DTM | `dtm.c` | selected JTAG register | IDCODE, dtmcs, DMI scans, idle ticks | the instruction it remembers is the one selected |
| TAP | `tap.c` | none between calls | reset, IR and DR scans, run | it never loses track of the TAP's state |
| GD32VF103 | `target/family/gd32vf103/target.c` | memory map, page being erased, timer | checks on connection, flash erase, write, done | an OK is true, no other page is touched, a hanging controller is given up |
| Configuration page | `nvm-config.c` | one flash page: the words and their complements | read, write | a torn write is not taken for a configuration |
| UART bridge | `serial.c`, `usb-serial2.c` | receive ring, two protothreads | UART interrupt, getchar, putchar, both directions of USB port 2 | bytes arrive in order, once |
| Console ring | `gdb-server/details/ringbuffer.c` | ring of 256 | put, puts, get | text in order |
| USB port 3 | `usb-serial3.c` | one buffer, two protothreads | echo | not called by `main.c` |
| LEDs, clock, timers | `led.c`, `pt-clock.c`, `lib/pt/timer.c` | flags, start and interval | poll, set, expired | comparison survives the wrap of the clock |
| CAN | `can.c` | counters | interrupt handlers | stands alone |

How they interact: `usb-serial1.c` moves the bytes of the OUT endpoint into the
command pipe (`gdb_packet_process_command`) and the response pipe to the IN
endpoint (`gdb_packet_get_response`, `gdb_packet_release_response`); the server
takes commands out of the one and puts replies into the other, and calls
`target.h`, which runs to its end without a wait (`RVL_TARGET_CONFIG_DTM_YIELD_EN`
is defined nowhere) except for the timers of `rvl_target_reset`. The USB
interrupt tells the protothreads that a transfer has ended by flags, and the
configuration page decides at boot which descriptors the host sees. Below
`target.h` the calls go down in layers: `target.c` accesses registers of the
debug module through `dmi.c`, that scans the `dmi` register through `dtm.c`, and
that clocks bits through `tap.c`.

What is hard: a response buffer that three parties own in turn, with the server
writing to it without asking while the target runs; a command pipe that is
emptied while pieces of a packet are still on the cable; a Ctrl-C that is not a
packet; a session that fails half-way; GDB being restarted over an old session;
the two ends changing the acknowledgement mode. On the side of the target: a hart
that stops by itself between any two accesses; a debug module that answers late,
with an error that sticks; a target that loses its power and with it the state
the probe remembers; breakpoints that live in a table, in triggers and in memory
at once; a flash controller that is still busy with what was given up.

## The modules

* `GdbPacket` - the two pipes. A byte is a delimiter, a checksum digit, filler,
  or the name of a command; a reply is its kind and its length. The indices are
  those of the C code.
* `UsbSerial1` extends it with the two protothreads of USB port 1, one action
  for each statement that an interrupt handler can come before or after
  (`RecvClear` / `RecvArm`, `SendClear` / `SendSubmit`), and the two handlers
  (`DataOut`, `DataIn`, with the empty packet that ends a full transfer).
* `GdbServer` extends `GdbPacket` with the server: one action for each command
  handler, each wait inside one (`RcmdFlush`, `RcmdShow`, `RcmdReset`) and each
  way the poll of a running target can go. What lies between two waits is one
  step, as the handlers of interrupts share nothing with the server.
* `RspSession` - the abstract specification: GDB asks one command at a time and
  gets one final reply of a kind the protocol allows for that command, with
  console output only while a command that may print is under way.
* `GdbLink` composes all of it with the main loop, the bus and GDB. It states
  the properties, and that it implements `RspSession` under the mapping
  `asked <- hostAsked, got <- hostGot`.
* `GdbLinkProofs`, `SessionProofs` - the theorems.
* `MCGdbLink` - constants for TLC.

The UART bridge:

* `UartChannel` - the abstract specification of one direction: a bounded queue
  that keeps the order and drops a byte only when it is full.
* `SerialRing` - `serial.c`: the interrupt handler that fills the receive ring
  (`RecvBufPut`) and `rvl_serial_getchar` statement by statement (`GetEmpty`,
  `GetRead`, `GetReturn`), as the handler may come between any two; the transmit
  register.
* `UsbSerial2` extends it with the two protothreads of USB port 2 and the
  handlers of its endpoints.
* `UartBridge` adds the main loop, the host and the target, both external, and
  states that it implements `UartChannel` under the mapping `offered <- printed,
  queue <- Contents, out <- hostGot \o Pending`.
* `UartBridgeProofs`, `MCUartBridge` - theorems, and constants for TLC.

The configuration:

* `NvmConfig` - `nvm-config.c`: the page as two words, a word as the set of its
  one bits, so that erasing sets bits and programming clears them. Every
  operation of the flash controller is a step; one that fails or is cut short
  leaves any word between the old and the new.
* `VcomSetting` extends it with all that uses the page: the start of the server
  (`BootValid`, `BootRepair`, `BootWritten`), the monitor commands (`Monitor`,
  `MonitorReply`), the choice of descriptors (`Serve`), the configuration by the
  host, and a power failure at any moment.
* `VcomSettingProofs`, `MCVcomSetting` - theorems, and constants for TLC.

The JTAG stack, from the wire upwards:

* `JtagTarget` - external: the TAP controller with its sixteen states, the debug
  transport module behind it (IDCODE, dtmcs, dmi) and the registers of the
  debug module. An access that a scan starts is made later, fails, or never ends.
* `Tap`, `Dtm`, `Dmi` - `tap.c` one tick of TCK at a time, as the target goes on
  by itself between two ticks; `dtm.c` with the instruction it remembers; `dmi.c`
  with its retries, its dmireset, and both vector accesses. `Connect` in `Dmi` is
  the part of `riscv_target_init` that talks to the DTM.
* `RegisterPort` - the abstract specification of `dmi.c`: a call asks for
  accesses, DONE means that all were made, once each and in order, and a call that
  fails may leave one behind that is made later or never. From a power failure of the
  target until the next connection (`known`) still no other access is made, but nothing is
  promised of the answers. `PortSpec` is the refinement, under the mapping
  `todo <-` the requests of the call from `made + 1` on, `loose <-` the request that the
  debug module still has from an earlier call, `known <- trusted`.
* `DmiProofs`, `DmiPortProofs`, `MCDmi` - theorems, and constants for TLC.

The RISC-V target:

* `Hart` - external: the hart and the registers of its debug module that stop it
  (haltreq, DCSR, triggers, the instructions in memory), and why it stopped.
* `RiscvTarget` extends it with `target.c` as `gdb-server.c` calls it. A function
  is the list of the accesses it makes (`Halt`, `Resume`, `InsertHard`, ...), a step makes
  the next one (`Next1`), and the hart may stop before any. It takes from
  `RegisterPort` that an access to the debug module succeeds; an access to a register of the hart is
  refused while that runs, and one to memory whenever its address is a bad one, and either sets `err_msg`.
  A breakpoint for which there is no slot is refused (`Full`).
* `RiscvTargetProofs`, `MCRiscvTarget` - theorems, and constants for TLC.

The flash of the target:

* `Timer` - `timer_expired` over a clock that wraps.
* `Flash` extends it with `rvl_target_flash_erase`, `_write` and `_done` (`Unlock`,
  `SelectPage`, `StartPage`, `ReadStatus`, `CheckTimer`, `CheckPage`, `Clear`; `SetProgram`,
  `WriteWord`, `CheckWrite`; `Lock`), the flash controller, a GDB that loads programs, and a
  target that is reset between two loads. An access may come to nothing in two ways (`Fails`): the debug module refuses it,
  as the command of the word before still runs, and the rest of the function's accesses with it, which `err_msg`
  notes (`RefusedAndNoted`); or the DMI drops one of its scans, which nothing notes (`Dropped`), as nobody looks at the
  status of a scan. A status that was not read is whatever was in `data0`.
* `FlashProofs`, `MCFlash` - theorems, and constants for TLC.

The parts are composed where they share state, and checked apart where they do
not. The main loop polls USB port 1, USB port 2 and the server one after the
other and none of them waits for another; a monitor command that writes the page,
and a call of `target.h`, block the loop until they have ended. What passes
between the server and the target is a return value: `GdbServer` takes any that
`target.c` can give, `RiscvTarget` makes the calls in the order in which the server
can. Likewise `RiscvTarget` rests on what `RegisterPort` says of `dmi.c`, for a
target that keeps its power and answers; `Dmi` shows what happens when it does not.

The host is external: GDB opens a session with `qSupported` and
`vMustReplyEmpty`, sends a command when it has the reply to the last, acknowledges
packets unless told not to, sends Ctrl-C during a continue, may be killed and
started again, and the operating system may put what it has written into USB
packets in any way (`Cuts`). USB neither loses nor reorders.

## What is checked

| Run | Question | Instance |
| --- | --- | --- |
| `session` | acknowledged session, commands cut into packets, failing connections: integrity of commands, exactness of the scan, the promise of `RspSession`; with fairness, that every command but continue and step is answered, unless it does not fit in the pipe, and a stop is reported | 6 commands, packets of 5, buffer of 11 |
| `handlers` | one command of each remaining handler, no-acknowledgement mode, failing connections, flash errors, kill: acknowledgement modes agree, a session that ends lets the hart run, `RspSession` | 16 commands |
| `break` | Ctrl-C at any moment of a continue: one owner of the response buffer, and a Ctrl-C that is alone stops the target | 5 commands, 1 Ctrl-C |
| `restart` | GDB restarted once, at any moment, also in a `monitor reset`: the server is right about the target, no response is lost | 5 commands |
| `lost_break` | violated: a Ctrl-C beside stale bytes is not seen | as `break` |
| `uart` | the bridge with handlers between any two statements: order, loss only when full, no lost wake-up | ring of 4, batches of 2, 5 bytes from the target, 3 to it |
| `vcom` | the configuration page with a failure at any moment: a start reads the old setting or the new, OK is kept, descriptors and endpoints agree | words of 3 bits |
| `vcom_retry` | violated: a command repeated after a failed write is answered OK, and the setting is lost | words of 3 bits |
| `jtag` | the JTAG stack bit by bit against late, failing and unpowered targets: it implements `RegisterPort`, tracks the TAP, and returns | registers and addresses of 1 bit, one more device in the chain, 3 retries with pauses of 11 ticks, 1 loss of power |
| `target` | sessions against a hart that stops when it likes: what is reported of a stop is true, tables, triggers and memory agree, refusals are explained | 2 triggers, 1 software breakpoint, 4 breakpoints to ask for |
| `ebreak` | violated: a session that has ended leaves `ebreakm` set in DCSR | as `target` |
| `flash` | loads into a flash that hangs, answers late or refuses a page, over accesses that come to nothing: an OK is true, no other page is touched, nothing is given up early, every command ends | 3 pages of 1 word, the last one protected; clock of 4, timeout of 1; 1 access of a load dropped |

Bounds and why they are enough. The data of a packet does not matter, only
where its delimiters fall in USB packets: with packets of 5, an 8-byte command
and a cut at 3, a command comes whole, in two pieces with the cut before or
inside its checksum, and together with an acknowledgement. The reply lengths
are chosen so that in either mode one reply fills its last USB packet and
another does not. One Ctrl-C and one restart reach every state the protothreads
can be in, as each may happen at any step. The buffer of `session` is 11
bytes, so that it has beside the largest packet the room that the code has, 3 bytes
(1032 for the 1029 that `PacketSize=405` allows). That is not enough: two checksum digits and the
acknowledgements of an `O` packet and of the reply behind it are 4, and a largest packet then stays outside for ever.
`CommandAnswered` lets a command go unanswered for that reason alone: `Wedged` says that the receive half holds
a packet that does not fit, that nothing in the pipe will be taken out of it, and that more stale bytes lie before the
command than there is room for. In the other runs every packet is a short one, for which the buffer of
the code is ample, and so are theirs.

For the UART bridge, a ring of three bytes wraps while five are printed, and
fills when the host does not read; with batches of two a batch is full, partly
full or empty, which are the three ways the send thread goes on. For the
configuration, the setting uses one bit of a word and the two others tell
apart what operations cut short may leave: a bit that was to stay and one that
was to change. No variable of the configuration counts, so nothing else is bounded.

For the JTAG stack, one bit of data and one of address tell two values and two
registers apart; the device beside the core of the GD32VF103 (`IrPost` 5, `DrPost` 1)
is there as it is on the board; `DtmIdle` is 2, so that a scan that comes one tick early
is refused; three retries have a first, a middle and a last one (the code has 6), and the 11
ticks of a pause are as many as it takes to fill the instruction registers of the whole chain, as the
32 of the code are more than enough to; one loss of power may fall between any two scans. For the target, two
triggers and three breakpoints for them fill the table and leave one short; one
software breakpoint fills its table (that a second is refused is in the theorems only: the run
would be five times as long). Two addresses of instructions tell a breakpoint from its neighbour. `MaxAfter` cuts a
session after one command from an error or a reset. Each address
has one kind of watchpoint: two kinds at one address are what `StopIsExplained` does
not survive (see below). For the flash, three pages give an erasure a first page, a
middle one and a protected one, and with one word to a page a write of two words goes over two
pages, so that one of its words may be programmed and the other lost; a clock of four wraps while a timer of one
runs, and `MaxLag` 1 is one tick between two looks at it. `MaxDrops` 1 is one access of a load that the DMI
drops, any of them; accesses that the debug module refuses are not counted. The theorems are for any size of these.

`SettingAtomic` speaks of the last write that was begun. `OkIsKept` is limited
to a flash that has not failed since the page was last known good, as the code
answers OK without looking at the complement when the first copy is already
equal: `vcom_retry` shows what that does. `EndpointsDescribed` holds until a
command changes the setting: the repository's `README.md` tells the user to power-cycle then.

Fairness: the main loop never ends (`WF` of `MainLoop`), the host controller
polls both endpoints (`WF` of `UsbOut`, `UsbIn`), and timers run out
(`WF` of `TimerExpires`). Nothing obliges GDB to ask, the user to press Ctrl-C
or the hart to stop, so `StopReported` starts from a hart that has stopped.
The bridge is fair in the same way: `WF` of its `MainLoop`, of the transmitter
that shifts a byte out (`TargetReceives`), and of the host that polls both
endpoints of an open port (`HostOut`, `HostIn`). Nothing obliges the host to
configure the device or to write, or the target to print. The configuration
has no liveness property: power may fail for ever.
In `Dmi` only the code is fair (`WF` of `Host`): a call returns even if the bus
never answers. In `Flash` the code goes on and time passes (`WF` of `Probe`, `Tick`),
and no more: an erasure may hang for ever, and so may the command of a word, on which the
write does not wait. `RiscvTarget` has no liveness property: a hart need not
stop.

The violated runs are disagreements of the code with its own comments;
`findings` in `PROJECT.json` quotes them. `lost_break` does not hinge on the host
putting bytes together: the probe's own buffer collects them.

## What is proved

`GdbLinkProofs` proves, for every choice of the constants that meets the
assumptions beside them:

* `TypeCorrect`, `OneOwner` - `TypeOK` and `Ownership` are invariants. Their
  conjunction is the inductive invariant `IInv`. `Ownership` ties the three
  owners together: the send half holds the buffer from the packet it has taken
  to the one it releases, the USB core only within that time and while the flag
  is down, and the server has the buffer where it writes without asking - at
  the head of its loop while the target runs, and at the end of a reset. No
  conjunct is inductive alone: that the server may write at the head of the loop
  rests on the wait after the console packet, which rests on the send half
  releasing only what the core has ended.
* `ResponsesAreSent`, `ResponsesAreStable` - the two action properties about the
  response buffer, from `IInv`.
* `ScanningIsExact` - the incremental scan finds what a scan of the whole pipe
  would. The lemmas about `FirstFrom` say how the first hit in a prefix relates
  to the first hit in the whole.
* `StoppedIsStopped`, `DisconnectingResumes` - what the server believes of the hart.

`SessionProofs` goes on from there under one more assumption, `Uninterrupted`: the user does
not press Ctrl-C and GDB is not started again (`MaxBreaks = 0`, `Restarts = 0`; the runs
`break`, `lost_break` and `restart` are about the others).

* `CommandsAreIntact`, `SessionRefined` - `CommandIntact`, and that the link implements
  `RspSession`. The inductive invariant, `SessionInv`, follows one command. `Path` is every byte on
  its way, from what GDB has written through the packet that the receive half holds to the
  command pipe, so that USB packets, waits and pushes leave it as it is. A command is at one of five stages
  (`AtRest`, `OnItsWay`, `Executing`, `Running`, `Replied`), and each says what the path holds: nothing
  but checksum digits and `+` (`Junk`), or one whole packet among them (`Whole`). `JunkHidesNothing`
  and `WholeFound` say what the scanner makes of that, whatever part has arrived; `StateKept` takes
  the steps that move bytes only, and one lemma each the steps of the server in a stage.
  The refinement needs the stages too: that a reply is of the right kind is a fact about what was
  taken from the pipe, and that it is the only one, a fact about `Flying`, a response that has not arrived.
* `AcksAgree` - `AckAgrees`, from `AckInv` on top of it: the two ends agree on the mode but while the reply to
  `QStartNoAckMode` is on its way, and from the end of a session to the reply to `qSupported`.

`UartBridgeProofs` proves, for every size of the ring and of the batches:

* `BridgeTypeCorrect` - `TypeOK`: the indices stay in the ring, though the
  handler and `getchar` move them without a lock.
* `BridgeImplementsChannel` - the bridge implements `UartChannel`. The inductive
  invariant says that `getchar` past its test finds the ring non-empty whatever the
  handler has done since, that the byte it is to return is still in its slot, and
  that the core has the batch only while the send thread waits. The lemmas `PutAppends`,
  `FullRing` and `AdvanceTakes` say what the two index moves do to the contents,
  `PrintOffers`, `StoreTakes` and `OtherStutters` which abstract step each
  concrete one is.
* `HostBytesStayInOrder` - `HostBytesInOrder`, from an invariant of its own, `HostInv`:
  the endpoint is armed only while `recv_poll` waits with its flag down, so the
  buffer always holds the last bytes that were fetched, and what is passed on of it is
  the bytes up to `Passed`.

`VcomSettingProofs` proves, for words of any width:

* `SettingTypeCorrect`, `SettingIsAtomic` and `SettingIsKept` - `TypeOK`,
  `SettingAtomic` and `OkIsKept`. The inductive invariant rests on `PageSound`:
  the complement of either setting clears at most bit 0, so a
  complement that was cut short is either blank or whole, and when it is whole
  the first copy still has bit 0. A page cut short in any way is therefore
  invalid or one of the two settings, and never turns `off` into `on` by itself.
* `FlashIsLocked` - `LockedAtRest`, a conjunct of the same invariant.
* `EndpointsAgree` - `EndpointsDescribed`, from an invariant of its own, `ShownInv`:
  what was described is the setting in RAM until a monitor command comes.

`DmiProofs` proves, for every chain of devices, widths of the registers and number
of idle ticks:

* `StaysInStep` - `InStep`: every tick of `tap.c` finds the TAP where its comment says.
* `InstructionIsSelected` - `CachedInstruction`: an instruction scan that `dtm.c`
  leaves out was not needed, until the target loses its power.

Their inductive invariant (`ScanInvariant`) says where the TAP is at each tick (`StepInv`), that
the ticks with TMS high are those that leave a state (`AfterHigh`), and how far the
instruction has been shifted in (`ShiftInv`): the five bits that come to rest in the TAP's
register are the ones meant for it, with as many devices before and behind as there are.

`DmiPortProofs` goes on from there, for every number of retries and length of the pauses too:

* `TypeCorrect`, `PortRefined` - `TypeOK`, and that `dmi.c`, `dtm.c` and `tap.c` together implement
  `RegisterPort`.

The refinement needs an invariant over the whole path of an access (`PortInvariant`), in layers that
each rest on those before:

* `CodeInv` (`CodeInvariant`): which line of the three files may follow which, so that a scan is always
  the scan of a call, with the word that the call has asked for.
* `TypeInv`: the lengths, of the word that goes out, of what has come in, and of the registers on the chain.
* `PosInv`: where the TAP is. In step (`OnTrack`) the number of ticks says it; after a loss of power it may
  be one scan astray, and the invariant says where that leaves it.
* `SelectInv`, `PathInv`: which register is on the path, and which bits of the word are in it at each tick, on their way in
  and out.
* `WindowInv`: a TAP that is astray never has the DMI register on the path, so that no access is made
  which was not asked for.
* `OwnedInv`: which request the debug module has, of this call (`mine`) or left behind by an earlier
  one, and how many of this call were made.
* `ResultInv`: the word that a scan brings out of the DMI register is the answer to the access made last;
  OK is never read of one that is still under way, or failed.

Most steps are ticks, and map to a step that changes nothing. `AccessDone` is `Make`, or `MakeLoose` for the request of an
earlier call; what ends a call is `ReturnDone` only if the result is DONE, which `ResultInv` allows only when
`made` is the number of the requests.

`RiscvTargetProofs` proves, for any number of triggers and slots, any addresses and
any breakpoints GDB asks for:

* `TargetTypeCorrect`, `TargetStopsOrIsStopping`, `NoErrorIsApplied`, `ProgramIsKept` and
  `RefusalsAreExplained` - `TypeOK`, `StoppedOrStopping`, `NoErrorMeansApplied`,
  `MemoryIsProgram` and `RefusedOnlyWhileHalting`. `NoErrorMeansApplied` says that while no error is noted the
  triggers are those of the table and ebreak halts the hart, and names what a `monitor reset` of the session may have cleared instead.
* `StopsAreExplained` - `StopIsExplained`, from the hypothesis `OneWatchEach`: GDB sets one kind of
  watchpoint at an address. It is a hypothesis about GDB, and needed (see "What the models show beside").

The properties speak of a target at rest between two calls; the inductive invariant
(`TargetInvariant`) says for every call which of its accesses are left (`ListInv`), when it
can have been made (`CallInv`), that the hart stays halted or asked to halt meanwhile
(`HeldInv`), and what the accesses made so far have done if none was refused (`HardInv`
for DCSR and the triggers, `SoftInv` for memory, `PointInv` for the one breakpoint that
is being moved). `StopsAreExplained` adds `StopsInv` to it: a hart that was resumed and has halted on a trigger
was halted by one that is in the table (`StopInv`), and no slot before that of a watchpoint has its
address, in use or freed (`SlotInv`), so that the search finds the right one.

`FlashProofs` proves, for any number and size of pages, any set of protected ones, any clock
and timeout:

* `FlashTypeCorrect`, `OkMeansDone`, `WordsAreKept`, `NoHurry` - `TypeOK`, `OkIsTrue`,
  `OnlyWhereAsked` and `NotGivenUpEarly`.

`OkMeansDone` and `WordsAreKept` say what is true although accesses come to nothing: while the DMI drops none, a word
answered OK holds the data, or it is blank and `err_msg` notes it; loads in which a START fell into an erasure given up before
are set apart (`clash`); a word that was not asked for is touched only when the DMI has dropped an access.

Their inductive invariant (`FlashInvariant`) ties the page that the controller is at to the page that
the loop is at (`EraseInv`), the words that a write has passed to PGERR (`WriteInv`), pages cut
short to the operation that is still at them (`TornInv`), and the clock to the ticks since the timer
was set (`TimeInv`). `NoHurry` rests on the assumption that the timeout and the lag between two
looks are less than the range of the clock.

Only model-checked: liveness, `BreakStops` among it (the prover has neither fairness nor ENABLED
here). Every safety property that a passing run checks is stated by a theorem, under `Uninterrupted` or `OneWatchEach` where
the text above names them.

## What the models show beside

These are behaviours of the code that a run does not state as a property, found while the models
were checked. None contradicts a comment or a document in its words; the room of the command buffer
falls short of what its comment (`gdb-packet.c:38`) sets out to provide.

* A Ctrl-C that crosses the stop reply is executed as an unknown command, and GDB gets an
  empty reply it has not asked for (`gdb-server.c:265`).
* A command that comes while the server believes the target to run is dropped without an answer
  (`gdb-server.c:192`). A GDB that is restarted meanwhile waits for ever; the restart run
  checks safety only.
* The command buffer has room for three bytes beyond the largest packet. When more than that
  are stale (checksum digits and acknowledgements that arrive after the command was taken: after a monitor command that
  prints, say), a largest packet does not fit, `process_command` refuses it for ever and nothing makes room
  (`gdb-packet.c:127`). Without its last disjunct, `CommandAnswered` is violated by exactly this in the `session` run.
* `dtm.c` trusts its cached instruction across a loss of power, and its next scan goes through the
  instruction that the TAP has then selected, which leaves the TAP one scan out of step. The pause of a retry (`dmi.c:80`) then
  shifts ones into the instruction register; the scans that follow go through BYPASS, and what comes out reads
  as OK: `rvl_dmi_read` says DONE and returns zero, though nothing was read. With a shorter pause TLC does not
  find it. This is why `RegisterPort` promises nothing of the answers from a power failure to the next connection.
* A watchpoint slot that was freed keeps its address, and the search for the watchpoint that was hit stops
  at it (`target.c:706`): two kinds of watchpoint at one address, one of them removed, and the stop is
  reported without its address.
* A Ctrl-C does not wait for the hart to halt. A continue or a step that follows at once reads
  DCSR as all ones, and writes that back when the hart halts in between.
* `monitor reset` clears the triggers and the ebreak bits of the hart and not the table, and nothing sets them again:
  `monitor show error` says no error, and the breakpoints of GDB do not stop the hart. `NoErrorMeansApplied`
  names the reset as the one exception.
* A START that falls into an erasure given up before is ignored, and the erasure is answered OK as soon as
  the old one ends; PGERR keeps the writes that follow honest, except on protected pages. This is why
  `OkIsTrue` sets such loads apart (`clash`). The error exits leave PER or PG set and the flash unlocked.
* A `vcom` command that fails to write the page has changed the setting in RAM (`gdb-server.c:454`): `monitor rvl vcom`
  and the next SET_CONFIGURATION show the new one, the next start the old one.
* The pipelined accesses to memory do not look at the status of their scans (`target.c:980`, `:1082`), and what
  `target.c` notes in `err_msg` the flash functions do not read (`target/family/gd32vf103/target.c:299`). So a write may be
  answered OK with words missing. When the debug module refused them, `monitor show error` tells, and `OkIsTrue` says that much; when
  the DMI dropped a scan, nothing does. A dropped write to `FMC_ADDR` is worse: the START behind it erases the page
  that was selected before, which is why `OnlyWhereAsked` speaks of `dropped`.
* A `dmi` read that fails leaves its result as it was, and the halt check goes on with that (`target.c:637`).
* A text that fills the console ring, 255 characters, is 510 in hex and fits the response buffer.

## Not modelled

The contents of memory and registers, formatting, the text of the console ring;
a `-` from GDB (USB gives it no cause, and the code ignores it); GDB commands before
`qSupported` (GDB never sends one; the code would trip an assertion); unplugging
the cable (the firmware never arms its endpoints again). In the bridge, a
receive overrun of the UART itself, and the line coding: no request sets
`cdc_acm_core_cmd`, so `rvl_serial_set_line_coding` is never reached. In the
configuration, a flash operation that is reported as timed out and still ends
later, an assertion other than that of `gdb_server_init`, and the way in which the endpoints of an old
configuration are taken down (`cdc_acm_core_deinit` asks for the setting again, and differs only after a command has
changed it). In the JTAG stack,
`dmihardreset` (nothing calls it), a cable that corrupts bits, a loss of power within a scan, and the width of
addresses that a connection reads from `dtmcs` (`dtm.c:131`): it is a constant of the target, and only a
connection during which the power fails could read another, of which nothing is promised before the next one. In
the target, the abstract commands bit by bit, a hart that takes its time over a resume request, and a DMI
that drops an access (`Flash` has that one). In the
flash, the set-up of the system clock before an erasure, which touches no state of the
controller, and the command of a word that is still under way when the next packet of GDB has come: the
programming of a word takes less than the packet does.

The components marked `not_modelled` in `PROJECT.json`: the pins (GPIO writes and delays), the LED (a flag
for a light), CAN (an echo in its interrupt handlers, which nothing of the probe reads), USB port 3 (which
`main.c` neither initialises nor polls), and descriptors, target description, glue and stubs, which are tables or wrappers without state. The
repository's `lib` is the vendor's peripheral library, USB stack and start-up code, most of its lines by
far: the modules take from it what the firmware relies on, as external actions.

## What could follow

The halt check and the breakpoints of `target.c` over a DMI that fails or drops accesses, and the theorems of
`SessionProofs` without `Uninterrupted`.

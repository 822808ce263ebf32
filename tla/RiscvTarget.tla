---------------------------- MODULE RiscvTarget ----------------------------
(***************************************************************************)
(* arch/riscv/target.c, driven as gdb-server.c drives it: GDB connects,    *)
(* sets breakpoints, continues, steps, interrupts and disconnects, while   *)
(* the hart goes its own way between any two accesses to it.               *)
(*                                                                         *)
(* A function of target.c is the list of the accesses it makes; a step     *)
(* makes the next one.  riscv_read_register and riscv_write_register are   *)
(* one access each: the command is executed as it is written, and what     *)
(* they read after it does not change any more.  The accesses to the debug *)
(* module itself succeed.                                                  *)
(***************************************************************************)
EXTENDS Hart, FiniteSets

CONSTANTS
  SoftwareNum,  \* RVL_TARGET_CONFIG_SOFTWARE_BREAKPOINT_NUM
  Points,       \* the breakpoints that GDB may ask for: <<type, address>>
  MaxAfter      \* bound: commands of a session after an error or a reset

ASSUME TargetAssumption ==
  /\ SoftwareNum \in Nat /\ MaxAfter \in Nat
  /\ Points \subseteq ({"software", "hardware"} \X CodeAddrs) \cup (WatchTypes \X DataAddrs)

VARIABLES
  op, todo,     \* the call that is under way, and the accesses left in it
  image,        \* self.dcsr
  slots, soft,  \* hardware_breakpoints, software_breakpoints
  errMsg,       \* err_msg is not "no error"
  connected, running, targetError,  \* fields of the server
  report,       \* what a halt check has found
  left,         \* history: where earlier sessions have left the memory changed
  wiped,        \* history: the hart was reset in this session
  after         \* bound: its commands since then, or since an error was noted

serverVars == <<connected, running, targetError, report>>
historyVars == <<left, wiped, after>>
vars == <<hartVars, op, todo, image, slots, soft, errMsg, serverVars, historyVars>>

SoftSlots == 1 .. SoftwareNum
NoSoft == [used |-> FALSE, addr |-> Nowhere, orig |-> "garbage"]
SoftType == [used : BOOLEAN, addr : CodeAddrs \cup {Nowhere}, orig : Inst]

Do(what, arg) == [do |-> what, arg |-> arg]
NoImage == [ebreak |-> FALSE, step |-> FALSE, rest |-> "kept"]
NoReport == [reason |-> "none", addr |-> Nowhere]

Init ==
  /\ HartInit
  /\ op = "none" /\ todo = <<>>
  /\ image = NoImage
  /\ slots = [t \in Triggers |-> NoSlot] /\ soft = [s \in SoftSlots |-> NoSoft]
  /\ errMsg = FALSE
  /\ connected = FALSE /\ running = FALSE /\ targetError = "none"
  /\ report = NoReport
  /\ left = {} /\ wiped = FALSE
  /\ after = 0

(***************************************************************************)
(* The functions, as the accesses they make.                               *)
(***************************************************************************)
EditDcsr(edit) == <<Do("read_dcsr", "none"), Do("write_dcsr", edit)>>

Activate == <<Do("off", "none"), Do("on", "none")>>
\* Mutation: the request is taken back at once.
HaltPulse == <<Do("halt", "none"), Do("on", "none")>>
Halt == <<Do("halt", "none")>>
\* Mutation: one trigger too many.
ClearTriggersPast ==
  [i \in 1 .. 2 * HardwareNum + 2 |->
     IF i % 2 = 1 THEN Do("select", (i + 1) \div 2) ELSE Do("type", "unused")]
ClearTriggers ==
  [i \in 1 .. 2 * HardwareNum |->
     IF i % 2 = 1 THEN Do("select", (i + 1) \div 2) ELSE Do("type", "unused")]
AfterHalted ==
  <<Do("read_dcsr", "none"), Do("check", "none"), Do("write_dcsr", "ebreak_on")>>
    \o ClearTriggers \o <<Do("protection", "none")>>

\* Mutation: the hart goes before its step bit is cleared.
ResumeFirst == <<Do("resume", "none")>> \o EditDcsr("run")
Resume == EditDcsr("run") \o <<Do("resume", "none")>>
Step == EditDcsr("step") \o <<Do("resume", "none")>>
FiniPre == EditDcsr("ebreak_off") \o <<Do("off", "none")>>
Reset == <<Do("reset", "none"), Do("halt", "none"), Do("await", "none"), Do("halt", "none")>>

\* Mutation: the instruction is saved after the ebreak was written.
InsertSoftSavesLate(s, a) ==
  <<Do("write_mem", [addr |-> a, inst |-> "ebreak"]), Do("read_mem", s)>>
InsertSoft(s, a) == <<Do("read_mem", s), Do("write_mem", [addr |-> a, inst |-> "ebreak"])>>
RemoveSoft(s) ==
  <<Do("write_mem", [addr |-> soft[s].addr, inst |-> soft[s].orig])>>
\* Mutation: whatever trigger is selected.
InsertHardUnselected(t, p) == <<Do("type", p[1]), Do("addr", p[2])>>
InsertHard(t, p) == <<Do("select", t), Do("type", p[1]), Do("addr", p[2])>>
RemoveHard(t) == <<Do("select", t), Do("type", "unused")>>

(***************************************************************************)
(* The commands of GDB.                                                    *)
(***************************************************************************)
AtRest == op = "none"
Command ==
  /\ AtRest /\ connected /\ ~running /\ targetError = "none"
  /\ IF errMsg \/ wiped THEN after < MaxAfter /\ after' = after + 1 ELSE UNCHANGED after

Call(name, accesses) ==
  /\ op' = name /\ todo' = accesses
  /\ UNCHANGED <<hartVars, image, connected, running>>  \* set as it returns

\* gdb_server_connected, with the line down, a module that does not answer as
\* it should, or neither.
Connect ==
  /\ AtRest /\ (connected => ~running)
  /\ targetError' \in {"none", "line", "debug_module"}
  /\ Call("connect", IF targetError' = "none" THEN Activate \o Halt \o AfterHalted ELSE <<>>)
  /\ slots' = [t \in Triggers |-> [slots[t] EXCEPT !.type = "unused"]]
  /\ soft' = [s \in SoftSlots |-> NoSoft]
  /\ errMsg' = FALSE
  /\ UNCHANGED report
  /\ wiped' = FALSE /\ after' = 0
  /\ left' = {a \in CodeAddrs : mem[a] # "program"}

\* gdb_server_disconnected, by k or after a connection that has failed.
Disconnect ==
  /\ AtRest /\ connected /\ ~running
  /\ Call("disconnect", IF targetError = "line" THEN <<>> ELSE Resume \o FiniPre)
  /\ UNCHANGED <<slots, soft, errMsg, targetError, report, left, wiped, after>>

Continue ==
  /\ Command
  /\ Call("continue", Resume)
  /\ UNCHANGED <<slots, soft, errMsg, targetError, report, left, wiped>>

SingleStep ==
  /\ Command
  /\ Call("step", Step)
  /\ UNCHANGED <<slots, soft, errMsg, targetError, report, left, wiped>>

\* g, G, p, P, m, M and X: what they move is not modelled.
Access ==
  /\ Command
  /\ \/ Call("access", <<Do("register", "none")>>)
     \/ Call("access", <<Do("memory", "none")>>)
     \/ Call("access", EditDcsr("prv"))
  /\ UNCHANGED <<slots, soft, errMsg, targetError, report, left, wiped>>

\* monitor reset
MonitorReset ==
  /\ Command
  /\ Call("reset", Reset)
  /\ wiped' = TRUE
  /\ UNCHANGED <<slots, soft, errMsg, targetError, report, left>>

First(s, Wanted) == s \in Wanted /\ \A r \in 1 .. s - 1 : r \notin Wanted

\* What GDB has been told is there.
Placed ==
  {<<"software", soft[s].addr>> : s \in {r \in SoftSlots : soft[r].used}}
    \cup {<<slots[u].type, slots[u].addr>> : u \in {r \in Triggers : slots[r].type # "unused"}}

Full(p) ==
  IF p[1] = "software" THEN \A s \in SoftSlots : soft[s].used
                       ELSE \A t \in Triggers : slots[t].type # "unused"

\* GDB inserts what is not there, and removes what is.  With a full table the answer
\* is E0e, and nothing is done.
Insert(p) ==
  /\ Command /\ p \notin Placed
  /\ \/ /\ Full(p)
        /\ Call("insert", <<>>)
        /\ UNCHANGED <<slots, soft>>
     \/ /\ p[1] = "software"
        /\ \E s \in SoftSlots :
             /\ First(s, {r \in SoftSlots : ~ soft[r].used})
             /\ soft' = [soft EXCEPT ![s].used = TRUE, ![s].addr = p[2]]
             /\ Call("insert", InsertSoft(s, p[2]))
        /\ UNCHANGED slots
     \/ /\ p[1] # "software"
        /\ \E t \in Triggers :
             /\ First(t, {r \in Triggers : slots[r].type = "unused"})
             /\ slots' = [slots EXCEPT ![t] = [type |-> p[1], addr |-> p[2]]]
             /\ Call("insert", InsertHard(t, p))
        /\ UNCHANGED soft
  /\ UNCHANGED <<errMsg, targetError, report, left, wiped>>

Remove(p) ==
  /\ Command /\ p \in Placed
  /\ \/ /\ p[1] = "software"
        /\ \E s \in SoftSlots :
             /\ First(s, {r \in SoftSlots : soft[r].used /\ soft[r].addr = p[2]})
             /\ soft' = [soft EXCEPT ![s] = NoSoft]
             /\ Call("remove", RemoveSoft(s))
        /\ UNCHANGED slots
     \/ /\ p[1] # "software"
        /\ \E t \in Triggers :
             /\ First(t, {r \in Triggers : slots[r] = [type |-> p[1], addr |-> p[2]]})
             /\ slots' = [slots EXCEPT ![t].type = "unused"]
             /\ Call("remove", RemoveHard(t))
        /\ UNCHANGED soft
  /\ UNCHANGED <<errMsg, targetError, report, left, wiped>>

\* While the target runs the server looks for a Ctrl-C, or checks for a halt.
CtrlC ==
  /\ AtRest /\ connected /\ running
  /\ Call("ctrl_c", Halt)
  /\ UNCHANGED <<slots, soft, errMsg, targetError, report, historyVars>>

HaltCheck ==
  /\ AtRest /\ connected /\ running
  /\ Call("halt_check", <<Do("status", "none")>>)
  /\ UNCHANGED <<slots, soft, errMsg, targetError, report, historyVars>>

(***************************************************************************)
(* The accesses.                                                           *)
(***************************************************************************)
Next1(what) == todo # <<>> /\ Head(todo).do = what /\ todo' = Tail(todo) /\ UNCHANGED op
Arg == Head(todo).arg

Quiet == UNCHANGED <<slots, soft, serverVars, historyVars>>

WriteControl ==
  /\ \/ Next1("off") /\ Control(FALSE, FALSE) /\ UNCHANGED <<hart, stop, registers>>
     \/ Next1("on") /\ Control(TRUE, FALSE) /\ UNCHANGED <<hart, stop, registers>>
     \/ Next1("halt") /\ Control(TRUE, TRUE) /\ UNCHANGED <<hart, stop, registers>>
     \/ Next1("resume") /\ WriteResume
     \/ Next1("reset") /\ WriteReset
  /\ UNCHANGED <<image, errMsg>> /\ Quiet

\* cmderr is noted, and cleared.
NoteError == errMsg' = (errMsg \/ Refused)

ReadDcsr ==
  /\ Next1("read_dcsr")
  /\ image' = IF Refused THEN AllOnes ELSE dcsr
  /\ NoteError
  /\ UNCHANGED hartVars /\ Quiet

\* xdebugver
CheckVersion ==
  /\ todo # <<>> /\ Head(todo).do = "check"
  /\ IF image.rest = "ones"
       THEN targetError' = "compat" /\ todo' = <<>>
       ELSE todo' = Tail(todo) /\ UNCHANGED targetError
  /\ UNCHANGED <<hartVars, op, image, slots, soft, errMsg, connected, running, report,
                 historyVars>>

Edited(edit) ==
  CASE edit = "ebreak_on"  -> [image EXCEPT !.ebreak = TRUE]
    [] edit = "ebreak_off" -> [image EXCEPT !.ebreak = FALSE]
    [] edit = "step"       -> [image EXCEPT !.step = TRUE]
    [] edit = "run"        -> [image EXCEPT !.step = FALSE]
    [] OTHER               -> image

Written(i) == IF i.rest = "ones" THEN [i EXCEPT !.rest = "changed"] ELSE i

WriteDcsr ==
  /\ Next1("write_dcsr")
  /\ image' = Edited(Arg)
  /\ dcsr' = IF Refused THEN dcsr ELSE Written(Edited(Arg))
  /\ NoteError
  /\ UNCHANGED <<hart, active, haltReq, stop, tselect, triggers, mem>> /\ Quiet

\* The address of a trigger that is off is not used before it is written again.
Typed(type) == IF type = "unused" THEN NoSlot ELSE [triggers[tselect] EXCEPT !.type = type]

WriteTrigger ==
  /\ \/ /\ Next1("select")
        /\ tselect' = IF Refused THEN tselect ELSE Arg
        /\ UNCHANGED triggers
     \/ /\ Next1("type")
        /\ triggers' = IF Refused THEN triggers ELSE [triggers EXCEPT ![tselect] = Typed(Arg)]
        /\ UNCHANGED tselect
     \/ /\ Next1("addr")
        /\ triggers' = IF Refused THEN triggers ELSE [triggers EXCEPT ![tselect].addr = Arg]
        /\ UNCHANGED tselect
  /\ NoteError
  /\ UNCHANGED <<hart, active, haltReq, dcsr, stop, mem, image>> /\ Quiet

AccessRegister ==
  /\ Next1("register") /\ NoteError
  /\ UNCHANGED <<hartVars, image>> /\ Quiet

\* An access to memory may succeed while the hart runs, and may be refused for its
\* address when the hart has halted: cmderr 3 and 5.
AccessMemory ==
  /\ Next1("memory") /\ \E refused \in BOOLEAN : errMsg' = (errMsg \/ refused)
  /\ UNCHANGED <<hartVars, image>> /\ Quiet

ReadMem ==
  /\ Next1("read_mem")
  /\ \E refused \in BOOLEAN :
       /\ soft' = [soft EXCEPT ![Arg].orig = IF refused THEN "garbage" ELSE mem[soft[Arg].addr]]
       /\ errMsg' = (errMsg \/ refused)
  /\ UNCHANGED <<hartVars, image, slots, serverVars, historyVars>>

WriteMem ==
  /\ Next1("write_mem")
  /\ \E refused \in BOOLEAN :
       /\ mem' = IF refused THEN mem ELSE [mem EXCEPT ![Arg.addr] = Arg.inst]
       /\ errMsg' = (errMsg \/ refused)
  /\ UNCHANGED <<hart, active, haltReq, dcsr, stop, tselect, triggers, image>> /\ Quiet

\* rvl_target_init_after_halted of the family: flash protection and size.
CheckProtection ==
  /\ Next1("protection")
  /\ targetError' \in {"none", "protected"}
  /\ NoteError
  /\ UNCHANGED <<hartVars, image, slots, soft, connected, running, report, historyVars>>

\* The loop of rvl_target_reset ends with the hart halted, or after 100 rounds.
AwaitHalt ==
  /\ Next1("await")
  /\ UNCHANGED <<hartVars, image, errMsg>> /\ Quiet

ReadStatus ==
  /\ todo # <<>> /\ Head(todo).do = "status"
  /\ IF hart = "halted"
       THEN todo' = <<Do("read_dcsr", "none"), Do("cause", "none")>> /\ UNCHANGED report
       ELSE todo' = <<>> /\ report' = [reason |-> "running", addr |-> Nowhere]
  /\ UNCHANGED <<hartVars, op, image, slots, soft, errMsg, connected, running, targetError,
                 historyVars>>

\* Mutation: any hardware breakpoint explains a halt by a trigger.
HardAtAny(t) == slots[t].type = "hardware"

\* The reason of a halt by a trigger: a hardware breakpoint at dpc, or else the
\* first slot with the address that the instruction at dpc accesses.
HardAt(t) == slots[t] = [type |-> "hardware", addr |-> stop.pc]
Decoded == IF stop.plain THEN stop.touch ELSE Zero
WatchAt(t) == slots[t].addr = Decoded

TriggerReason ==
  IF \E t \in Triggers : HardAt(t) THEN [reason |-> "hardware", addr |-> Nowhere]
  ELSE IF \E t \in Triggers : slots[t].type \in WatchTypes /\ \E u \in Triggers : WatchAt(u)
    THEN LET first == CHOOSE t \in Triggers : First(t, {u \in Triggers : WatchAt(u)})
         IN  IF slots[first].type \in WatchTypes
               THEN [reason |-> slots[first].type, addr |-> Decoded]
               ELSE [reason |-> "other", addr |-> Decoded]
    ELSE [reason |-> "other", addr |-> Nowhere]

ReadCause ==
  /\ Next1("cause")
  /\ report' = CASE stop.cause = "ebreak"  -> [reason |-> "software", addr |-> Nowhere]
                 [] stop.cause = "trigger" -> TriggerReason
                 [] OTHER                  -> [reason |-> "other", addr |-> Nowhere]
  /\ NoteError
  /\ UNCHANGED <<hartVars, image, slots, soft, connected, running, targetError, historyVars>>

\* What the server does when the call has returned.
Return ==
  /\ op # "none" /\ todo = <<>>
  /\ op' = "none"
  /\ connected' = CASE op = "connect" -> TRUE [] op = "disconnect" -> FALSE
                    [] OTHER -> connected
  /\ running' = CASE op \in {"connect", "ctrl_c"} -> FALSE
                  [] op \in {"continue", "step"} -> TRUE
                  [] op = "disconnect" -> (running \/ targetError # "line")
                  [] op = "halt_check" -> report.reason = "running"
                  [] OTHER -> running
  /\ image' = NoImage /\ report' = NoReport   \* not used before they are read again
  /\ UNCHANGED <<hartVars, todo, slots, soft, errMsg, targetError, historyVars>>

Probe ==
  \/ Connect \/ Disconnect \/ Continue \/ SingleStep \/ Access \/ MonitorReset
  \/ \E p \in Points : Insert(p) \/ Remove(p)
  \/ CtrlC \/ HaltCheck
  \/ WriteControl \/ ReadDcsr \/ CheckVersion \/ WriteDcsr \/ WriteTrigger
  \/ AccessRegister \/ AccessMemory \/ ReadMem \/ WriteMem \/ CheckProtection \/ AwaitHalt
  \/ ReadStatus \/ ReadCause \/ Return

HartStep == HartStops /\ UNCHANGED <<op, todo, image, slots, soft, errMsg, serverVars, historyVars>>

Next == Probe \/ HartStep

Spec == Init /\ [][Next]_vars

-----------------------------------------------------------------------------
\* Every variable has its type.
TypeOK ==
  /\ HartTypeOK
  /\ op \in {"none", "connect", "disconnect", "continue", "step", "access", "reset",
             "insert", "remove", "ctrl_c", "halt_check"}
  /\ image \in Images
  /\ slots \in [Triggers -> SlotType] /\ soft \in [SoftSlots -> SoftType]
  /\ errMsg \in BOOLEAN
  /\ connected \in BOOLEAN /\ running \in BOOLEAN
  /\ targetError \in {"none", "line", "debug_module", "compat", "protected"}
  /\ report.reason \in HardTypes \cup {"none", "running", "software", "other"}
  /\ report.addr \in DataAddrs \cup {Nowhere, Zero}
  /\ left \subseteq CodeAddrs
  /\ wiped \in BOOLEAN /\ after \in 0 .. MaxAfter

InSession == AtRest /\ connected /\ targetError = "none"

\* A target that the server believes stopped has halted, or will: nothing but a
\* resume takes the halt request back.
StoppedOrStopping == InSession /\ ~running => hart = "halted" \/ haltReq

Agrees(t) ==
  /\ triggers[t].type = slots[t].type
  /\ slots[t].type # "unused" => triggers[t] = slots[t]

\* A "monitor reset" notes no error, and nothing writes again what it has cleared.
Lost(t) == wiped /\ triggers[t].type = "unused"

\* As long as "monitor show error" says no error, every trigger is what its slot in
\* the table says and ebreak halts the hart.  After a "monitor reset" this much is
\* left of it: a trigger may have been cleared behind its slot, but none stops the
\* hart for anything else than its slot says; of ebreak nothing is promised.
NoErrorMeansApplied ==
  InSession /\ ~errMsg =>
    /\ wiped \/ dcsr.ebreak
    /\ \A t \in Triggers : Agrees(t) \/ Lost(t)

\* As long as no error is noted, the memory differs from the program exactly where
\* a breakpoint is set, and where an earlier session has left it changed.
MemoryIsProgram ==
  InSession /\ ~errMsg =>
    \A a \in CodeAddrs \ left :
      mem[a] = IF <<"software", a>> \in Placed THEN "ebreak" ELSE "program"

\* What the server reports of a stop, as long as no error is noted and the hart was
\* not reset in this session.  No stop is reported of a hart that runs,
\* a breakpoint that is reported caused the stop and GDB has asked for it, and
\* a watchpoint that a plain load or store has hit is reported as one.
Reported == op = "halt_check" /\ todo = <<>> /\ report.reason # "running" /\ ~errMsg /\ ~wiped

WatchHit == stop.cause = "trigger" /\ stop.touch # Nowhere /\ stop.plain

StopIsExplained ==
  Reported =>
    /\ hart = "halted"
    /\ report.reason = "software" => stop.cause = "ebreak"
    /\ report.reason = "hardware" => <<"hardware", stop.pc>> \in Placed
    /\ report.reason \in WatchTypes =>
         report.addr = stop.touch /\ <<report.reason, stop.touch>> \in Placed
    /\ WatchHit => report.reason \in WatchTypes

OfMemory == todo # <<>> /\ Head(todo).do \in {"memory", "read_mem", "write_mem"}

\* The registers of the hart are accessed only after its halt was requested,
\* and an access is refused only until it has halted; but for the end of a
\* session, which accesses DCSR after the resume, and for an access to memory,
\* which may be refused for its address.
RefusedOnlyWhileHalting ==
  [][errMsg' /\ ~errMsg =>
       haltReq \/ op = "disconnect" \/ targetError # "none" \/ OfMemory]_vars

\* target.c: "ebreak instructions in X-mode behave as described in the
\* Privileged Spec." when a session has ended.
EbreakHandedBack ==
  AtRest /\ ~connected /\ targetError = "none" => ~dcsr.ebreak
=============================================================================

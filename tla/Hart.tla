-------------------------------- MODULE Hart --------------------------------
(***************************************************************************)
(* The hart under debug and its debug module, as target.c uses them: the   *)
(* registers that stop the hart, and when it stops.  All of it is          *)
(* external.  A hart that runs refuses every access to its registers, with *)
(* cmderr 4; it obeys a halt request in its own time, and a resume request *)
(* at once.                                                                *)
(***************************************************************************)
EXTENDS Integers, Sequences

CONSTANTS
  CodeAddrs, DataAddrs,   \* where breakpoints and watchpoints may be set
  HardwareNum             \* RVL_TARGET_CONFIG_HARDWARE_BREAKPOINT_NUM

ASSUME HartAssumption ==
  /\ HardwareNum \in Nat \ {0}
  /\ CodeAddrs \cap DataAddrs = {}

Nowhere == "nowhere"    \* no address, and that of an instruction without a breakpoint
Zero == "zero"          \* the address that parse_watchpoint_inst makes of an AMO
ASSUME AddrAssumption == {Nowhere, Zero} \cap (CodeAddrs \cup DataAddrs) = {}

Triggers == 1 .. HardwareNum
WatchTypes == {"write", "read", "access"}
HardTypes == {"hardware"} \cup WatchTypes
Addrs == CodeAddrs \cup DataAddrs
SlotType == [type : HardTypes \cup {"unused"}, addr : Addrs \cup {Nowhere}]
NoSlot == [type |-> "unused", addr |-> Nowhere]

\* rest stands for the fields that the probe has no reason to change.
Dcsr == [ebreak : BOOLEAN, step : BOOLEAN, rest : {"kept", "changed"}]

\* What a refused read returns; no DCSR reads like that.
AllOnes == [ebreak |-> TRUE, step |-> TRUE, rest |-> "ones"]
Images == Dcsr \cup [ebreak : BOOLEAN, step : BOOLEAN, rest : {"ones"}]

Inst == {"program", "ebreak", "garbage"}

VARIABLES
  hart,         \* running or halted
  active,       \* dmactive
  haltReq,      \* haltreq, as it was written last
  dcsr,
  stop,         \* why the hart has halted: cause, pc, the data address accessed,
                \* and whether a plain load or store did it
  tselect, triggers,
  mem           \* the instructions at CodeAddrs

hartVars == <<hart, active, haltReq, dcsr, stop, tselect, triggers, mem>>
registers == <<dcsr, tselect, triggers, mem>>

Stop == [cause : {"request", "ebreak", "trigger", "step"},
         pc : CodeAddrs \cup {Nowhere}, touch : DataAddrs \cup {Nowhere}, plain : BOOLEAN]
Halted(c, a, t, p) == [cause |-> c, pc |-> a, touch |-> t, plain |-> p]

NoStop == Halted("request", Nowhere, Nowhere, TRUE)

HartInit ==
  /\ hart = "running" /\ active = FALSE /\ haltReq = FALSE
  /\ dcsr = [ebreak |-> FALSE, step |-> FALSE, rest |-> "kept"]
  /\ stop = NoStop
  /\ tselect = 1
  /\ triggers = [t \in Triggers |-> NoSlot]
  /\ mem = [a \in CodeAddrs |-> "program"]

(***************************************************************************)
(* What makes it stop.                                                     *)
(***************************************************************************)
Stops(why) ==
  /\ hart = "running"
  /\ hart' = "halted" /\ stop' = why
  /\ UNCHANGED <<active, haltReq, registers>>

StopRequested == active /\ haltReq /\ Stops(NoStop)

StopStep == dcsr.step /\ Stops(Halted("step", Nowhere, Nowhere, TRUE))

StopEbreak ==
  \E a \in CodeAddrs :
    /\ dcsr.ebreak /\ mem[a] = "ebreak"
    /\ Stops(Halted("ebreak", a, Nowhere, TRUE))

StopTrigger ==
  \E t \in Triggers :
    \/ /\ triggers[t].type = "hardware" /\ triggers[t].addr \in CodeAddrs
       /\ Stops(Halted("trigger", triggers[t].addr, Nowhere, TRUE))
    \/ /\ triggers[t].type \in WatchTypes /\ triggers[t].addr \in DataAddrs
       /\ \E plain \in BOOLEAN : Stops(Halted("trigger", Nowhere, triggers[t].addr, plain))

HartStops == StopRequested \/ StopStep \/ StopEbreak \/ StopTrigger

(***************************************************************************)
(* What the probe writes.                                                  *)
(***************************************************************************)
Refused == hart = "running"

Control(on, halt) == active' = on /\ haltReq' = halt

WriteResume ==
  /\ Control(TRUE, FALSE)
  /\ hart' = "running" /\ stop' = NoStop
  /\ UNCHANGED registers

\* A reset of the hart may clear what it holds for the debugger.
WriteReset ==
  /\ Control(TRUE, TRUE)
  /\ hart' = "running" /\ stop' = NoStop
  /\ \/ UNCHANGED <<dcsr, triggers>>
     \/ /\ dcsr' = [dcsr EXCEPT !.ebreak = FALSE, !.step = FALSE]
        /\ triggers' = [t \in Triggers |-> NoSlot]
  /\ UNCHANGED <<tselect, mem>>

HartTypeOK ==
  /\ hart \in {"running", "halted"} /\ active \in BOOLEAN /\ haltReq \in BOOLEAN
  /\ dcsr \in Dcsr /\ stop \in Stop
  /\ tselect \in Triggers /\ triggers \in [Triggers -> SlotType]
  /\ mem \in [CodeAddrs -> Inst]
=============================================================================

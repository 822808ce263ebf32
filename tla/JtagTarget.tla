----------------------------- MODULE JtagTarget -----------------------------
(***************************************************************************)
(* The far end of the JTAG cable: the TAP controller of the target, its    *)
(* debug transport module (DTM), and the registers of its debug module.    *)
(* It is external; the states of the TAP are those that tap.c traces, and  *)
(* the rest is what dtm.c and dmi.c count on: an access to the debug       *)
(* module takes a while, a scan that comes meanwhile is refused, and so is *)
(* every scan after it until dmireset.                                     *)
(*                                                                         *)
(* A register is a sequence of bits, the one that is shifted first first.  *)
(***************************************************************************)
EXTENDS Integers, Sequences

CONSTANTS
  IrPre, IrPost, DrPre, DrPost, \* RVL_TARGET_CONFIG_TAP_*: bits of the other devices
  DataBits, AddrBits,           \* widths of a debug module register and of an address
  DtmIdle                       \* the idle field of dtmcs

ASSUME ChainAssumption ==
  /\ IrPre \in Nat /\ IrPost \in Nat /\ DrPre \in Nat /\ DrPost \in Nat
  /\ DataBits \in Nat \ {0} /\ AddrBits \in Nat \ {0}
  /\ DtmIdle \in 0 .. 3

Bit == {0, 1}
Word(n) == [1 .. n -> Bit]
Zeros(n) == [i \in 1 .. n |-> 0]

\* The values of the instruction register that dtm.h names.
IrBits == 5
IDCODE == <<1, 0, 0, 0, 0>>
DTMCS  == <<0, 0, 0, 0, 1>>
DMI    == <<1, 0, 0, 0, 1>>

\* IDCODE and DTMCS are as long as this: two bits of version (1 in both),
\* two bits of idle and the dmireset bit stand for their 32.
WordBits == 5
IdCodeWord == <<1, 0, 0, 0, 0>>
DtmcsWord == <<1, 0, DtmIdle % 2, DtmIdle \div 2, 0>>
DmiReset == <<0, 0, 0, 0, 1>>
DmiBits == 2 + DataBits + AddrBits

\* The op field of the DMI register.
OpNop == <<0, 0>>
OpRead == <<1, 0>>
OpWrite == <<0, 1>>
ResultDone == <<0, 0>>
ResultFail == <<0, 1>>
ResultBusy == <<1, 1>>

Requests == [op : {OpRead, OpWrite}, addr : Word(AddrBits), data : Word(DataBits)]
NoRequest == [op |-> OpNop]

VARIABLES
  tap, ir,      \* state and instruction of the TAP
  sr,           \* what lies between TDI and TDO
  request,      \* the access to the debug module that is under way
  response,     \* what the last read returned
  sticky,       \* the error that refuses every scan: ResultDone is none
  dm            \* the registers of the debug module

targetVars == <<tap, ir, sr, request, response, sticky, dm>>

\* tap.c, rvl_tap_trace_state: the next state when TMS is low, and high.
WhenLow == [
  TestLogicReset |-> "RunTestIdle", RunTestIdle |-> "RunTestIdle",
  SelectDR |-> "CaptureDR", CaptureDR |-> "ShiftDR", ShiftDR  |-> "ShiftDR",
  Exit1DR  |-> "PauseDR",   PauseDR   |-> "PauseDR", Exit2DR  |-> "ShiftDR",
  UpdateDR |-> "RunTestIdle",
  SelectIR |-> "CaptureIR", CaptureIR |-> "ShiftIR", ShiftIR  |-> "ShiftIR",
  Exit1IR  |-> "PauseIR",   PauseIR   |-> "PauseIR", Exit2IR  |-> "ShiftIR",
  UpdateIR |-> "RunTestIdle"]

WhenHigh == [
  TestLogicReset |-> "TestLogicReset", RunTestIdle |-> "SelectDR",
  SelectDR |-> "SelectIR", CaptureDR |-> "Exit1DR", ShiftDR  |-> "Exit1DR",
  Exit1DR  |-> "UpdateDR", PauseDR   |-> "Exit2DR", Exit2DR  |-> "UpdateDR",
  UpdateDR |-> "SelectDR",
  SelectIR |-> "TestLogicReset", CaptureIR |-> "Exit1IR", ShiftIR |-> "Exit1IR",
  Exit1IR  |-> "UpdateIR", PauseIR   |-> "Exit2IR", Exit2IR  |-> "UpdateIR",
  UpdateIR |-> "SelectDR"]

TapStates == DOMAIN WhenLow
TapNext(tms) == IF tms = 0 THEN WhenLow[tap] ELSE WhenHigh[tap]

TargetInit ==
  /\ tap = "TestLogicReset" /\ ir = IDCODE /\ sr = <<0>>
  /\ request = NoRequest
  /\ response = Zeros(DataBits)
  /\ sticky = ResultDone
  /\ dm = [a \in Word(AddrBits) |-> Zeros(DataBits)]

(***************************************************************************)
(* One period of TCK.                                                      *)
(***************************************************************************)
Busy == request # NoRequest

\* An instruction register is captured as 1, 0, 0, ...; the other devices are
\* in BYPASS, whose one bit is captured as 0.
Captured(n) == [i \in 1 .. n |-> IF i = 1 THEN 1 ELSE 0]

DrCaptured ==
  CASE ir = IDCODE -> IdCodeWord
    [] ir = DTMCS  -> DtmcsWord
    [] ir = DMI    -> (IF Busy THEN ResultBusy ELSE sticky)
                        \o response \o Zeros(AddrBits)
    [] OTHER       -> <<0>>

Ours(first, n) == SubSeq(sr, first + 1, first + n)

\* The level of TDO before the edge: the probe pulls it up when nothing drives it.
Tdo == IF tap \in {"ShiftIR", "ShiftDR"} THEN Head(sr) ELSE 1

ShiftRegister(tdi) ==
  CASE tap = "CaptureIR" -> Captured(IrPre) \o Captured(IrBits) \o Captured(IrPost)
    [] tap = "CaptureDR" -> Zeros(DrPre) \o DrCaptured \o Zeros(DrPost)
    [] tap \in {"ShiftIR", "ShiftDR"} -> Append(Tail(sr), tdi)
    [] OTHER -> sr

\* What Update-DR hands to the DTM.
DmiUpdate ==
  LET word == Ours(DrPre, DmiBits)
      op == SubSeq(word, 1, 2)
  IN  IF sticky = ResultDone /\ ~Busy /\ op \in {OpRead, OpWrite}
        THEN [op   |-> op,
              data |-> SubSeq(word, 3, 2 + DataBits),
              addr |-> SubSeq(word, 3 + DataBits, DmiBits)]
        ELSE request

\* A late capture of a busy DMI, and the dmireset bit of dtmcs.
Sticky ==
  IF tap = "CaptureDR" /\ ir = DMI /\ Busy /\ sticky = ResultDone THEN ResultBusy
  ELSE IF /\ tap \in {"Exit1DR", "Exit2DR"} /\ tap' = "UpdateDR"
          /\ ir = DTMCS /\ Len(sr) >= DrPre + WordBits /\ sr[DrPre + WordBits] = 1
    THEN ResultDone
    ELSE sticky

Edge(tms, tdi) ==
  /\ tap' = TapNext(tms)
  /\ sr' = ShiftRegister(tdi)
  /\ ir' = CASE tap' = "TestLogicReset" -> IDCODE
             [] tap' = "UpdateIR"       -> Ours(IrPre, IrBits)
             [] OTHER                   -> ir
  /\ request' = IF tap' = "UpdateDR" /\ ir = DMI THEN DmiUpdate ELSE request
  /\ sticky' = Sticky
  /\ UNCHANGED <<response, dm>>

(***************************************************************************)
(* What the target does in its own time.                                   *)
(***************************************************************************)
RequestDone ==
  /\ Busy
  /\ request' = NoRequest
  /\ \/ /\ request.op = OpWrite
        /\ dm' = [dm EXCEPT ![request.addr] = request.data]
        /\ UNCHANGED response
     \/ /\ request.op = OpRead
        /\ response' = dm[request.addr]
        /\ UNCHANGED dm
  /\ UNCHANGED <<tap, ir, sr, sticky>>

RequestFails ==
  /\ Busy
  /\ request' = NoRequest
  /\ sticky' = IF sticky = ResultDone THEN ResultFail ELSE sticky
  /\ UNCHANGED <<tap, ir, sr, response, dm>>

PowerCycle ==
  /\ tap' = "TestLogicReset" /\ ir' = IDCODE /\ sr' = <<0>>
  /\ request' = NoRequest /\ response' = Zeros(DataBits) /\ sticky' = ResultDone
  /\ dm' = [a \in Word(AddrBits) |-> Zeros(DataBits)]

TargetTypeOK ==
  /\ tap \in TapStates
  /\ ir \in Word(IrBits)
  /\ sr \in Seq(Bit)
  /\ request \in Requests \cup {NoRequest}
  /\ response \in Word(DataBits)
  /\ sticky \in {ResultDone, ResultFail, ResultBusy}
  /\ dm \in [Word(AddrBits) -> Word(DataBits)]
=============================================================================

----------------------------- MODULE DmiProofs -----------------------------
(***************************************************************************)
(* Proofs about Dmi, for a chain with any number of other devices on both  *)
(* sides of the target and registers of any width: the code stays in step  *)
(* with the TAP, and the instruction it has cached is the one selected.    *)
(***************************************************************************)
EXTENDS Dmi, SequenceTheorems, TLAPS

-----------------------------------------------------------------------------
(***************************************************************************)
(* The inductive invariant.                                                *)
(***************************************************************************)
IrTotal == IrPre + IrBits + IrPost

Instructions == {IDCODE, DTMCS, DMI}
Lines == {"rest", "select_dr", "select_ir", "capture", "enter", "shift",
          "update", "idle", "go_idle", "run"}

\* Where the TAP can be after k ticks with TMS high.
AfterHigh(k) ==
  CASE k = 0 -> TapStates
    [] k = 1 -> {"TestLogicReset", "SelectDR", "SelectIR", "Exit1DR", "Exit2DR", "UpdateDR",
                 "Exit1IR", "Exit2IR", "UpdateIR"}
    [] k = 2 -> {"TestLogicReset", "SelectDR", "SelectIR", "UpdateDR", "UpdateIR"}
    [] k = 3 -> {"TestLogicReset", "SelectDR", "SelectIR"}
    [] k = 4 -> {"TestLogicReset", "SelectIR"}
    [] OTHER -> {"TestLogicReset"}

\* Which call of tap.c belongs to which of dtm.c.
ScanInv ==
  /\ dtmPc \in {"rest", "ir", "dr", "run"}
  /\ line \in Lines /\ which \in {"ir", "dr"}
  /\ tap \in TapStates
  /\ reg \in Instructions \cup {NoReg}
  /\ dtmPc = "rest" => line = "rest"
  /\ dtmPc = "run" => line \in {"rest", "run", "go_idle"}
  /\ line = "go_idle" => dtmPc = "run" /\ reg = NoReg /\ limit = 6 /\ i \in 0 .. 6
  /\ dtmPc = "dr" => line \notin {"run", "go_idle"} /\ (line # "rest" => which = "dr")
  /\ dtmPc = "ir" => line \notin {"run", "go_idle"} /\ reg # NoReg
  /\ dtmPc = "ir" /\ line # "rest" => which = "ir" /\ new = reg
  /\ dtmPc = "ir" /\ line \in {"select_dr", "select_ir", "capture", "enter"} => i = 0
  /\ line = "select_ir" => which = "ir"

\* The TAP is where the next tick expects it.
StepInv ==
  trusted => /\ tap \in TapAt
             /\ line = "go_idle" => tap \in AfterHigh(i)

\* How far the instruction has been shifted in.
ShiftInv ==
  trusted /\ dtmPc = "ir" =>
    /\ line = "shift" =>
         /\ sr \in Seq(Bit) /\ Len(sr) = IrTotal /\ i \in 0 .. IrTotal - 1
         /\ \A m \in 1 .. IrBits : IrPre + m <= i => sr[IrTotal - i + IrPre + m] = reg[m]
    /\ line = "update" =>
         /\ sr \in Seq(Bit) /\ Len(sr) = IrTotal
         /\ \A m \in 1 .. IrBits : sr[IrPre + m] = reg[m]
    /\ line \in {"idle", "rest"} => ir = reg

CachedInv == trusted /\ reg # NoReg /\ dtmPc # "ir" => ir = reg

IInv == ScanInv /\ StepInv /\ ShiftInv /\ CachedInv

-----------------------------------------------------------------------------
(***************************************************************************)
(* Instructions and the TAP.                                               *)
(***************************************************************************)
LEMMA InstructionType ==
  ASSUME NEW r \in Instructions
  PROVE  r \in Seq(Bit) /\ Len(r) = IrBits /\ r # NoReg /\ \A m \in 1 .. IrBits : r[m] \in Bit
<1> USE DEF IrBits, Bit, NoReg
<1>1. CASE r = IDCODE
  BY <1>1 DEF IDCODE
<1>2. CASE r = DTMCS
  BY <1>2 DEF DTMCS
<1>3. CASE r = DMI
  BY <1>3 DEF DMI
<1> QED
  BY <1>1, <1>2, <1>3 DEF Instructions

LEMMA InstructionOf ==
  ASSUME NEW f
  PROVE  Instruction(f) \in Instructions
BY DEF Instruction, Instructions

LEMMA TapNextType ==
  ASSUME tap \in TapStates, NEW tms
  PROVE  TapNext(tms) \in TapStates
BY DEF TapNext, TapStates, WhenLow, WhenHigh

\* Five ticks with TMS high reset the TAP, wherever it was.
LEMMA HighResets ==
  ASSUME NEW k \in 0 .. 5, tap \in AfterHigh(k)
  PROVE  TapNext(1) \in AfterHigh(k + 1)
<1> USE DEF TapNext, WhenHigh, AfterHigh
<1>1. CASE k = 0
  BY <1>1 DEF TapStates, WhenLow
<1>2. CASE k = 1
  BY <1>2
<1>3. CASE k = 2
  BY <1>3
<1>4. CASE k = 3
  BY <1>4
<1>5. CASE k = 4
  BY <1>5
<1>6. CASE k = 5
  BY <1>6
<1> QED
  BY <1>1, <1>2, <1>3, <1>4, <1>5, <1>6

-----------------------------------------------------------------------------
(***************************************************************************)
(* The calls of tap.c begin.                                               *)
(***************************************************************************)
LEMMA BeginScanKeeps ==
  ASSUME IInv, NEW f, NEW bits, BeginScan(f, bits), trusted' = trusted
  PROVE  IInv'
<1>0. /\ dtmPc = "rest" /\ line = "rest" /\ line' = "select_dr" /\ i' = 0
      /\ reg' = Instruction(f)
      /\ tap' = tap /\ ir' = ir /\ sr' = sr
      /\ \/ reg # reg' /\ dtmPc' = "ir" /\ which' = "ir" /\ new' = reg'
         \/ reg = reg' /\ dtmPc' = "dr" /\ which' = "dr"
  BY DEF BeginScan, BeginShift, targetVars
<1>1. reg' \in Instructions /\ reg' # NoReg
  BY <1>0, InstructionOf, InstructionType
<1>2. ScanInv'
  BY <1>0, <1>1 DEF IInv, ScanInv, Lines
<1>3. StepInv'
  BY <1>0 DEF IInv, StepInv, TapAt
<1>4. ShiftInv'
  BY <1>0 DEF ShiftInv
<1>5. CachedInv'
  BY <1>0, <1>1 DEF IInv, CachedInv
<1> QED
  BY <1>2, <1>3, <1>4, <1>5 DEF IInv

LEMMA BeginInitKeeps ==
  ASSUME IInv, BeginInit
  PROVE  IInv'
<1>0. /\ dtmPc' = "run" /\ reg' = NoReg /\ line' = "go_idle" /\ i' = 0 /\ limit' = 6
      /\ which' = which /\ new' = new /\ tap' = tap /\ ir' = ir /\ sr' = sr
  BY DEF BeginInit, BeginGoIdle, targetVars
<1>1. ScanInv'
  BY <1>0 DEF IInv, ScanInv, Lines
<1>2. StepInv'
  BY <1>0 DEF IInv, ScanInv, StepInv, TapAt, AfterHigh
<1> QED
  BY <1>0, <1>1, <1>2 DEF IInv, ShiftInv, CachedInv

LEMMA BeginIdleKeeps ==
  ASSUME IInv, NEW ticks, BeginIdle(ticks), trusted' = trusted
  PROVE  IInv'
<1>0. /\ dtmPc = "rest" /\ dtmPc' = "run" /\ line = "rest" /\ line' = "run"
      /\ reg' = reg /\ which' = which /\ new' = new /\ tap' = tap /\ ir' = ir /\ sr' = sr
  BY DEF BeginIdle, BeginRun, targetVars
<1> QED
  BY <1>0 DEF IInv, ScanInv, StepInv, ShiftInv, CachedInv, TapAt, Lines

-----------------------------------------------------------------------------
(***************************************************************************)
(* The ticks.                                                              *)
(***************************************************************************)
\* Before the target is trusted nothing is claimed but the order of the calls.
LEMMA Untrusted ==
  ASSUME ScanInv', ~ trusted'
  PROVE  IInv'
BY DEF IInv, StepInv, ShiftInv, CachedInv

LEMMA TickSelectDrKeeps ==
  ASSUME IInv, TickSelectDr, UNCHANGED <<dtmVars, trusted>>
  PROVE  IInv'
<1>0. /\ line = "select_dr" /\ line' = IF which = "ir" THEN "select_ir" ELSE "capture"
      /\ which' = which /\ i' = i /\ limit' = limit /\ new' = new
      /\ tap' = TapNext(1)
      /\ dtmPc' = dtmPc /\ reg' = reg /\ trusted' = trusted
  BY DEF TickSelectDr, Tick, Edge, dtmVars
<1>1. ScanInv'
  <2>1. tap' \in TapStates
    BY <1>0, TapNextType DEF IInv, ScanInv
  <2> QED
    BY <1>0, <2>1 DEF IInv, ScanInv, Lines
<1>2. CASE ~ trusted
  BY <1>0, <1>1, <1>2, Untrusted
<1>3. CASE trusted
  <2>1. tap = "RunTestIdle" /\ tap' = "SelectDR"
    BY <1>0, <1>3 DEF IInv, ScanInv, StepInv, TapAt, TapNext, WhenHigh, WhenLow
  <2>2. StepInv'
    BY <1>0, <2>1 DEF IInv, ScanInv, StepInv, TapAt
  <2>3. ir' = ir
    BY <2>1 DEF TickSelectDr, Tick, Edge
  <2>4. ShiftInv' /\ CachedInv'
    BY <1>0, <2>3 DEF IInv, ScanInv, ShiftInv, CachedInv
  <2> QED
    BY <1>1, <2>2, <2>4 DEF IInv
<1> QED
  BY <1>2, <1>3

LEMMA TickSelectIrKeeps ==
  ASSUME IInv, TickSelectIr, UNCHANGED <<dtmVars, trusted>>
  PROVE  IInv'
<1>0. /\ line = "select_ir" /\ line' = "capture"
      /\ which' = which /\ i' = i /\ limit' = limit /\ new' = new
      /\ tap' = TapNext(1)
      /\ dtmPc' = dtmPc /\ reg' = reg /\ trusted' = trusted
  BY DEF TickSelectIr, Tick, Edge, dtmVars
<1>1. ScanInv'
  <2>1. tap' \in TapStates
    BY <1>0, TapNextType DEF IInv, ScanInv
  <2> QED
    BY <1>0, <2>1 DEF IInv, ScanInv, Lines
<1>2. CASE ~ trusted
  BY <1>0, <1>1, <1>2, Untrusted
<1>3. CASE trusted
  <2>1. tap = "SelectDR" /\ tap' = "SelectIR"
    BY <1>0, <1>3 DEF IInv, ScanInv, StepInv, TapAt, TapNext, WhenHigh, WhenLow
  <2>2. StepInv'
    BY <1>0, <2>1 DEF IInv, ScanInv, StepInv, TapAt
  <2>3. ir' = ir
    BY <2>1 DEF TickSelectIr, Tick, Edge
  <2>4. ShiftInv' /\ CachedInv'
    BY <1>0, <2>3 DEF IInv, ScanInv, ShiftInv, CachedInv
  <2> QED
    BY <1>1, <2>2, <2>4 DEF IInv
<1> QED
  BY <1>2, <1>3

LEMMA TickCaptureKeeps ==
  ASSUME IInv, TickCapture, UNCHANGED <<dtmVars, trusted>>
  PROVE  IInv'
<1>0. /\ line = "capture" /\ line' = "enter"
      /\ which' = which /\ i' = i /\ limit' = limit /\ new' = new
      /\ tap' = TapNext(0)
      /\ dtmPc' = dtmPc /\ reg' = reg /\ trusted' = trusted
  BY DEF TickCapture, Tick, Edge, dtmVars
<1>1. ScanInv'
  <2>1. tap' \in TapStates
    BY <1>0, TapNextType DEF IInv, ScanInv
  <2> QED
    BY <1>0, <2>1 DEF IInv, ScanInv, Lines
<1>2. CASE ~ trusted
  BY <1>0, <1>1, <1>2, Untrusted
<1>3. CASE trusted
  <2>1. \/ which = "ir" /\ tap = "SelectIR" /\ tap' = "CaptureIR"
        \/ which = "dr" /\ tap = "SelectDR" /\ tap' = "CaptureDR"
    BY <1>0, <1>3 DEF IInv, ScanInv, StepInv, TapAt, TapNext, WhenHigh, WhenLow
  <2>2. StepInv'
    BY <1>0, <2>1 DEF IInv, ScanInv, StepInv, TapAt
  <2>3. ir' = ir
    BY <2>1 DEF TickCapture, Tick, Edge
  <2>4. ShiftInv' /\ CachedInv'
    BY <1>0, <2>3 DEF IInv, ScanInv, ShiftInv, CachedInv
  <2> QED
    BY <1>1, <2>2, <2>4 DEF IInv
<1> QED
  BY <1>2, <1>3

LEMMA TickEnterKeeps ==
  ASSUME IInv, TickEnter, UNCHANGED <<dtmVars, trusted>>
  PROVE  IInv'
<1>0. /\ line = "enter" /\ line' = "shift"
      /\ which' = which /\ i' = i /\ limit' = limit /\ new' = new
      /\ tap' = TapNext(0)
      /\ dtmPc' = dtmPc /\ reg' = reg /\ trusted' = trusted
  BY DEF TickEnter, Tick, Edge, dtmVars
<1>1. ScanInv'
  <2>1. tap' \in TapStates
    BY <1>0, TapNextType DEF IInv, ScanInv
  <2> QED
    BY <1>0, <2>1 DEF IInv, ScanInv, Lines
<1>2. CASE ~ trusted
  BY <1>0, <1>1, <1>2, Untrusted
<1>3. CASE trusted
  <2>1. \/ which = "ir" /\ tap = "CaptureIR" /\ tap' = "ShiftIR"
        \/ which = "dr" /\ tap = "CaptureDR" /\ tap' = "ShiftDR"
    BY <1>0, <1>3 DEF IInv, ScanInv, StepInv, TapAt, TapNext, WhenHigh, WhenLow
  <2>2. StepInv'
    BY <1>0, <2>1 DEF IInv, ScanInv, StepInv, TapAt
  <2>3. ir' = ir
    BY <2>1 DEF TickEnter, Tick, Edge
  <2>4. ShiftInv'
    <3> SUFFICES ASSUME dtmPc = "ir"
                 PROVE  /\ sr' \in Seq(Bit) /\ Len(sr') = IrTotal /\ i \in 0 .. IrTotal - 1
                        /\ \A m \in 1 .. IrBits : ~ (IrPre + m <= i)
      BY <1>0 DEF ShiftInv
    <3>1. which = "ir" /\ i = 0
      BY <1>0 DEF IInv, ScanInv
    <3>2. sr' = Captured(IrPre) \o Captured(IrBits) \o Captured(IrPost)
      BY <2>1, <3>1 DEF TickEnter, Tick, Edge, ShiftRegister
    <3>3. \A k \in Nat : Captured(k) \in Seq(Bit) /\ Len(Captured(k)) = k
      BY DEF Captured, Bit
    <3>4. IrPre \in Nat /\ IrBits \in Nat /\ IrBits > 0 /\ IrPost \in Nat
      BY ChainAssumption DEF IrBits
    <3>5. sr' \in Seq(Bit) /\ Len(sr') = IrTotal
      <4> DEFINE a == Captured(IrPre)
                 b == Captured(IrBits)
                 c == Captured(IrPost)
      <4>1. /\ a \in Seq(Bit) /\ b \in Seq(Bit) /\ c \in Seq(Bit)
            /\ Len(a) = IrPre /\ Len(b) = IrBits /\ Len(c) = IrPost
        BY <3>3, <3>4, Zenon
      <4>2. sr' = a \o b \o c
        BY <3>2
      <4> HIDE DEF a, b, c
      <4>3. a \o b \in Seq(Bit) /\ Len(a \o b) = Len(a) + Len(b)
        BY <4>1, ConcatProperties, Zenon
      <4>4. (a \o b) \o c \in Seq(Bit) /\ Len((a \o b) \o c) = Len(a \o b) + Len(c)
        BY <4>1, <4>3, ConcatProperties, Zenon
      <4>5. Len(sr') = IrPre + IrBits + IrPost
        BY <3>4, <4>1, <4>2, <4>3, <4>4
      <4> QED
        BY <4>2, <4>4, <4>5 DEF IrTotal
    <3> QED
      BY <3>1, <3>4, <3>5 DEF IrTotal
  <2>5. CachedInv'
    BY <1>0, <2>3 DEF IInv, CachedInv
  <2> QED
    BY <1>1, <2>2, <2>4, <2>5 DEF IInv
<1> QED
  BY <1>2, <1>3

LEMMA TickUpdateKeeps ==
  ASSUME IInv, TickUpdate, UNCHANGED <<dtmVars, trusted>>
  PROVE  IInv'
<1>0. /\ line = "update" /\ line' = "idle"
      /\ which' = which /\ i' = i /\ limit' = limit /\ new' = new
      /\ tap' = TapNext(1)
      /\ dtmPc' = dtmPc /\ reg' = reg /\ trusted' = trusted
  BY DEF TickUpdate, Tick, Edge, dtmVars
<1>1. ScanInv'
  <2>1. tap' \in TapStates
    BY <1>0, TapNextType DEF IInv, ScanInv
  <2> QED
    BY <1>0, <2>1 DEF IInv, ScanInv, Lines
<1>2. CASE ~ trusted
  BY <1>0, <1>1, <1>2, Untrusted
<1>3. CASE trusted
  <2>1. \/ which = "ir" /\ tap = "Exit1IR" /\ tap' = "UpdateIR"
        \/ which = "dr" /\ tap = "Exit1DR" /\ tap' = "UpdateDR"
    BY <1>0, <1>3 DEF IInv, ScanInv, StepInv, TapAt, TapNext, WhenHigh, WhenLow
  <2>2. StepInv'
    BY <1>0, <2>1 DEF IInv, ScanInv, StepInv, TapAt
  <2>3. CASE dtmPc = "ir"
    <3>1. which = "ir" /\ reg \in Instructions
      BY <1>0, <2>3 DEF IInv, ScanInv
    <3>2. ir' = Ours(IrPre, IrBits)
      BY <2>1, <3>1 DEF TickUpdate, Tick, Edge
    <3>3. /\ sr \in Seq(Bit) /\ Len(sr) = IrTotal
          /\ \A m \in 1 .. IrBits : sr[IrPre + m] = reg[m]
      BY <1>0, <1>3, <2>3 DEF IInv, ShiftInv
    <3>4. IrPre \in Nat /\ IrBits \in Nat /\ IrPost \in Nat
      BY ChainAssumption DEF IrBits
    <3>5. ir' \in Seq(Bit) /\ Len(ir') = IrBits /\ \A m \in 1 .. IrBits : ir'[m] = sr[IrPre + m]
      BY <3>2, <3>3, <3>4 DEF Ours, IrTotal
    <3>6. reg \in Seq(Bit) /\ Len(reg) = IrBits
      BY <3>1, InstructionType
    <3>7. ir' = reg
      BY <3>3, <3>5, <3>6, SeqEqual
    <3> QED
      BY <1>0, <1>1, <2>2, <2>3, <3>7 DEF IInv, ShiftInv, CachedInv
  <2>4. CASE dtmPc # "ir"
    <3>1. dtmPc = "dr" \/ reg = NoReg
      BY <1>0, <2>4 DEF IInv, ScanInv
    <3>2. dtmPc = "dr" => ir' = ir
      BY <1>0, <2>1 DEF TickUpdate, Tick, Edge, IInv, ScanInv
    <3> QED
      BY <1>0, <1>1, <2>2, <2>4, <3>1, <3>2 DEF IInv, ShiftInv, CachedInv
  <2> QED
    BY <2>3, <2>4
<1> QED
  BY <1>2, <1>3

LEMMA TickIdleKeeps ==
  ASSUME IInv, TickIdle, UNCHANGED <<dtmVars, trusted>>
  PROVE  IInv'
<1>0. /\ line = "idle" /\ line' = "rest"
      /\ which' = which /\ i' = i /\ limit' = limit /\ new' = new
      /\ tap' = TapNext(0)
      /\ dtmPc' = dtmPc /\ reg' = reg /\ trusted' = trusted
  BY DEF TickIdle, Tick, Edge, dtmVars
<1>1. ScanInv'
  <2>1. tap' \in TapStates
    BY <1>0, TapNextType DEF IInv, ScanInv
  <2> QED
    BY <1>0, <2>1 DEF IInv, ScanInv, Lines
<1>2. CASE ~ trusted
  BY <1>0, <1>1, <1>2, Untrusted
<1>3. CASE trusted
  <2>1. \/ which = "ir" /\ tap = "UpdateIR" /\ tap' = "RunTestIdle"
        \/ which = "dr" /\ tap = "UpdateDR" /\ tap' = "RunTestIdle"
    BY <1>0, <1>3 DEF IInv, ScanInv, StepInv, TapAt, TapNext, WhenHigh, WhenLow
  <2>2. StepInv'
    BY <1>0, <2>1 DEF IInv, ScanInv, StepInv, TapAt
  <2>3. ir' = ir
    BY <2>1 DEF TickIdle, Tick, Edge
  <2>4. ShiftInv' /\ CachedInv'
    BY <1>0, <2>3 DEF IInv, ScanInv, ShiftInv, CachedInv
  <2> QED
    BY <1>1, <2>2, <2>4 DEF IInv
<1> QED
  BY <1>2, <1>3

LEMMA TickGoIdleKeeps ==
  ASSUME IInv, TickGoIdle, UNCHANGED <<dtmVars, trusted>>
  PROVE  IInv'
<1>0. /\ line = "go_idle" /\ which' = which /\ limit' = limit /\ new' = new
      /\ dtmPc' = dtmPc /\ reg' = reg /\ trusted' = trusted
      /\ limit = 6 /\ i \in 0 .. 6 /\ dtmPc = "run" /\ reg = NoReg /\ tap \in TapStates
  BY DEF TickGoIdle, dtmVars, IInv, ScanInv
<1>1. ShiftInv' /\ CachedInv'
  BY <1>0 DEF ShiftInv, CachedInv
<1>2. CASE i < limit
  <2>1. i' = i + 1 /\ tap' = TapNext(1) /\ line' = line
    BY <1>2 DEF TickGoIdle, Edge
  <2>2. i \in 0 .. 5 /\ tap' \in TapStates
    BY <1>0, <1>2, <2>1, TapNextType
  <2>3. ScanInv'
    BY <1>0, <2>1, <2>2 DEF IInv, ScanInv
  <2>4. trusted => tap' \in AfterHigh(i + 1)
    BY <1>0, <2>1, <2>2, HighResets DEF IInv, StepInv
  <2>5. StepInv'
    BY <1>0, <2>1, <2>2, <2>4 DEF StepInv, TapAt
  <2> QED
    BY <1>1, <2>3, <2>5 DEF IInv
<1>3. CASE ~ i < limit
  <2>1. line' = "rest" /\ i' = i /\ tap' = TapNext(0) /\ i = 6
    BY <1>0, <1>3 DEF TickGoIdle, Edge
  <2>2. ScanInv'
    <3>1. tap' \in TapStates
      BY <1>0, <2>1, TapNextType
    <3> QED
      BY <1>0, <2>1, <3>1 DEF IInv, ScanInv, Lines
  <2>3. trusted => tap' = "RunTestIdle"
    BY <1>0, <2>1 DEF IInv, StepInv, AfterHigh, TapNext, WhenLow
  <2>4. StepInv'
    BY <1>0, <2>1, <2>3 DEF StepInv, TapAt
  <2> QED
    BY <1>1, <2>2, <2>4 DEF IInv
<1> QED
  BY <1>2, <1>3

LEMMA TickRunKeeps ==
  ASSUME IInv, TickRun, UNCHANGED <<dtmVars, trusted>>
  PROVE  IInv'
<1>0. /\ line = "run" /\ line' \in {"run", "rest"} /\ which' = which /\ limit' = limit /\ new' = new
      /\ dtmPc' = dtmPc /\ reg' = reg /\ trusted' = trusted
      /\ \/ tap' = TapNext(0) /\ Edge(0, 1)
         \/ tap' = tap /\ ir' = ir
  BY DEF TickRun, Edge, dtmVars, targetVars
<1>1. ScanInv'
  <2>1. tap' \in TapStates
    BY <1>0, TapNextType DEF IInv, ScanInv
  <2> QED
    BY <1>0, <2>1 DEF IInv, ScanInv, Lines
<1>2. CASE ~ trusted
  BY <1>0, <1>1, <1>2, Untrusted
<1>3. CASE trusted
  <2>1. tap = "RunTestIdle" /\ tap' = "RunTestIdle"
    BY <1>0, <1>3 DEF IInv, StepInv, TapAt, TapNext, WhenLow
  <2>2. ir' = ir
    BY <1>0, <2>1 DEF Edge
  <2>3. dtmPc # "ir"
    BY <1>0 DEF IInv, ScanInv
  <2> QED
    BY <1>0, <1>1, <2>1, <2>2, <2>3 DEF IInv, StepInv, TapAt, ShiftInv, CachedInv
<1> QED
  BY <1>2, <1>3

-----------------------------------------------------------------------------
(***************************************************************************)
(* A bit is shifted.                                                       *)
(***************************************************************************)
LEMMA ShiftKeeps ==
  ASSUME IInv, ShiftLoop, NEW tdi, Edge(LeaveShift, tdi), UNCHANGED <<dtmVars, trusted>>,
         dtmPc = "ir" => tdi \in Bit,
         dtmPc = "ir" /\ trusted =>
           \A m \in 1 .. IrBits : i + 1 = IrPre + m => tdi = reg[m]
  PROVE  IInv'
<1>0. /\ line = "shift" /\ line' = IF LastTick THEN "update" ELSE "shift"
      /\ which' = which /\ i' = i + 1 /\ new' = new
      /\ tap' = TapNext(LeaveShift) /\ LeaveShift = IF LastTick THEN 1 ELSE 0
      /\ dtmPc' = dtmPc /\ reg' = reg /\ trusted' = trusted
  BY DEF ShiftLoop, Edge, dtmVars, LeaveShift
<1>1. ScanInv'
  <2>1. tap' \in TapStates
    BY <1>0, TapNextType DEF IInv, ScanInv
  <2> QED
    BY <1>0, <2>1 DEF IInv, ScanInv, Lines
<1>2. CASE ~ trusted
  BY <1>0, <1>1, <1>2, Untrusted
<1>3. CASE trusted
  <2>1. \/ which = "ir" /\ tap = "ShiftIR" /\ tap' = IF LastTick THEN "Exit1IR" ELSE "ShiftIR"
        \/ which = "dr" /\ tap = "ShiftDR" /\ tap' = IF LastTick THEN "Exit1DR" ELSE "ShiftDR"
    BY <1>0, <1>3 DEF IInv, ScanInv, StepInv, TapAt, TapNext, WhenHigh, WhenLow
  <2>2. StepInv'
    BY <1>0, <2>1 DEF IInv, ScanInv, StepInv, TapAt
  <2>3. ir' = ir
    BY <2>1 DEF Edge
  <2>4. CachedInv'
    BY <1>0, <2>3 DEF IInv, CachedInv
  <2>5. ShiftInv'
    <3> SUFFICES ASSUME dtmPc = "ir"
                 PROVE  ShiftInv'
      BY <1>0 DEF ShiftInv
    <3>1. which = "ir" /\ new = reg /\ reg \in Instructions
      BY <1>0 DEF IInv, ScanInv
    <3>2. IrPre \in Nat /\ IrBits \in Nat /\ IrPost \in Nat
      BY ChainAssumption DEF IrBits
    <3>3. LastTick <=> i = IrTotal - 1
      BY <3>1, <3>2, InstructionType DEF LastTick, Pre, Post, IrTotal
    <3>4. /\ sr \in Seq(Bit) /\ Len(sr) = IrTotal /\ i \in 0 .. IrTotal - 1
          /\ \A m \in 1 .. IrBits : IrPre + m <= i => sr[IrTotal - i + IrPre + m] = reg[m]
      BY <1>0, <1>3 DEF IInv, ShiftInv
    <3>5. sr' = Append(Tail(sr), tdi) /\ tdi \in Bit
      BY <2>1, <3>1 DEF Edge, ShiftRegister
    <3>6. IrTotal \in Nat
      BY <3>2 DEF IrTotal
    <3>7. /\ sr' \in Seq(Bit) /\ Len(sr') = IrTotal
          /\ \A k \in 1 .. IrTotal - 1 : sr'[k] = sr[k + 1]
          /\ sr'[IrTotal] = tdi
      BY <3>4, <3>5, <3>6
    <3>8. \A m \in 1 .. IrBits : IrPre + m <= i + 1 => sr'[IrTotal - (i + 1) + IrPre + m] = reg[m]
      <4> SUFFICES ASSUME NEW m \in 1 .. IrBits, IrPre + m <= i + 1
                   PROVE  sr'[IrTotal - (i + 1) + IrPre + m] = reg[m]
        OBVIOUS
      <4>1. CASE IrPre + m = i + 1
        <5>1. IrTotal - (i + 1) + IrPre + m = IrTotal
          BY <3>2, <3>4, <3>6, <4>1
        <5> QED
          BY <1>3, <3>7, <4>1, <5>1
      <4>2. CASE IrPre + m <= i
        <5>1. /\ IrTotal - (i + 1) + IrPre + m \in 1 .. IrTotal - 1
              /\ IrTotal - (i + 1) + IrPre + m + 1 = IrTotal - i + IrPre + m
          BY <3>2, <3>4, <3>6, <4>2
        <5> QED
          BY <3>4, <3>7, <4>2, <5>1
      <4> QED
        BY <3>2, <3>4, <4>1, <4>2
    <3>9. CASE LastTick
      <4>1. i + 1 = IrTotal
        BY <3>3, <3>6, <3>9
      <4>2. \A m \in 1 .. IrBits : sr'[IrPre + m] = reg[m]
        <5> SUFFICES ASSUME NEW m \in 1 .. IrBits
                     PROVE  sr'[IrPre + m] = reg[m]
          OBVIOUS
        <5>1. IrPre + m <= i + 1 /\ IrTotal - (i + 1) + IrPre + m = IrPre + m
          BY <3>2, <4>1 DEF IrTotal
        <5> QED
          BY <3>8, <5>1
      <4> QED
        BY <1>0, <3>7, <3>9, <4>2 DEF ShiftInv
    <3>10. CASE ~ LastTick
      <4>1. i + 1 \in 0 .. IrTotal - 1
        BY <3>3, <3>4, <3>6, <3>10
      <4> QED
        BY <1>0, <3>7, <3>8, <3>10, <4>1 DEF ShiftInv
    <3> QED
      BY <3>9, <3>10
  <2> QED
    BY <1>1, <2>2, <2>4, <2>5 DEF IInv
<1> QED
  BY <1>2, <1>3

LEMMA TickBypassKeeps ==
  ASSUME IInv, TickBypass, UNCHANGED <<dtmVars, trusted>>
  PROVE  IInv'
<1>1. ShiftLoop /\ Edge(LeaveShift, 1) /\ (i < Pre \/ i >= Pre + Len(new))
  BY DEF TickBypass
<1>2. ASSUME dtmPc = "ir", trusted, NEW m \in 1 .. IrBits, i + 1 = IrPre + m
      PROVE  FALSE
  <2>1. which = "ir" /\ new = reg /\ reg \in Instructions /\ line = "shift"
    BY <1>1, <1>2 DEF ShiftLoop, IInv, ScanInv
  <2>2. Pre = IrPre /\ Len(new) = IrBits
    BY <2>1, InstructionType DEF Pre
  <2>3. i \in Int
    BY <1>2, <2>1 DEF IInv, ShiftInv
  <2> QED
    BY <1>1, <1>2, <2>2, <2>3, ChainAssumption DEF IrBits
<1> QED
  BY <1>1, <1>2, ShiftKeeps DEF Bit

LEMMA TickBitKeeps ==
  ASSUME IInv, TickBit, UNCHANGED <<dtmVars, trusted>>
  PROVE  IInv'
<1>1. ShiftLoop /\ Edge(LeaveShift, new[i - Pre + 1]) /\ i >= Pre /\ i < Pre + Len(new)
  BY DEF TickBit
<1>2. CASE ~ trusted
  <2>1. ScanInv'
    <3>1. /\ line = "shift" /\ line' \in {"update", "shift"}
          /\ which' = which /\ new' = new /\ tap' = TapNext(LeaveShift)
          /\ dtmPc' = dtmPc /\ reg' = reg
      BY <1>1 DEF ShiftLoop, Edge, dtmVars
    <3>2. tap' \in TapStates
      BY <3>1, TapNextType DEF IInv, ScanInv
    <3> QED
      BY <3>1, <3>2 DEF IInv, ScanInv, Lines
  <2> QED
    BY <1>2, <2>1, Untrusted
<1>3. CASE trusted
  <2>1. ASSUME dtmPc = "ir"
        PROVE  /\ new[i - Pre + 1] \in Bit
               /\ \A m \in 1 .. IrBits : i + 1 = IrPre + m => new[i - Pre + 1] = reg[m]
    <3>1. which = "ir" /\ new = reg /\ reg \in Instructions /\ line = "shift"
      BY <1>1, <2>1 DEF ShiftLoop, IInv, ScanInv
    <3>2. Pre = IrPre /\ Len(new) = IrBits
      BY <3>1, InstructionType DEF Pre
    <3>3. i \in Int
      BY <1>3, <2>1, <3>1 DEF IInv, ShiftInv
    <3>4. i - Pre + 1 \in 1 .. IrBits /\ \A m \in 1 .. IrBits : i + 1 = IrPre + m => i - Pre + 1 = m
      BY <1>1, <3>2, <3>3, ChainAssumption DEF IrBits
    <3> QED
      BY <3>1, <3>4, InstructionType
  <2> QED
    BY <1>1, <2>1, ShiftKeeps
<1> QED
  BY <1>2, <1>3

-----------------------------------------------------------------------------
(***************************************************************************)
(* All steps, and the theorems.                                            *)
(***************************************************************************)
LEMMA TapTickKeeps ==
  ASSUME IInv, TapTick, UNCHANGED <<dtmVars, trusted>>
  PROVE  IInv'
BY TickSelectDrKeeps, TickSelectIrKeeps, TickCaptureKeeps, TickEnterKeeps, TickBypassKeeps,
   TickBitKeeps, TickUpdateKeeps, TickIdleKeeps, TickGoIdleKeeps, TickRunKeeps DEF TapTick

LEMMA DtmStepKeeps ==
  ASSUME IInv, DtmStep, trusted' = trusted
  PROVE  IInv'
<1>1. CASE TapTick /\ UNCHANGED dtmVars
  BY <1>1, TapTickKeeps
<1>2. CASE Selected
  <2>1. /\ dtmPc = "ir" /\ dtmPc' = "dr" /\ line = "rest" /\ line' = "select_dr" /\ which' = "dr"
        /\ reg' = reg /\ tap' = tap /\ ir' = ir
    BY <1>2 DEF Selected, BeginShift, targetVars
  <2> QED
    BY <2>1 DEF IInv, ScanInv, StepInv, ShiftInv, CachedInv, TapAt, Lines
<1>3. CASE ScannedWait
  <2>1. /\ dtmPc = "dr" /\ dtmPc' = "run" /\ line = "rest" /\ line' = "run"
        /\ reg' = reg /\ which' = which /\ new' = new /\ tap' = tap /\ ir' = ir
    BY <1>3 DEF ScannedWait, BeginRun, targetVars
  <2> QED
    BY <2>1 DEF IInv, ScanInv, StepInv, ShiftInv, CachedInv, TapAt, Lines
<1>4. CASE Scanned \/ Waited
  <2>1. /\ dtmPc \in {"dr", "run"} /\ dtmPc' = "rest" /\ line = "rest" /\ line' = line
        /\ reg' = reg /\ which' = which /\ new' = new /\ i' = i /\ limit' = limit
        /\ tap' = tap /\ ir' = ir
    BY <1>4 DEF Scanned, Waited, targetVars, tapVars
  <2> QED
    BY <2>1 DEF IInv, ScanInv, StepInv, ShiftInv, CachedInv, TapAt, Lines
<1> QED
  BY <1>1, <1>2, <1>3, <1>4 DEF DtmStep

\* The target goes on by itself: it does not touch the TAP.
LEMMA QuietKeeps ==
  ASSUME IInv, UNCHANGED <<tap, ir, sr, tapVars, dtmVars, trusted>>
  PROVE  IInv'
BY DEF tapVars, dtmVars, IInv, ScanInv, StepInv, TapAt, ShiftInv, CachedInv

LEMMA HostKeeps ==
  ASSUME IInv, Host
  PROVE  IInv'
<1>1. CASE DtmStep /\ UNCHANGED <<callVars, trusted, cycles>>
  BY <1>1, DtmStepKeeps
<1>2. ASSUME NEW f, NEW bits, BeginScan(f, bits), Keep
      PROVE  IInv'
  BY <1>2, BeginScanKeeps DEF Keep
<1>3. CASE InitIdcode \/ InitDtmcs \/ OpNext \/ OpLast \/ ReadAgain \/ ReadGivesUp \/ NotOk
  BY <1>2, <1>3, Zenon DEF InitIdcode, InitDtmcs, OpNext, OpLast, ReadAgain, ReadGivesUp, NotOk,
                           Reset, Nop, Scan
<1>4. CASE ReadBusy
  BY <1>4, BeginIdleKeeps DEF ReadBusy, Keep
<1>5. CASE ReturnDone \/ ReturnFailed \/ ReturnNone
  BY <1>5, QuietKeeps DEF ReturnDone, ReturnFailed, ReturnNone, Return, targetVars
<1> QED
  BY <1>1, <1>3, <1>4, <1>5 DEF Host

LEMMA StepKeeps == IInv /\ [Next]_vars => IInv'
<1> SUFFICES ASSUME IInv, [Next]_vars
             PROVE  IInv'
  OBVIOUS
<1>1. ASSUME NEW k, k # "connect", NEW accesses, Call(k, accesses), NEW f, NEW bits, BeginScan(f, bits)
      PROVE  IInv'
  BY <1>1, BeginScanKeeps DEF Call
<1>2. CASE CallNop \/ CallRead \/ CallWrite \/ CallReadVector \/ CallWriteVector
  <2>1. "nop" # "connect" /\ "read" # "connect" /\ "write" # "connect"
        /\ "read_vector" # "connect" /\ "write_vector" # "connect"
    OBVIOUS
  <2> QED
    BY <1>1, <1>2, <2>1, Zenon DEF CallNop, CallRead, CallWrite, CallReadVector, CallWriteVector,
                                   CallAccess, Nop, Scan
<1>3. CASE Connect
  BY <1>3, BeginInitKeeps DEF Connect
<1>4. CASE Host
  BY <1>4, HostKeeps
<1>5. CASE AccessDone \/ AccessFails
  BY <1>5, QuietKeeps DEF AccessDone, AccessFails, RequestDone, RequestFails
<1>6. CASE LosePower
  <2>1. /\ line = "rest" /\ tap' = "TestLogicReset" /\ trusted' = FALSE
        /\ UNCHANGED <<tapVars, dtmVars>>
    BY <1>6 DEF LosePower, PowerCycle
  <2>2. ScanInv'
    BY <2>1 DEF tapVars, dtmVars, IInv, ScanInv, TapStates, WhenLow
  <2> QED
    BY <2>1, <2>2, Untrusted
<1>7. CASE UNCHANGED vars
  BY <1>7, QuietKeeps DEF vars, targetVars
<1> QED
  BY <1>2, <1>3, <1>4, <1>5, <1>6, <1>7 DEF Next

LEMMA InitHolds == Init => IInv
BY DEF Init, TargetInit, TapInit, DtmInit, IInv, ScanInv, StepInv, ShiftInv, CachedInv,
       Lines, TapStates, WhenLow

\* At every moment of every scan the code knows where the TAP is, how far the
\* instruction has been shifted in, and which instruction is selected.
THEOREM ScanInvariant == Spec => []IInv
BY InitHolds, StepKeeps, PTL DEF Spec

\* Every tick of tap.c finds the TAP in the state its comment names, however
\* many devices the chain has before and behind the target.
THEOREM StaysInStep == Spec => []InStep
<1>1. IInv => InStep
  BY DEF IInv, StepInv, InStep
<1> QED
  BY <1>1, ScanInvariant, PTL

\* last_jtag_reg is the instruction that the TAP executes: the instruction scan
\* that dtm.c leaves out was not needed.
THEOREM InstructionIsSelected == Spec => []CachedInstruction
<1>1. IInv => CachedInstruction
  BY DEF IInv, CachedInv, CachedInstruction
<1> QED
  BY <1>1, ScanInvariant, PTL
=============================================================================

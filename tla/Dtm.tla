-------------------------------- MODULE Dtm --------------------------------
(***************************************************************************)
(* dtm.c: which register a scan goes to.  The instruction that was shifted *)
(* in last is cached, and the instruction scan is left out when the next   *)
(* one is the same.  A function yields nowhere                             *)
(* (RVL_TARGET_CONFIG_DTM_YIELD_EN is not defined).                        *)
(***************************************************************************)
EXTENDS Tap

VARIABLES
  dtmPc,        \* rest, ir, dr or run: the call of tap.c that is under way
  fn,           \* the function: dmi, dmireset, dtmcs, idcode or run
  in,           \* what it shifts into the data register
  reg,          \* last_jtag_reg
  idle          \* the ticks to stay in Run-Test/Idle after an access

dtmVars == <<dtmPc, fn, in, reg, idle>>

NoReg == <<>>

DtmInit == dtmPc = "rest" /\ fn = "run" /\ in = <<>> /\ reg = NoReg /\ idle = 0

Instruction(f) ==
  CASE f = "dmi" -> DMI [] f = "idcode" -> IDCODE [] OTHER -> DTMCS

\* rvl_dtm_init
BeginInit ==
  /\ dtmPc = "rest"
  /\ dtmPc' = "run" /\ fn' = "run"
  /\ reg' = NoReg
  /\ BeginGoIdle
  /\ UNCHANGED <<in, idle, targetVars>>

\* Mutation: the instruction is scanned only when nothing was selected before.
BeginScanCached(f, bits) ==
  /\ dtmPc = "rest"
  /\ fn' = f /\ in' = bits
  /\ reg' = Instruction(f)
  /\ IF reg = NoReg
       THEN dtmPc' = "ir" /\ BeginShift("ir", Instruction(f))
       ELSE dtmPc' = "dr" /\ BeginShift("dr", bits)
  /\ UNCHANGED <<idle, targetVars>>

\* The common beginning of rvl_dtm_dmi, _dtmcs_dmireset, _dtmcs and _idcode.
BeginScan(f, bits) ==
  /\ dtmPc = "rest"
  /\ fn' = f /\ in' = bits
  /\ reg' = Instruction(f)
  /\ IF reg # Instruction(f)
       THEN dtmPc' = "ir" /\ BeginShift("ir", Instruction(f))
       ELSE dtmPc' = "dr" /\ BeginShift("dr", bits)
  /\ UNCHANGED <<idle, targetVars>>

\* rvl_dtm_run
BeginIdle(ticks) ==
  /\ dtmPc = "rest"
  /\ dtmPc' = "run" /\ fn' = "run"
  /\ BeginRun(ticks)
  /\ UNCHANGED <<in, reg, idle, targetVars>>

Selected ==
  /\ dtmPc = "ir"
  /\ dtmPc' = "dr"
  /\ BeginShift("dr", in)
  /\ UNCHANGED <<fn, in, reg, idle, targetVars>>

\* The data register has been scanned: dmi and dmireset stay in
\* Run-Test/Idle for a while, dtmcs learns for how long.
ScannedWait ==
  /\ dtmPc = "dr" /\ fn \in {"dmi", "dmireset"} /\ idle > 0
  /\ dtmPc' = "run"
  /\ BeginRun(idle)
  /\ UNCHANGED <<fn, in, reg, idle, targetVars>>

\* Mutation: the tick that enters Run-Test/Idle is not counted.
ScannedUncounted ==
  /\ dtmPc = "dr" /\ line = "rest"
  /\ ~ (fn \in {"dmi", "dmireset"} /\ idle > 0)
  /\ dtmPc' = "rest"
  /\ idle' = IF fn # "dtmcs" THEN idle ELSE old[3] + 2 * old[4]
  /\ UNCHANGED <<fn, in, reg, targetVars, tapVars>>

Scanned ==
  /\ dtmPc = "dr" /\ line = "rest"
  /\ ~ (fn \in {"dmi", "dmireset"} /\ idle > 0)
  /\ dtmPc' = "rest"
  /\ idle' = IF fn # "dtmcs" THEN idle
             ELSE LET field == old[3] + 2 * old[4]
                  IN  IF field > 0 THEN field - 1 ELSE field
  /\ UNCHANGED <<fn, in, reg, targetVars, tapVars>>

Waited ==
  /\ dtmPc = "run" /\ line = "rest"
  /\ dtmPc' = "rest"
  /\ UNCHANGED <<fn, in, reg, idle, targetVars, tapVars>>

\* The op and data that rvl_dtm_dmi returns.
OpOut == SubSeq(old, 1, 2)
DataOut == SubSeq(old, 3, 2 + DataBits)

DtmStep ==
  \/ TapTick /\ UNCHANGED dtmVars
  \/ Selected \/ ScannedWait \/ Scanned \/ Waited

DtmTypeOK ==
  /\ TapTypeOK
  /\ dtmPc \in {"rest", "ir", "dr", "run"}
  /\ fn \in {"dmi", "dmireset", "dtmcs", "idcode", "run"}
  /\ in \in Seq(Bit)
  /\ reg \in {NoReg, IDCODE, DTMCS, DMI}
  /\ idle \in 0 .. 2
=============================================================================

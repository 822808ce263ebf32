-------------------------------- MODULE Tap --------------------------------
(***************************************************************************)
(* tap.c: scans of the TAP, bit by bit.  A call runs to its end; a step is *)
(* one rvl_tap_tick, as the target goes on by itself between two of them.  *)
(* line is the next tick of the code, named for the comment beside it.     *)
(***************************************************************************)
EXTENDS JtagTarget

VARIABLES
  line,         \* the next tick, or rest
  which,        \* ir or dr: the scan that is under way
  i, limit,     \* the counter of a loop and, for go_idle and run, its bound
  new, old      \* what is shifted in, and what has come out

tapVars == <<line, which, i, limit, new, old>>

TapInit ==
  /\ line = "rest" /\ which = "dr" /\ i = 0 /\ limit = 0 /\ new = <<>> /\ old = <<>>

Pre == IF which = "ir" THEN IrPre ELSE DrPre
Post == IF which = "ir" THEN IrPost ELSE DrPost

(***************************************************************************)
(* The calls.                                                              *)
(***************************************************************************)
\* rvl_tap_shift_ir and rvl_tap_shift_dr.
BeginShift(w, bits) ==
  /\ line = "rest"
  /\ line' = "select_dr" /\ which' = w /\ new' = bits /\ old' = <<>> /\ i' = 0
  /\ UNCHANGED limit

\* rvl_tap_init sets the pins, rvl_tap_go_idle gives 6 ticks with TMS high.
BeginGoIdle ==
  /\ line = "rest"
  /\ line' = "go_idle" /\ i' = 0 /\ limit' = 6
  /\ UNCHANGED <<which, new, old>>

\* rvl_tap_run
BeginRun(ticks) ==
  /\ line = "rest"
  /\ line' = "run" /\ i' = 0 /\ limit' = ticks
  /\ UNCHANGED <<which, new, old>>

(***************************************************************************)
(* The ticks of a scan.                                                    *)
(***************************************************************************)
Tick(from, to, tms) ==
  /\ line = from
  /\ line' = to
  /\ Edge(tms, 1)
  /\ UNCHANGED <<which, i, limit, new, old>>

TickSelectDr == Tick("select_dr", IF which = "ir" THEN "select_ir" ELSE "capture", 1)
TickSelectIr == Tick("select_ir", "capture", 1)
TickCapture == Tick("capture", "enter", 0)
TickEnter == Tick("enter", "shift", 0)

\* rvl_tap_shift, the loops over pre, len and post; the last tick of the last
\* of them leaves Shift.
LastTick == i = Pre + Len(new) + Post - 1

\* Mutation: the last of the target's own bits leaves Shift.
LeaveShiftEarly == IF i = Pre + Len(new) - 1 THEN 1 ELSE 0

LeaveShift == IF LastTick THEN 1 ELSE 0
ShiftLoop ==
  /\ line = "shift"
  /\ i' = i + 1
  /\ line' = IF LastTick THEN "update" ELSE "shift"
  /\ UNCHANGED <<which, limit, new>>

\* A bypass bit before or behind the target's own.
TickBypass ==
  /\ i < Pre \/ i >= Pre + Len(new)
  /\ ShiftLoop
  /\ Edge(LeaveShift, 1)
  /\ UNCHANGED old

TickBit ==
  /\ i >= Pre /\ i < Pre + Len(new)
  /\ ShiftLoop
  /\ Edge(LeaveShift, new[i - Pre + 1])
  /\ old' = Append(old, Tdo)

TickUpdate == Tick("update", "idle", 1)
TickIdle == Tick("idle", "rest", 0)

\* rvl_tap_go_idle
TickGoIdle ==
  /\ line = "go_idle"
  /\ IF i < limit
       THEN i' = i + 1 /\ Edge(1, 1) /\ UNCHANGED line
       ELSE line' = "rest" /\ Edge(0, 1) /\ UNCHANGED i
  /\ UNCHANGED <<which, limit, new, old>>

TickRun ==
  /\ line = "run"
  /\ IF i < limit
       THEN i' = i + 1 /\ Edge(0, 1) /\ UNCHANGED line
       ELSE line' = "rest" /\ UNCHANGED <<i, targetVars>>
  /\ UNCHANGED <<which, limit, new, old>>

TapTick ==
  \/ TickSelectDr \/ TickSelectIr \/ TickCapture \/ TickEnter
  \/ TickBypass \/ TickBit
  \/ TickUpdate \/ TickIdle
  \/ TickGoIdle \/ TickRun

TapTypeOK ==
  /\ TargetTypeOK
  /\ line \in {"rest", "select_dr", "select_ir", "capture", "enter", "shift",
               "update", "idle", "go_idle", "run"}
  /\ which \in {"ir", "dr"}
  /\ i \in Nat /\ limit \in Nat
  /\ new \in Seq(Bit) /\ old \in Seq(Bit)
=============================================================================

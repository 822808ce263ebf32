------------------------------- MODULE Flash -------------------------------
(***************************************************************************)
(* family/gd32vf103/target.c: erasing and writing the flash of the target  *)
(* through its flash controller, driven by a GDB that loads programs.      *)
(*                                                                         *)
(* The controller is external.  It erases in its own time, or never; while *)
(* it does, another START is ignored.  A word that is not erased is refused*)
(* with PGERR, a page that is protected with WPERR, and the bus may hold   *)
(* the command of a word until the word is programmed.  What GDB asks      *)
(* follows the memory map: whole pages of the flash, and words of the      *)
(* pages it has erased.                                                    *)
(*                                                                         *)
(* Every access is the scans of riscv_write_mem and riscv_read_mem, and    *)
(* nobody looks at their status: any one of them may come to nothing.      *)
(***************************************************************************)
EXTENDS Timer

CONSTANTS
  Pages, PageWords,     \* the flash: its pages, and the words of each
  Protected,            \* the pages protected against erasing and programming
  EraseTime,            \* the timeout of an erasure: 600 ms
  MaxLag,               \* bound: ticks of the clock between two accesses
  MaxDrops              \* bound: accesses that the DMI drops in a load

Page == 0 .. Pages - 1
Words == 0 .. Pages * PageWords - 1
PageOf(w) == w \div PageWords

ASSUME FlashAssumption ==
  /\ Pages \in Nat \ {0} /\ PageWords \in Nat \ {0}
  /\ Protected \subseteq Page
  /\ EraseTime \in Nat /\ MaxLag \in Nat \ {0} /\ MaxDrops \in Nat
  /\ ClockMod \in Nat /\ EraseTime + 2 * MaxLag < ClockMod

VARIABLES
  pc, cmd,              \* the command under way: its kind, first and end
  at,                   \* self.start in an erasure, the word in a write
  seen,                 \* self.reg_value: the status that was read last
  start,                \* self.timer.start
  locked, ctl, addr,    \* FMC_CTL: LK, and which of PER and PG; FMC_ADDR
  flags, busy,          \* FMC_STAT: WPERR and PGERR, and what BUSY is about
  mem,
  now,                  \* the clock
  reply,                \* to the last command
  erased, written,      \* GDB: the pages and words of this load answered OK
  errMsg,               \* err_msg of target.c: in this load, a refusal was noted
  dropped,              \* history: the accesses of this load that the DMI dropped
  clash,                \* history: in this load, START was ignored
  waited, lag           \* history: ticks since the timer was set; bound: since an access

probeVars == <<pc, cmd, at, seen, start>>
fmcVars == <<locked, ctl, addr, flags, busy, mem>>
missVars == <<errMsg, dropped>>
hostVars == <<reply, erased, written, clash>>
clockVars == <<now, waited, lag>>
vars == <<probeVars, fmcVars, missVars, hostVars, clockVars>>

NoCommand == [kind |-> "none", first |-> 0, end |-> 0]
Free == [op |-> "none", page |-> 0]
NoStatus == [busy |-> FALSE, flags |-> {}]

Init ==
  /\ pc = "idle" /\ cmd = NoCommand /\ at = 0 /\ seen = NoStatus /\ start = 0
  /\ locked = TRUE /\ ctl = "none" /\ addr = 0 /\ flags = {} /\ busy = Free
  /\ mem = [w \in Words |-> "old"]
  /\ errMsg = FALSE /\ dropped = 0
  /\ reply = "none" /\ erased = {} /\ written = {} /\ clash = FALSE
  /\ now = 0 /\ waited = 0 /\ lag = 0

(***************************************************************************)
(* The functions of the probe.  An access ends the lag.                    *)
(***************************************************************************)
At(label) == pc = label /\ lag' = 0 /\ UNCHANGED now
Goto(label) == pc' = label /\ UNCHANGED <<cmd, hostVars>>
Forget == seen' = NoStatus /\ start' = 0     \* not used before they are set again

Asked == cmd.first .. cmd.end - 1

NewLoad ==
  /\ erased' = {} /\ written' = {} /\ clash' = FALSE
  /\ errMsg' = FALSE /\ dropped' = 0

\* The server answers; an error ends the session, and GDB gives the load up.
Return(r) ==
  /\ pc' = "idle" /\ cmd' = NoCommand /\ at' = 0 /\ reply' = r
  /\ IF r = "OK" /\ cmd.kind # "done"
       THEN /\ erased' = IF cmd.kind = "erase" THEN erased \cup Asked ELSE erased
            /\ written' = IF cmd.kind = "write" THEN written \cup Asked ELSE written
            /\ UNCHANGED clash
       ELSE NewLoad

(***************************************************************************)
(* What becomes of an access.  The debug module refuses it when the        *)
(* command of a word still runs, and so does it with the scans up to the   *)
(* end of the access, where cmderr is noted in err_msg.  The DMI drops the *)
(* scans that come too early for it, and nothing is noted: ABSTRACTCS is   *)
(* not read then, and its old value shows no error.                        *)
(***************************************************************************)
CommandRuns == cmd.kind = "write" /\ busy # Free

\* Mutation: cmderr is not looked at.
RefusedUnnoted == CommandRuns /\ UNCHANGED missVars

RefusedAndNoted == CommandRuns /\ errMsg' = TRUE /\ UNCHANGED dropped

Reaches == UNCHANGED missVars
Dropped == dropped < MaxDrops /\ dropped' = dropped + 1 /\ UNCHANGED errMsg
Fails == RefusedAndNoted \/ Dropped
MayFail == CommandRuns \/ dropped < MaxDrops

\* FMC_CTL takes no value while it is locked.
Ctl(value) == IF locked THEN ctl ELSE value

SetCtl(value) ==
  \/ Reaches /\ ctl' = Ctl(value)
  \/ Fails /\ UNCHANGED ctl

ClearFlag(flag) == flags' = flags \ {flag} \/ (MayFail /\ UNCHANGED flags)

\* The two keys, and FMC_CTL read until LK is clear or six times.
Unlock ==
  /\ At("unlock")
  /\ locked' \in {locked, FALSE}
  /\ \/ Return("E01") /\ (locked' \/ MayFail)
     \/ Goto("page") /\ UNCHANGED at /\ (Fails \/ (Reaches /\ ~ locked'))
  /\ UNCHANGED <<seen, start, ctl, addr, flags, busy, mem, waited>>

\* Mutation: one page too many.
MorePagesPast == at <= cmd.end

MorePages == at < cmd.end

\* Mutation: the address comes after the START that uses it.
SelectPageLate ==
  /\ At("page") /\ at < cmd.end
  /\ SetCtl("PER") /\ addr' = addr
  /\ Goto("start")
  /\ UNCHANGED <<at, seen, start, locked, flags, busy, mem, waited>>

SelectPage ==
  /\ At("page") /\ MorePages
  /\ \/ Reaches /\ ctl' = Ctl("PER") /\ addr' = at
     \/ Fails /\ ctl' \in {ctl, Ctl("PER")} /\ addr' \in {addr, at}
  /\ Goto("start")
  /\ UNCHANGED <<at, seen, start, locked, flags, busy, mem, waited>>

\* What the controller does at START.
Start ==
  IF locked \/ busy # Free
    THEN clash' = TRUE /\ UNCHANGED <<flags, busy, mem>>
    ELSE /\ UNCHANGED clash
         /\ IF addr \in Protected
              THEN flags' = flags \cup {"WPERR"} /\ UNCHANGED <<busy, mem>>
              ELSE /\ busy' = [op |-> "erase", page |-> addr]
                   /\ mem' = [w \in Words |-> IF PageOf(w) = addr THEN "torn" ELSE mem[w]]
                   /\ UNCHANGED flags

\* PER and START, then timer_set.
StartPage ==
  /\ At("start")
  /\ \/ Reaches /\ ctl' = Ctl("PER") /\ Start
     \/ Fails /\ UNCHANGED <<clash, ctl, flags, busy, mem>>
  /\ start' = now /\ waited' = 0
  /\ pc' = "wait"
  /\ UNCHANGED <<cmd, at, seen, locked, addr, reply, erased, written>>

Status == [busy |-> busy # Free, flags |-> flags]

\* What DATA0 held before is as good as any status.
ReadStatus ==
  /\ At("wait")
  /\ \/ Reaches /\ seen' = Status
     \/ Fails /\ seen' \in [busy : BOOLEAN, flags : SUBSET {"WPERR"}]
  /\ Goto("timer")
  /\ UNCHANGED <<at, start, fmcVars, waited>>

\* Mutation: the loop waits for the controller alone.
GiveUpNever == FALSE

GiveUp == Expired(start, EraseTime, now)

\* The clock is looked at after the status.
CheckTimer ==
  /\ pc = "timer" /\ UNCHANGED <<now, lag, missVars>>
  /\ IF ~ GiveUp /\ seen.busy THEN Goto("wait") ELSE Goto("check")
  /\ UNCHANGED <<at, seen, start, fmcVars, waited>>

Refused == "WPERR" \in seen.flags

\* What the loop has found.  An error leaves PER set and the controller unlocked.
CheckPage ==
  /\ At("check")
  /\ IF seen.busy THEN Return("E02") /\ UNCHANGED flags
     ELSE IF Refused THEN Return("E03") /\ ClearFlag("WPERR")
     ELSE Goto("page") /\ at' = at + 1 /\ UNCHANGED <<flags, missVars>>
  /\ Forget /\ waited' = 0
  /\ UNCHANGED <<locked, ctl, addr, busy, mem>>

\* CTL is cleared after the last page, and after the last word.
Clear ==
  /\ At(IF cmd.kind = "write" THEN "clear" ELSE "page")
  /\ cmd.kind = "erase" => ~ MorePages
  /\ SetCtl("none")
  /\ Return("OK")
  /\ UNCHANGED <<seen, start, locked, addr, flags, busy, mem, waited>>

SetProgram ==
  /\ At("program")
  /\ SetCtl("PG")
  /\ Goto("words")
  /\ UNCHANGED <<at, seen, start, locked, addr, flags, busy, mem, waited>>

\* What the controller does with a word: it needs PG.
Program(w) ==
  IF PageOf(w) \in Protected
    THEN flags' = flags \cup {"WPERR"} /\ UNCHANGED <<busy, mem>>
  ELSE IF mem[w] # "erased" \/ ctl # "PG"
    THEN flags' = flags \cup {"PGERR"} /\ UNCHANGED <<busy, mem>>
  ELSE /\ mem' = [mem EXCEPT ![w] = "data"]
       /\ busy' = [op |-> "program", page |-> PageOf(w)]
       /\ UNCHANGED flags

\* rvl_target_write_memory, word by word.  The bus holds a word until the
\* controller is free; the words behind it are lost to the last if one of them
\* comes too early.
WriteWord ==
  /\ At("words") /\ at < cmd.end
  /\ \/ busy = Free /\ Reaches /\ Program(at) /\ at' = at + 1
     \/ Fails /\ at' = cmd.end /\ UNCHANGED <<flags, busy, mem>>
  /\ Goto("words")
  /\ UNCHANGED <<seen, start, locked, ctl, addr, waited>>

\* One look at the status, at BUSY and PGERR only.
CheckWrite ==
  /\ At("words") /\ at = cmd.end
  /\ \/ busy # Free /\ Return("E02") /\ UNCHANGED flags
     \/ busy = Free /\ "PGERR" \in flags /\ Return("E03") /\ ClearFlag("PGERR")
     \/ busy = Free /\ "PGERR" \notin flags /\ Goto("clear") /\ Reaches /\ UNCHANGED <<at, flags>>
     \/ MayFail /\ Return("E02") /\ UNCHANGED flags
     \/ MayFail /\ Return("E03") /\ ClearFlag("PGERR")
     \/ Fails /\ Goto("clear") /\ UNCHANGED <<at, flags>>
  /\ UNCHANGED <<seen, start, locked, ctl, addr, busy, mem, waited>>

\* rvl_target_flash_done
Lock ==
  /\ At("done")
  /\ \/ locked' = TRUE /\ ctl' = "none"
     \/ MayFail /\ UNCHANGED <<locked, ctl>>
  /\ Return("OK")
  /\ UNCHANGED <<seen, start, addr, flags, busy, mem, waited>>

Probe ==
  \/ Unlock \/ SelectPage \/ StartPage \/ ReadStatus \/ CheckTimer \/ CheckPage
  \/ Clear \/ SetProgram \/ WriteWord \/ CheckWrite \/ Lock

(***************************************************************************)
(* GDB.  It erases all that it will write, writes, and is done; it may be  *)
(* killed at any command, and a new one starts over.                       *)
(***************************************************************************)
Idle == pc = "idle"

Ask(kind, label, first, end) ==
  /\ Idle
  /\ pc' = label /\ cmd' = [kind |-> kind, first |-> first, end |-> end]
  /\ at' = first
  /\ reply' = "none" /\ lag' = 0
  /\ UNCHANGED <<seen, start, fmcVars, missVars, erased, written, clash, now, waited>>

AskErase ==
  /\ written = {}
  /\ \E first \in Page, end \in 1 .. Pages :
       /\ first < end /\ first .. end - 1 \cap erased = {}
       /\ Ask("erase", "unlock", first, end)

AskWrite ==
  \E first \in Words, end \in 1 .. Pages * PageWords :
    /\ first < end
    /\ \A w \in first .. end - 1 : PageOf(w) \in erased /\ w \notin written
    /\ Ask("write", "program", first, end)

AskDone == erased # {} /\ Ask("done", "done", 0, 0)

NewSession ==
  /\ Idle /\ reply # "none"
  /\ reply' = "none" /\ NewLoad
  /\ UNCHANGED <<probeVars, fmcVars, clockVars>>

Host == AskErase \/ AskWrite \/ AskDone \/ NewSession

(***************************************************************************)
(* The controller, and time.                                               *)
(***************************************************************************)
OperationEnds ==
  /\ busy # Free
  /\ busy' = Free
  /\ mem' = IF busy.op = "program" THEN mem
            ELSE [w \in Words |-> IF PageOf(w) = busy.page THEN "erased" ELSE mem[w]]
  /\ UNCHANGED <<probeVars, locked, ctl, addr, flags, missVars, hostVars, clockVars>>

\* The target is reset, or its own program runs, between two loads.
TargetReset ==
  /\ Idle /\ erased = {}
  /\ locked' = TRUE /\ ctl' = "none" /\ flags' = {} /\ busy' = Free
  /\ UNCHANGED <<probeVars, addr, mem, missVars, hostVars, clockVars>>

\* Bound: the clock moves where a timer is looked at, and between commands.
Waiting == pc \in {"wait", "timer", "check"}

Tick ==
  /\ Idle \/ (Waiting /\ lag < MaxLag)
  /\ now' = (now + 1) % ClockMod
  /\ lag' = IF Idle THEN 0 ELSE lag + 1
  /\ waited' = IF Waiting /\ waited < EraseTime THEN waited + 1 ELSE waited
  /\ UNCHANGED <<probeVars, fmcVars, missVars, hostVars>>

Next == Probe \/ Host \/ OperationEnds \/ TargetReset \/ Tick

Spec == Init /\ [][Next]_vars

\* The probe goes on and time passes; the controller may hang.
Fairness == WF_vars(Probe) /\ WF_vars(Tick)

FairSpec == Spec /\ Fairness
-----------------------------------------------------------------------------
\* Every variable has its type.
TypeOK ==
  /\ pc \in {"idle", "unlock", "page", "start", "wait", "timer", "check",
             "program", "words", "clear", "done"}
  /\ cmd.kind \in {"none", "erase", "write", "done"}
  /\ cmd.first \in Words /\ cmd.end \in 0 .. Pages * PageWords /\ at \in 0 .. Pages * PageWords
  /\ addr \in Page /\ ctl \in {"none", "PER", "PG"} /\ locked \in BOOLEAN
  /\ flags \subseteq {"WPERR", "PGERR"} /\ seen.flags \subseteq {"WPERR", "PGERR"}
  /\ seen.busy \in BOOLEAN /\ busy.op \in {"none", "erase", "program"} /\ busy.page \in Page
  /\ mem \in [Words -> {"old", "torn", "erased", "data"}]
  /\ now \in 0 .. ClockMod - 1 /\ start \in 0 .. ClockMod - 1
  /\ waited \in 0 .. EraseTime /\ lag \in 0 .. MaxLag
  /\ reply \in {"none", "OK", "E01", "E02", "E03"}
  /\ erased \subseteq Page /\ written \subseteq Words /\ clash \in BOOLEAN
  /\ errMsg \in BOOLEAN /\ dropped \in 0 .. MaxDrops

\* While the DMI drops nothing, an OK is true and stays so for the load: pages
\* are blank and words hold the data, though a write looks neither at WPERR nor
\* at the single words.  It does not look at err_msg either: a word may still be
\* blank after an OK, but then `monitor show error` tells.  In a load with a
\* START that fell into an erasure given up before, an OK to its erasure says
\* nothing, and PGERR is what keeps its writes honest.
OkIsTrue ==
  dropped = 0 =>
    /\ \A w \in written : \/ mem[w] = "data"
                          \/ errMsg /\ (mem[w] = "erased" \/ clash)
                          \/ clash /\ PageOf(w) \in Protected
    /\ Idle /\ ~ clash => \A w \in Words \ written : PageOf(w) \in erased => mem[w] = "erased"

\* An intact word changes only by a command that names it; but when an access
\* has come to nothing it may have been the one to FMC_ADDR, and START erases
\* the page that was selected before.
OnlyWhereAsked ==
  [][\A w \in Words : mem'[w] # mem[w] /\ mem[w] # "torn" =>
       \/ cmd.kind = "erase" /\ (PageOf(w) \in Asked \/ dropped > 0)
       \/ cmd.kind = "write" /\ w \in Asked]_vars

\* An erasure is given up only after all the time it may take, wherever the
\* clock was when it began.
NotGivenUpEarly ==
  [][reply' = "E02" /\ reply # "E02" /\ cmd.kind = "erase" => waited = EraseTime]_vars

\* A command ends, though the controller may hang.
CommandEnds == pc # "idle" ~> pc = "idle"
=============================================================================

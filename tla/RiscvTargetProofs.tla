------------------------- MODULE RiscvTargetProofs -------------------------
(***************************************************************************)
(* Theorems about RiscvTarget, for every number of triggers and of         *)
(* software breakpoints, and whatever GDB may ask for.                     *)
(*                                                                         *)
(* The invariant says of every call how far it is: which of its accesses   *)
(* are left, and what those that were made have done, if none was refused. *)
(***************************************************************************)
EXTENDS RiscvTarget, SequenceTheorems, TLAPS

Accesses ==
  [do : {"off", "on", "halt", "resume", "reset", "read_dcsr", "check", "protection",
         "register", "memory", "await", "status", "cause"}, arg : {"none"}]
    \cup [do : {"write_dcsr"}, arg : {"ebreak_on", "ebreak_off", "step", "run", "prv"}]
    \cup [do : {"select"}, arg : Triggers]
    \cup [do : {"type"}, arg : HardTypes \cup {"unused"}]
    \cup [do : {"addr"}, arg : Addrs]
    \cup [do : {"read_mem"}, arg : SoftSlots]
    \cup [do : {"write_mem"}, arg : [addr : CodeAddrs, inst : Inst]]

TypeInv == TypeOK /\ todo \in Seq(Accesses)

\* What is left of a list of accesses.
Rest(q, list) ==
  /\ Len(q) <= Len(list)
  /\ \A j \in 1 .. Len(q) : q[j] = list[Len(list) - Len(q) + j]

Left == Len(todo)

(***************************************************************************)
(* The parts of the invariant.                                             *)
(***************************************************************************)
Stopped == {"access", "reset", "insert", "remove"}

\* When each call was made.
CallInv ==
  /\ op = "none" => todo = <<>>
  /\ op \in {"continue", "step"} \cup Stopped => ~running
  /\ op \notin {"none", "connect"} => connected
  /\ op \in {"continue", "step"} \cup Stopped => targetError = "none"
  /\ op = "reset" => wiped

\* A target that the server believes stopped has halted, or has been asked to.
Held == hart = "halted" \/ haltReq

ConnectList == Activate \o Halt \o AfterHalted

HeldInv ==
  /\ op \in {"none"} \cup Stopped /\ connected /\ targetError = "none" /\ ~running => Held
  /\ op \in {"continue", "step"} /\ Left > 0 => Held
  /\ op = "connect" /\ targetError = "none" /\ Left <= 2 * HardwareNum + 4 => haltReq
  /\ op = "ctrl_c" /\ Left = 0 => haltReq
  /\ op = "halt_check" => \/ Left = 1 /\ todo[1] = Do("status", "none")
                          \/ Left = 0 /\ report.reason = "running"
                          \/ hart = "halted"

\* Which accesses are left.
ListInv ==
  /\ op = "connect" => IF targetError = "none" THEN Rest(todo, ConnectList) ELSE todo = <<>>
  /\ op = "disconnect" => Rest(todo, Resume \o FiniPre)
  /\ op = "continue" => Rest(todo, Resume)
  /\ op = "step" => Rest(todo, Step)
  /\ op = "access" => \/ Rest(todo, <<Do("register", "none")>>)
                      \/ Rest(todo, <<Do("memory", "none")>>)
                      \/ Rest(todo, EditDcsr("prv"))
  /\ op = "reset" => Rest(todo, Reset)
  /\ op = "ctrl_c" => Rest(todo, Halt)
  /\ op = "halt_check" => \/ Rest(todo, <<Do("status", "none")>>)
                          \/ Rest(todo, <<Do("read_dcsr", "none"), Do("cause", "none")>>)

\* The server has a target that it can debug, or is about to.
Sane == targetError = "none" /\ (connected \/ op = "connect")

Calm == {"none", "continue", "step", "access", "reset", "ctrl_c", "halt_check"}

\* What a "monitor reset" leaves of a trigger, and of ebreak.
Fits(t) == Agrees(t) \/ Lost(t)
Ebreaks == wiped \/ dcsr.ebreak

HardInserting(t) ==
  /\ slots[t].type # "unused" /\ slots[t].addr \in Addrs
  /\ Rest(todo, InsertHard(t, <<slots[t].type, slots[t].addr>>))
  /\ ~errMsg =>
       /\ Ebreaks
       /\ \A u \in Triggers \ {t} : Fits(u)
       /\ Left <= 2 => tselect = t
       /\ Left <= 1 => triggers[t].type = slots[t].type
       /\ Left = 0 => triggers[t] = slots[t]

HardRemoving(t) ==
  /\ slots[t].type = "unused"
  /\ Rest(todo, RemoveHard(t))
  /\ ~errMsg =>
       /\ Ebreaks
       /\ \A u \in Triggers \ {t} : Fits(u)
       /\ Left <= 1 => tselect = t
       /\ Left = 0 => triggers[t].type = "unused"

Applied == Ebreaks /\ \A t \in Triggers : Fits(t)

\* The triggers of a connection that have been cleared.
Cleared == 2 * HardwareNum + 1 - Left

HardInv ==
  /\ Sane /\ op \in Calm /\ ~errMsg => Applied
  /\ \/ op \in {"continue", "step"} /\ Left = 2
     \/ op = "access" /\ Left = 1 /\ todo[1].do = "write_dcsr"
     => (~errMsg /\ ~wiped => image.ebreak)
  /\ op = "connect" /\ targetError = "none" =>
       /\ ~wiped
       /\ \A t \in Triggers : slots[t].type = "unused"
       /\ ~errMsg /\ Left <= 2 * HardwareNum + 1 =>
            /\ dcsr.ebreak
            /\ \A t \in Triggers : 2 * t <= Cleared => triggers[t].type = "unused"
            /\ \A t \in Triggers : 2 * t = Cleared + 1 => tselect = t

Used(a) == \E s \in SoftSlots : soft[s].used /\ soft[s].addr = a

InMemory(a) == mem[a] = IF Used(a) THEN "ebreak" ELSE "program"

\* Saved(s) : the instruction under a breakpoint is that of the program.
Saved(s) == soft[s].used /\ soft[s].addr \notin left => soft[s].orig = "program"

SoftInserting(s) ==
  /\ soft[s].used
  /\ Rest(todo, InsertSoft(s, soft[s].addr))
  /\ ~errMsg =>
       /\ \A r \in SoftSlots \ {s} : Saved(r)
       /\ \A b \in CodeAddrs \ (left \cup {soft[s].addr}) : InMemory(b)
       /\ Left <= 1 => Saved(s)
       /\ soft[s].addr \notin left =>
            mem[soft[s].addr] = IF Left = 0 THEN "ebreak" ELSE "program"

SoftRemoving(a, i) ==
  /\ ~ Used(a)
  /\ Rest(todo, <<Do("write_mem", [addr |-> a, inst |-> i])>>)
  /\ ~errMsg =>
       /\ \A r \in SoftSlots : Saved(r)
       /\ a \notin left => i = "program"
       /\ \A b \in CodeAddrs \ (left \cup {a}) : InMemory(b)
       /\ Left = 0 /\ a \notin left => InMemory(a)

MemoryOK == (\A s \in SoftSlots : Saved(s)) /\ \A a \in CodeAddrs \ left : InMemory(a)

SoftInv ==
  /\ \A s, r \in SoftSlots :
       soft[s].used /\ soft[r].used /\ soft[s].addr = soft[r].addr => s = r
  /\ \A s \in SoftSlots : soft[s].used => soft[s].addr \in CodeAddrs
  /\ Sane /\ op \in Calm \cup {"connect"} /\ ~errMsg => MemoryOK

\* A breakpoint is being inserted or removed, in memory or in the triggers, the other
\* table agreeing with the hart; or there was no slot for it, and both agree.
PointInv ==
  /\ op = "insert" =>
       \/ todo = <<>> /\ (~errMsg => MemoryOK /\ Applied)
       \/ (\E s \in SoftSlots : SoftInserting(s)) /\ (~errMsg => Applied)
       \/ (\E t \in Triggers : HardInserting(t)) /\ (~errMsg => MemoryOK)
  /\ op = "remove" =>
       \/ (\E a \in CodeAddrs, i \in Inst : SoftRemoving(a, i)) /\ (~errMsg => Applied)
       \/ (\E t \in Triggers : HardRemoving(t)) /\ (~errMsg => MemoryOK)

IInv == TypeInv /\ CallInv /\ ListInv /\ HeldInv /\ HardInv /\ SoftInv /\ PointInv

(***************************************************************************)
(* The lists of accesses.                                                  *)
(***************************************************************************)
LEMMA TodoHead ==
  ASSUME todo \in Seq(Accesses), todo # <<>>
  PROVE  /\ Head(todo) \in Accesses /\ Head(todo) = todo[1]
         /\ Tail(todo) \in Seq(Accesses)
         /\ Len(Tail(todo)) = Left - 1 /\ Left \in Nat /\ Left > 0
         /\ \A j \in 1 .. Len(Tail(todo)) : Tail(todo)[j] = todo[j + 1]
<1>1. Left \in Nat /\ Left > 0
  BY EmptySeq, LenProperties DEF Left
<1> QED
  BY <1>1, HeadTailProperties DEF Left

\* An access takes the first from the list.
LEMMA RestNext ==
  ASSUME NEW list \in Seq(Accesses), todo \in Seq(Accesses), todo # <<>>, Rest(todo, list)
  PROVE  /\ Head(todo) = list[Len(list) - Left + 1]
         /\ Left \in 1 .. Len(list)
         /\ Rest(Tail(todo), list)
<1>1. Len(list) \in Nat
  OBVIOUS
<1>2. Left \in 1 .. Len(list)
  BY TodoHead, <1>1 DEF Rest, Left
<1>3. Head(todo) = list[Len(list) - Left + 1]
  BY TodoHead, <1>2 DEF Rest, Left
<1>4. ASSUME NEW j \in 1 .. Len(Tail(todo))
      PROVE  Tail(todo)[j] = list[Len(list) - Len(Tail(todo)) + j]
  <2>1. j + 1 \in 1 .. Left
    BY TodoHead
  <2>2. Len(list) - Left + (j + 1) = Len(list) - Len(Tail(todo)) + j
    BY TodoHead, <1>1
  <2> QED
    BY <2>1, <2>2, TodoHead DEF Rest, Left
<1> QED
  BY <1>1, <1>2, <1>3, <1>4, TodoHead DEF Rest, Left

\* At first all of it is left.
LEMMA RestAll ==
  ASSUME NEW list \in Seq(Accesses)
  PROVE  Rest(list, list)
BY DEF Rest

LEMMA RestNone ==
  ASSUME NEW list \in Seq(Accesses)
  PROVE  Rest(<<>>, list)
BY DEF Rest

LEMMA Joined ==
  ASSUME NEW s1 \in Seq(Accesses), NEW s2 \in Seq(Accesses)
  PROVE  /\ s1 \o s2 \in Seq(Accesses)
         /\ Len(s1 \o s2) = Len(s1) + Len(s2)
         /\ \A i \in 1 .. Len(s1) : (s1 \o s2)[i] = s1[i]
         /\ \A i \in 1 .. Len(s2) : (s1 \o s2)[Len(s1) + i] = s2[i]
<1>1. Len(s1) \in Nat /\ Len(s2) \in Nat
  OBVIOUS
<1>2. \A i \in 1 .. Len(s1) + Len(s2) :
        (s1 \o s2)[i] = IF i <= Len(s1) THEN s1[i] ELSE s2[i - Len(s1)]
  BY ConcatProperties
<1>3. ASSUME NEW i \in 1 .. Len(s1)
      PROVE  (s1 \o s2)[i] = s1[i]
  <2>1. i \in 1 .. Len(s1) + Len(s2) /\ i <= Len(s1)
    BY <1>1
  <2> QED
    BY <1>2, <2>1
<1>4. ASSUME NEW i \in 1 .. Len(s2)
      PROVE  (s1 \o s2)[Len(s1) + i] = s2[i]
  <2>1. Len(s1) + i \in 1 .. Len(s1) + Len(s2) /\ ~ (Len(s1) + i <= Len(s1))
        /\ (Len(s1) + i) - Len(s1) = i
    BY <1>1
  <2> QED
    BY <1>2, <2>1
<1> QED
  BY <1>3, <1>4, ConcatProperties

LEMMA EditType ==
  ASSUME NEW e \in {"ebreak_on", "ebreak_off", "step", "run", "prv"}
  PROVE  /\ EditDcsr(e) \in Seq(Accesses)
         /\ Len(EditDcsr(e)) = 2
         /\ EditDcsr(e)[1] = Do("read_dcsr", "none") /\ EditDcsr(e)[2] = Do("write_dcsr", e)
BY DEF EditDcsr, Do, Accesses

LEMMA EditThen ==
  ASSUME NEW e \in {"ebreak_on", "ebreak_off", "step", "run", "prv"},
         NEW x \in {"resume", "off"}
  PROVE  LET list == EditDcsr(e) \o <<Do(x, "none")>> IN
         /\ list \in Seq(Accesses) /\ Len(list) = 3
         /\ list[1] = Do("read_dcsr", "none") /\ list[2] = Do("write_dcsr", e)
         /\ list[3] = Do(x, "none")
<1> DEFINE edit == EditDcsr(e)
           end == <<Do(x, "none")>>
<1>1. /\ edit \in Seq(Accesses) /\ Len(edit) = 2
      /\ edit[1] = Do("read_dcsr", "none") /\ edit[2] = Do("write_dcsr", e)
  BY EditType
<1>2. end \in Seq(Accesses) /\ Len(end) = 1 /\ end[1] = Do(x, "none")
  BY DEF Do, Accesses
<1> HIDE DEF edit, end
<1>3. 1 \in 1 .. Len(edit) /\ 2 \in 1 .. Len(edit) /\ 1 \in 1 .. Len(end) /\ Len(edit) + 1 = 3
  BY <1>1, <1>2 DEF Do
<1>4. edit \o end \in Seq(Accesses) /\ Len(edit \o end) = 3
      /\ (edit \o end)[1] = edit[1] /\ (edit \o end)[2] = edit[2]
      /\ (edit \o end)[3] = end[1]
  <2>1. /\ edit \o end \in Seq(Accesses)
        /\ Len(edit \o end) = Len(edit) + Len(end)
        /\ \A i \in 1 .. Len(edit) : (edit \o end)[i] = edit[i]
        /\ \A i \in 1 .. Len(end) : (edit \o end)[Len(edit) + i] = end[i]
    BY <1>1, <1>2, Joined, Zenon
  <2> QED
    BY <2>1, <1>1, <1>2, <1>3 DEF Do
<1>5. EditDcsr(e) \o <<Do(x, "none")>> = edit \o end
  BY DEF edit, end
<1> QED
  BY <1>1, <1>2, <1>4, <1>5 DEF Do

LEMMA ResumeType ==
  /\ Resume \in Seq(Accesses) /\ Len(Resume) = 3
  /\ Resume[1] = Do("read_dcsr", "none") /\ Resume[2] = Do("write_dcsr", "run")
  /\ Resume[3] = Do("resume", "none")
BY EditThen DEF Resume, Do

LEMMA StepType ==
  /\ Step \in Seq(Accesses) /\ Len(Step) = 3
  /\ Step[1] = Do("read_dcsr", "none") /\ Step[2] = Do("write_dcsr", "step")
  /\ Step[3] = Do("resume", "none")
BY EditThen DEF Step, Do

LEMMA FiniType ==
  LET list == Resume \o FiniPre IN
  /\ list \in Seq(Accesses) /\ Len(list) = 6
  /\ \A i \in 1 .. 6 : list[i].do \in {"read_dcsr", "write_dcsr", "resume", "off"}
<1>1. /\ FiniPre \in Seq(Accesses) /\ Len(FiniPre) = 3
      /\ \A i \in 1 .. 3 : FiniPre[i].do \in {"read_dcsr", "write_dcsr", "off"}
  BY EditThen DEF FiniPre, Do
<1>2. \A i \in 1 .. 3 : Resume[i].do \in {"read_dcsr", "write_dcsr", "resume"}
  BY ResumeType DEF Do
<1>3. /\ Resume \o FiniPre \in Seq(Accesses)
      /\ Len(Resume \o FiniPre) = 3 + 3
      /\ \A i \in 1 .. 3 : (Resume \o FiniPre)[i] = Resume[i]
      /\ \A i \in 1 .. 3 : (Resume \o FiniPre)[3 + i] = FiniPre[i]
  <2>1. Len(Resume) = 3 /\ Resume \in Seq(Accesses)
    BY ResumeType
  <2>2. /\ Resume \o FiniPre \in Seq(Accesses)
        /\ Len(Resume \o FiniPre) = Len(Resume) + Len(FiniPre)
        /\ \A i \in 1 .. Len(Resume) : (Resume \o FiniPre)[i] = Resume[i]
        /\ \A i \in 1 .. Len(FiniPre) : (Resume \o FiniPre)[Len(Resume) + i] = FiniPre[i]
    BY <1>1, <2>1, Joined, Zenon
  <2> QED
    BY <1>1, <2>1, <2>2
<1>4. ASSUME NEW i \in 1 .. 6
      PROVE  (Resume \o FiniPre)[i].do \in {"read_dcsr", "write_dcsr", "resume", "off"}
  <2>1. CASE i \in 1 .. 3
    BY <1>2, <1>3, <2>1
  <2>2. CASE i \notin 1 .. 3
    <3>1. i - 3 \in 1 .. 3 /\ 3 + (i - 3) = i
      BY <2>2
    <3> QED
      BY <1>1, <1>3, <3>1
  <2> QED
    BY <2>1, <2>2
<1> QED
  BY <1>3, <1>4

LEMMA ResetType ==
  /\ Reset \in Seq(Accesses) /\ Len(Reset) = 4
  /\ Reset[1] = Do("reset", "none") /\ Reset[2] = Do("halt", "none")
  /\ Reset[3] = Do("await", "none") /\ Reset[4] = Do("halt", "none")
BY DEF Reset, Do, Accesses

LEMMA HaltType == Halt \in Seq(Accesses) /\ Len(Halt) = 1 /\ Halt[1] = Do("halt", "none")
BY DEF Halt, Do, Accesses

LEMMA SoftTypes ==
  ASSUME NEW s \in SoftSlots, NEW a \in CodeAddrs
  PROVE  LET list == InsertSoft(s, a) IN
         /\ list \in Seq(Accesses) /\ Len(list) = 2
         /\ list[1] = Do("read_mem", s)
         /\ list[2] = Do("write_mem", [addr |-> a, inst |-> "ebreak"])
BY DEF InsertSoft, Do, Accesses, Inst

LEMMA WriteType ==
  ASSUME NEW a \in CodeAddrs, NEW i \in Inst
  PROVE  <<Do("write_mem", [addr |-> a, inst |-> i])>> \in Seq(Accesses)
BY DEF Do, Accesses

LEMMA HardTypeLists ==
  ASSUME NEW t \in Triggers, NEW k \in HardTypes, NEW a \in Addrs
  PROVE  LET list == InsertHard(t, <<k, a>>) IN
         /\ list \in Seq(Accesses) /\ Len(list) = 3
         /\ list[1] = Do("select", t) /\ list[2] = Do("type", k) /\ list[3] = Do("addr", a)
BY DEF InsertHard, Do, Accesses

LEMMA RemoveHardType ==
  ASSUME NEW t \in Triggers
  PROVE  /\ RemoveHard(t) \in Seq(Accesses) /\ Len(RemoveHard(t)) = 2
         /\ RemoveHard(t)[1] = Do("select", t) /\ RemoveHard(t)[2] = Do("type", "unused")
BY DEF RemoveHard, Do, Accesses

\* Connecting: six accesses, two for each trigger, and the flash protection.
LEMMA ConnectType ==
  /\ ConnectList \in Seq(Accesses)
  /\ Len(ConnectList) = 2 * HardwareNum + 7
  /\ ConnectList[1] = Do("off", "none") /\ ConnectList[2] = Do("on", "none")
  /\ ConnectList[3] = Do("halt", "none") /\ ConnectList[4] = Do("read_dcsr", "none")
  /\ ConnectList[5] = Do("check", "none") /\ ConnectList[6] = Do("write_dcsr", "ebreak_on")
  /\ \A t \in Triggers : /\ ConnectList[2 * t + 5] = Do("select", t)
                         /\ ConnectList[2 * t + 6] = Do("type", "unused")
  /\ ConnectList[2 * HardwareNum + 7] = Do("protection", "none")
<1> DEFINE first == <<Do("read_dcsr", "none"), Do("check", "none"), Do("write_dcsr", "ebreak_on")>>
           last == <<Do("protection", "none")>>
           start == Activate \o Halt
<1>1. HardwareNum \in Nat /\ HardwareNum > 0
  BY HartAssumption DEF Do
<1>2. start \in Seq(Accesses) /\ Len(start) = 3 /\ start[1] = Do("off", "none")
      /\ start[2] = Do("on", "none") /\ start[3] = Do("halt", "none")
  <2>1. /\ Activate \in Seq(Accesses) /\ Len(Activate) = 2
        /\ Activate[1] = Do("off", "none") /\ Activate[2] = Do("on", "none")
    BY DEF Activate, Do, Accesses
  <2>2. 1 \in 1 .. Len(Activate) /\ 2 \in 1 .. Len(Activate) /\ 1 \in 1 .. Len(Halt)
        /\ Len(Activate) + 1 = 3
    BY <2>1, HaltType DEF Do
  <2>3. start \in Seq(Accesses) /\ Len(start) = 3
        /\ start[1] = Activate[1] /\ start[2] = Activate[2] /\ start[3] = Halt[1]
    <3>1. /\ Activate \o Halt \in Seq(Accesses)
          /\ Len(Activate \o Halt) = Len(Activate) + Len(Halt)
          /\ \A i \in 1 .. Len(Activate) : (Activate \o Halt)[i] = Activate[i]
          /\ \A i \in 1 .. Len(Halt) : (Activate \o Halt)[Len(Activate) + i] = Halt[i]
      BY <2>1, HaltType, Joined, Zenon
    <3> QED
      BY <2>1, <2>2, <3>1, HaltType DEF Do
  <2> QED
    BY <2>1, <2>3, HaltType DEF Do
<1>3. first \in Seq(Accesses) /\ Len(first) = 3 /\ first[1] = Do("read_dcsr", "none")
      /\ first[2] = Do("check", "none") /\ first[3] = Do("write_dcsr", "ebreak_on")
  BY DEF Do, Accesses
<1>4. last \in Seq(Accesses) /\ Len(last) = 1 /\ last[1] = Do("protection", "none")
  BY DEF Do, Accesses
<1>5. /\ ClearTriggers \in Seq(Accesses) /\ Len(ClearTriggers) = 2 * HardwareNum
      /\ \A t \in Triggers : /\ ClearTriggers[2 * t - 1] = Do("select", t)
                             /\ ClearTriggers[2 * t] = Do("type", "unused")
  <2>1. ASSUME NEW i \in 1 .. 2 * HardwareNum, i % 2 = 1
        PROVE  (i + 1) \div 2 \in Triggers
    BY <1>1, <2>1 DEF Triggers, Do
  <2>2. ASSUME NEW i \in 1 .. 2 * HardwareNum
        PROVE  ClearTriggers[i] \in Accesses
    BY <2>1 DEF ClearTriggers, Do, Accesses
  <2>3. ClearTriggers \in [1 .. 2 * HardwareNum -> Accesses]
    BY <2>2 DEF ClearTriggers, Do
  <2>4. ClearTriggers \in Seq(Accesses) /\ Len(ClearTriggers) = 2 * HardwareNum
    BY <2>3, <1>1, LenProperties DEF Do
  <2>5. ASSUME NEW t \in Triggers
        PROVE  /\ 2 * t - 1 \in 1 .. 2 * HardwareNum /\ (2 * t - 1) % 2 = 1
               /\ ((2 * t - 1) + 1) \div 2 = t
               /\ 2 * t \in 1 .. 2 * HardwareNum /\ (2 * t) % 2 = 0
    BY <1>1 DEF Triggers, Do
  <2>6. ASSUME NEW t \in Triggers
        PROVE  /\ ClearTriggers[2 * t - 1] = Do("select", ((2 * t - 1) + 1) \div 2)
               /\ ClearTriggers[2 * t] = Do("type", "unused")
    <3>1. 2 * t - 1 \in 1 .. 2 * HardwareNum /\ (2 * t - 1) % 2 = 1
      BY <2>5 DEF Do
    <3>2. 2 * t \in 1 .. 2 * HardwareNum /\ (2 * t) % 2 # 1
      BY <2>5 DEF Do
    <3>3. \A i \in 1 .. 2 * HardwareNum :
            ClearTriggers[i] = IF i % 2 = 1 THEN Do("select", (i + 1) \div 2)
                                            ELSE Do("type", "unused")
      BY DEF ClearTriggers, Do
    <3> HIDE DEF ClearTriggers
    <3> QED
      BY <3>1, <3>2, <3>3 DEF Do
  <2> QED
    BY <2>4, <2>5, <2>6 DEF Do
<1> HIDE DEF first, last, start
<1>6. /\ first \o ClearTriggers \in Seq(Accesses)
      /\ Len(first \o ClearTriggers) = 2 * HardwareNum + 3
      /\ \A i \in 1 .. 3 : (first \o ClearTriggers)[i] = first[i]
      /\ \A i \in 1 .. 2 * HardwareNum : (first \o ClearTriggers)[i + 3] = ClearTriggers[i]
  <2>1. \A i \in 1 .. 2 * HardwareNum : i + 3 = 3 + i
    BY <1>1 DEF Do
  <2>2. /\ first \o ClearTriggers \in Seq(Accesses)
        /\ Len(first \o ClearTriggers) = 3 + 2 * HardwareNum
        /\ \A i \in 1 .. 3 : (first \o ClearTriggers)[i] = first[i]
        /\ \A i \in 1 .. 2 * HardwareNum : (first \o ClearTriggers)[3 + i] = ClearTriggers[i]
    <3>1. /\ first \o ClearTriggers \in Seq(Accesses)
          /\ Len(first \o ClearTriggers) = Len(first) + Len(ClearTriggers)
          /\ \A i \in 1 .. Len(first) : (first \o ClearTriggers)[i] = first[i]
          /\ \A i \in 1 .. Len(ClearTriggers) : (first \o ClearTriggers)[Len(first) + i] = ClearTriggers[i]
      BY <1>3, <1>5, Joined, Zenon
    <3> QED
      BY <3>1, <1>3, <1>5 DEF Do
  <2>3. 3 + 2 * HardwareNum = 2 * HardwareNum + 3
    BY <1>1
  <2> DEFINE s1 == first \o ClearTriggers
             N == 2 * HardwareNum
  <2>4. ASSUME NEW i \in 1 .. N
        PROVE  s1[i + 3] = ClearTriggers[i]
    <3>1. s1[3 + i] = ClearTriggers[i] /\ i + 3 = 3 + i
      BY <2>1, <2>2, Zenon
    <3> HIDE DEF s1, N
    <3> QED
      BY <3>1
  <2> QED
    BY <2>2, <2>3, <2>4, Zenon
<1>7. /\ (first \o ClearTriggers) \o last \in Seq(Accesses)
      /\ Len((first \o ClearTriggers) \o last) = 2 * HardwareNum + 4
      /\ \A i \in 1 .. 3 : ((first \o ClearTriggers) \o last)[i] = first[i]
      /\ \A i \in 1 .. 2 * HardwareNum :
           ((first \o ClearTriggers) \o last)[i + 3] = ClearTriggers[i]
      /\ ((first \o ClearTriggers) \o last)[2 * HardwareNum + 4] = last[1]
  <2> DEFINE s1 == first \o ClearTriggers
  <2>1. s1 \in Seq(Accesses) /\ Len(s1) = 2 * HardwareNum + 3
    BY <1>6 DEF Do
  <2>2. /\ s1 \o last \in Seq(Accesses) /\ Len(s1 \o last) = (2 * HardwareNum + 3) + 1
        /\ \A i \in 1 .. 2 * HardwareNum + 3 : (s1 \o last)[i] = s1[i]
        /\ (s1 \o last)[(2 * HardwareNum + 3) + 1] = last[1]
    <3> HIDE DEF s1
    <3>1. 1 \in 1 .. Len(last)
      BY <1>4 DEF Do
    <3> QED
      BY <2>1, <3>1, <1>4, Joined DEF Do
  <2>3. /\ \A i \in 1 .. 3 : i \in 1 .. 2 * HardwareNum + 3
        /\ \A i \in 1 .. 2 * HardwareNum : i + 3 \in 1 .. 2 * HardwareNum + 3
        /\ (2 * HardwareNum + 3) + 1 = 2 * HardwareNum + 4
    BY <1>1 DEF Do
  <2> QED
    BY <2>2, <2>3, <1>6 DEF Do
<1>8. AfterHalted = (first \o ClearTriggers) \o last
  BY DEF AfterHalted, first, last, Do
<1>9. /\ start \o AfterHalted \in Seq(Accesses)
      /\ Len(start \o AfterHalted) = 2 * HardwareNum + 7
      /\ \A i \in 1 .. 3 : (start \o AfterHalted)[i] = start[i]
      /\ \A i \in 1 .. 2 * HardwareNum + 4 : (start \o AfterHalted)[i + 3] = AfterHalted[i]
  <2>1. AfterHalted \in Seq(Accesses) /\ Len(AfterHalted) = 2 * HardwareNum + 4
    BY <1>7, <1>8 DEF Do
  <2>2. /\ start \o AfterHalted \in Seq(Accesses)
        /\ Len(start \o AfterHalted) = 3 + (2 * HardwareNum + 4)
        /\ \A i \in 1 .. 3 : (start \o AfterHalted)[i] = start[i]
        /\ \A i \in 1 .. 2 * HardwareNum + 4 : (start \o AfterHalted)[3 + i] = AfterHalted[i]
    <3> HIDE DEF start
    <3>1. /\ start \o AfterHalted \in Seq(Accesses)
          /\ Len(start \o AfterHalted) = Len(start) + Len(AfterHalted)
          /\ \A i \in 1 .. Len(start) : (start \o AfterHalted)[i] = start[i]
          /\ \A i \in 1 .. Len(AfterHalted) : (start \o AfterHalted)[Len(start) + i] = AfterHalted[i]
      BY <2>1, <1>2, Joined, Zenon
    <3> QED
      BY <3>1, <2>1, <1>2 DEF Do
  <2>3. /\ \A i \in 1 .. 2 * HardwareNum + 4 : i + 3 = 3 + i
        /\ 3 + (2 * HardwareNum + 4) = 2 * HardwareNum + 7
    BY <1>1 DEF Do
  <2> QED
    BY <2>2, <2>3 DEF Do
<1>10. ConnectList = start \o AfterHalted
  BY DEF ConnectList, start, Do
<1> HIDE DEF ConnectList
<1>11. /\ \A i \in 1 .. 3 : ConnectList[i] = start[i]
       /\ \A i \in 1 .. 3 : ConnectList[i + 3] = first[i]
       /\ \A i \in 1 .. 2 * HardwareNum : ConnectList[i + 6] = ClearTriggers[i]
       /\ ConnectList[2 * HardwareNum + 7] = last[1]
  <2>1. /\ \A i \in 1 .. 2 * HardwareNum : i + 3 \in 1 .. 2 * HardwareNum + 4 /\ (i + 3) + 3 = i + 6
        /\ \A i \in 1 .. 3 : i \in 1 .. 2 * HardwareNum + 4
        /\ 2 * HardwareNum + 4 \in 1 .. 2 * HardwareNum + 4
        /\ (2 * HardwareNum + 4) + 3 = 2 * HardwareNum + 7
    BY <1>1 DEF Do
  <2>2. \A i \in 1 .. 2 * HardwareNum + 4 : ConnectList[i + 3] = AfterHalted[i]
    BY <1>9, <1>10 DEF Do
  <2>3. \A i \in 1 .. 2 * HardwareNum : ConnectList[(i + 3) + 3] = AfterHalted[i + 3]
    BY <2>1, <2>2 DEF Do
  <2>4. ConnectList[(2 * HardwareNum + 4) + 3] = AfterHalted[2 * HardwareNum + 4]
    BY <2>1, <2>2 DEF Do
  <2>5. \A i \in 1 .. 3 : ConnectList[i + 3] = first[i]
    BY <2>1, <2>2, <1>7, <1>8 DEF Do
  <2>6. \A i \in 1 .. 2 * HardwareNum : ConnectList[i + 6] = ClearTriggers[i]
    BY <2>1, <2>3, <1>7, <1>8 DEF Do
  <2>7. ConnectList[2 * HardwareNum + 7] = last[1]
    BY <2>1, <2>4, <1>7, <1>8 DEF Do
  <2> QED
    BY <2>5, <2>6, <2>7, <1>9, <1>10 DEF Do
<1>12. ASSUME NEW t \in Triggers
       PROVE  /\ ConnectList[2 * t + 5] = Do("select", t)
              /\ ConnectList[2 * t + 6] = Do("type", "unused")
  <2>1. 2 * t - 1 \in 1 .. 2 * HardwareNum /\ 2 * t \in 1 .. 2 * HardwareNum
        /\ (2 * t - 1) + 6 = 2 * t + 5
    BY <1>1 DEF Triggers, Do
  <2> QED
    BY <2>1, <1>5, <1>11 DEF Do
<1> QED
  <2>1. ConnectList[4] = first[1] /\ ConnectList[5] = first[2] /\ ConnectList[6] = first[3]
    <3>1. ConnectList[1 + 3] = first[1] /\ ConnectList[2 + 3] = first[2]
          /\ ConnectList[3 + 3] = first[3]
      <4>1. 1 \in 1 .. 3 /\ 2 \in 1 .. 3 /\ 3 \in 1 .. 3
        OBVIOUS
      <4> QED
        BY <4>1, <1>11 DEF Do
    <3>2. 1 + 3 = 4 /\ 2 + 3 = 5 /\ 3 + 3 = 6
      OBVIOUS
    <3> QED
      BY <3>1, <3>2 DEF Do
  <2>2. ConnectList[1] = start[1] /\ ConnectList[2] = start[2] /\ ConnectList[3] = start[3]
    BY <1>11 DEF Do
  <2> QED
    BY <2>1, <2>2, <1>2, <1>3, <1>4, <1>9, <1>10, <1>11, <1>12 DEF Do

(***************************************************************************)
(* Types.                                                                  *)
(***************************************************************************)
LEMMA EmptyTodo == <<>> \in Seq(Accesses)
OBVIOUS

\* Points are breakpoints at code and watchpoints at data.
LEMMA PointType ==
  ASSUME NEW p \in Points
  PROVE  /\ p = <<p[1], p[2]>>
         /\ p[1] = "software" => p[2] \in CodeAddrs
         /\ p[1] # "software" => p[1] \in HardTypes /\ p[2] \in Addrs
BY TargetAssumption DEF HardTypes, WatchTypes, Addrs

LEMMA InitType == Init => TypeInv
<1> SUFFICES ASSUME Init  PROVE  TypeInv
  OBVIOUS
<1>1. HartTypeOK
  <2>1. 1 \in Triggers
    BY HartAssumption DEF Triggers
  <2>2. NoStop \in Stop
    BY DEF NoStop, Stop, Halted
  <2>3. NoSlot \in SlotType
    BY DEF NoSlot, SlotType
  <2> QED
    BY <2>1, <2>2, <2>3 DEF Init, HartInit, HartTypeOK, Dcsr, Inst
<1>2. image \in Images
  BY DEF Init, NoImage, Images, Dcsr
<1>3. slots \in [Triggers -> SlotType] /\ soft \in [SoftSlots -> SoftType]
  BY DEF Init, NoSlot, SlotType, NoSoft, SoftType, Inst
<1>4. MaxAfter \in Nat
  BY TargetAssumption
<1>5. report.reason \in HardTypes \cup {"none", "running", "software", "other"}
      /\ report.addr \in DataAddrs \cup {Nowhere, Zero}
  BY DEF Init, NoReport
<1>6. after \in 0 .. MaxAfter
  BY <1>4 DEF Init
<1>7. todo = <<>> /\ op = "none" /\ errMsg = FALSE /\ connected = FALSE /\ running = FALSE
      /\ targetError = "none" /\ left = {} /\ wiped = FALSE
  BY DEF Init
<1> QED
  BY <1>1, <1>2, <1>3, <1>5, <1>6, <1>7, EmptyTodo DEF TypeInv, TypeOK

LEMMA CommandType ==
  ASSUME TypeInv, Command
  PROVE  after' \in 0 .. MaxAfter
BY TargetAssumption DEF TypeInv, TypeOK, Command

LEMMA ConnectKeepsType == TypeInv /\ Connect => TypeInv'
<1> SUFFICES ASSUME TypeInv, Connect  PROVE  TypeInv'
  OBVIOUS
<1>1. todo' \in Seq(Accesses)
  BY ConnectType, EmptyTodo DEF Connect, Call, ConnectList
<1>2. slots' \in [Triggers -> SlotType] /\ soft' \in [SoftSlots -> SoftType]
  BY DEF TypeInv, TypeOK, Connect, SlotType, NoSoft, SoftType, Inst
<1>3. HartTypeOK'
  BY DEF TypeInv, TypeOK, HartTypeOK, Connect, Call, hartVars
<1>4. after' \in 0 .. MaxAfter /\ left' \subseteq CodeAddrs
  BY TargetAssumption DEF Connect
<1>5. op' = "connect" /\ targetError' \in {"none", "line", "debug_module"}
      /\ wiped' = FALSE /\ errMsg' = FALSE
      /\ UNCHANGED <<image, connected, running, report>>
  BY DEF Connect, Call
<1> QED
  BY <1>1, <1>2, <1>3, <1>4, <1>5 DEF TypeInv, TypeOK

\* The calls that change no table.
LEMMA CallKeepsType ==
  TypeInv /\ (Disconnect \/ Continue \/ SingleStep \/ Access \/ MonitorReset
                \/ CtrlC \/ HaltCheck)
    => TypeInv'
<1> SUFFICES ASSUME TypeInv,
                    Disconnect \/ Continue \/ SingleStep \/ Access \/ MonitorReset
                      \/ CtrlC \/ HaltCheck
             PROVE  TypeInv'
  OBVIOUS
<1>1. todo' \in Seq(Accesses)
  <2>1. /\ <<Do("register", "none")>> \in Seq(Accesses) /\ <<Do("memory", "none")>> \in Seq(Accesses)
        /\ <<Do("status", "none")>> \in Seq(Accesses)
    BY DEF Do, Accesses
  <2>2. EditDcsr("prv") \in Seq(Accesses)
    BY EditType
  <2> QED
    BY <2>1, <2>2, EmptyTodo, FiniType, ResumeType, StepType, ResetType, HaltType
       DEF Disconnect, Continue, SingleStep, Access, MonitorReset, CtrlC, HaltCheck, Call
<1>2. op' \in {"disconnect", "continue", "step", "access", "reset", "ctrl_c", "halt_check"}
  BY DEF Disconnect, Continue, SingleStep, Access, MonitorReset, CtrlC, HaltCheck, Call
<1>3. UNCHANGED <<hartVars, image, connected, running, slots, soft, errMsg, targetError,
                  report, left>>
  BY DEF Disconnect, Continue, SingleStep, Access, MonitorReset, CtrlC, HaltCheck, Call,
         historyVars
<1>4. after' \in 0 .. MaxAfter /\ wiped' \in BOOLEAN
  BY CommandType DEF TypeInv, TypeOK, Disconnect, Continue, SingleStep, Access, MonitorReset,
                     CtrlC, HaltCheck, historyVars
<1>5. HartTypeOK'
  BY <1>3 DEF TypeInv, TypeOK, HartTypeOK, hartVars
<1> QED
  BY <1>1, <1>2, <1>3, <1>4, <1>5 DEF TypeInv, TypeOK

LEMMA InsertKeepsType ==
  ASSUME TypeInv, NEW p \in Points, Insert(p)
  PROVE  TypeInv'
<1>0. /\ HartTypeOK' /\ after' \in 0 .. MaxAfter /\ op' = "insert"
      /\ UNCHANGED <<image, connected, running, errMsg, targetError, report, left, wiped>>
  <2>1. UNCHANGED hartVars
    BY DEF Insert, Call
  <2> QED
    BY <2>1, CommandType DEF TypeInv, TypeOK, HartTypeOK, Insert, Call, hartVars
<1> DEFINE Refusal == todo' = <<>> /\ UNCHANGED <<slots, soft>>
<1>3. CASE Refusal
  BY <1>0, <1>3, EmptyTodo DEF TypeInv, TypeOK
<1>1. CASE p[1] = "software" /\ ~Refusal
  <2>1. PICK s \in SoftSlots :
          /\ soft' = [soft EXCEPT ![s].used = TRUE, ![s].addr = p[2]]
          /\ todo' = InsertSoft(s, p[2])
    BY <1>1 DEF Insert, Call
  <2>2. p[2] \in CodeAddrs /\ UNCHANGED slots
    BY <1>1, PointType DEF Insert
  <2>3. todo' \in Seq(Accesses)
    BY <2>1, <2>2, SoftTypes
  <2>4. soft' \in [SoftSlots -> SoftType]
    BY <2>1, <2>2 DEF TypeInv, TypeOK, SoftType
  <2> QED
    BY <2>2, <2>3, <2>4, <1>0 DEF TypeInv, TypeOK
<1>2. CASE p[1] # "software" /\ ~Refusal
  <2>1. PICK t \in Triggers :
          /\ slots' = [slots EXCEPT ![t] = [type |-> p[1], addr |-> p[2]]]
          /\ todo' = InsertHard(t, p)
    BY <1>2 DEF Insert, Call
  <2>2. p = <<p[1], p[2]>> /\ p[1] \in HardTypes /\ p[2] \in Addrs /\ UNCHANGED soft
    BY <1>2, PointType DEF Insert
  <2>3. todo' \in Seq(Accesses)
    <3>1. InsertHard(t, <<p[1], p[2]>>) \in Seq(Accesses)
      BY <2>2, HardTypeLists
    <3> QED
      BY <2>1, <2>2, <3>1
  <2>4. slots' \in [Triggers -> SlotType]
    BY <2>1, <2>2 DEF TypeInv, TypeOK, SlotType
  <2> QED
    BY <2>2, <2>3, <2>4, <1>0 DEF TypeInv, TypeOK
<1> QED
  BY <1>1, <1>2, <1>3

LEMMA RemoveKeepsType ==
  ASSUME TypeInv, NEW p \in Points, Remove(p)
  PROVE  TypeInv'
<1>1. todo' \in Seq(Accesses)
  <2>1. CASE p[1] = "software"
    <3>1. PICK s \in SoftSlots : soft[s].addr = p[2] /\ todo' = RemoveSoft(s)
      BY <2>1 DEF Remove, Call, First
    <3>2. soft[s].addr \in CodeAddrs /\ soft[s].orig \in Inst
      BY <2>1, <3>1, PointType DEF TypeInv, TypeOK, SoftType
    <3> QED
      BY <3>1, <3>2, WriteType DEF RemoveSoft
  <2>2. CASE p[1] # "software"
    BY <2>2, RemoveHardType DEF Remove, Call
  <2> QED
    BY <2>1, <2>2
<1>2. slots' \in [Triggers -> SlotType] /\ soft' \in [SoftSlots -> SoftType]
  <2>1. NoSoft \in SoftType
    BY DEF NoSoft, SoftType, Inst
  <2>2. CASE p[1] = "software"
    <3>1. PICK s \in SoftSlots : soft' = [soft EXCEPT ![s] = NoSoft] /\ UNCHANGED slots
      BY <2>2 DEF Remove
    <3> QED
      BY <2>1, <3>1 DEF TypeInv, TypeOK
  <2>3. CASE p[1] # "software"
    <3>1. PICK t \in Triggers : slots' = [slots EXCEPT ![t].type = "unused"] /\ UNCHANGED soft
      BY <2>3 DEF Remove
    <3> QED
      BY <3>1 DEF TypeInv, TypeOK, SlotType
  <2> QED
    BY <2>2, <2>3
<1>3. HartTypeOK'
  BY DEF TypeInv, TypeOK, HartTypeOK, Remove, Call, hartVars
<1>4. after' \in 0 .. MaxAfter
  BY CommandType DEF Remove
<1>5. op' = "remove" /\ UNCHANGED <<image, connected, running, errMsg, targetError, report,
                                    left, wiped>>
  BY DEF Remove, Call
<1> QED
  BY <1>1, <1>2, <1>3, <1>4, <1>5 DEF TypeInv, TypeOK

LEMMA AccessTaken ==
  ASSUME TypeInv, NEW what, Next1(what)
  PROVE  /\ Head(todo) \in Accesses /\ Head(todo).do = what /\ todo # <<>>
         /\ todo' \in Seq(Accesses) /\ todo' = Tail(todo) /\ UNCHANGED op
BY TodoHead DEF TypeInv, Next1

LEMMA ArgType ==
  ASSUME Head(todo) \in Accesses
  PROVE  /\ Head(todo).do = "select" => Arg \in Triggers
         /\ Head(todo).do = "type" => Arg \in HardTypes \cup {"unused"}
         /\ Head(todo).do = "addr" => Arg \in Addrs
         /\ Head(todo).do = "read_mem" => Arg \in SoftSlots
         /\ Head(todo).do = "write_mem" => Arg.addr \in CodeAddrs /\ Arg.inst \in Inst
BY DEF Accesses, Arg

LEMMA ImageType ==
  /\ AllOnes \in Images /\ Dcsr \subseteq Images
  /\ \A e : image \in Images => Edited(e) \in Images
  /\ \A i \in Images : Written(i) \in Dcsr
<1>1. AllOnes \in Images /\ Dcsr \subseteq Images
  BY DEF AllOnes, Images
<1>2. ASSUME NEW e, image \in Images
      PROVE  Edited(e) \in Images
  <2>1. \A b \in BOOLEAN : /\ [image EXCEPT !.ebreak = b] \in Images
                           /\ [image EXCEPT !.step = b] \in Images
    BY <1>2 DEF Images, Dcsr
  <2> QED
    BY <2>1, <1>2 DEF Edited
<1>3. ASSUME NEW i \in Images
      PROVE  Written(i) \in Dcsr
  BY DEF Images, Dcsr, Written
<1> QED
  BY <1>1, <1>2, <1>3

LEMMA ReportType ==
  ASSUME TypeInv
  PROVE  /\ TriggerReason.reason \in HardTypes \cup {"none", "running", "software", "other"}
         /\ TriggerReason.addr \in DataAddrs \cup {Nowhere, Zero}
         /\ TriggerReason.reason # "running"
<1>1. Decoded \in DataAddrs \cup {Nowhere, Zero}
  BY DEF TypeInv, TypeOK, HartTypeOK, Stop, Decoded
<1>2. WatchTypes \subseteq HardTypes /\ "hardware" \in HardTypes /\ "running" \notin WatchTypes
  BY DEF HardTypes, WatchTypes
<1> QED
  BY <1>1, <1>2 DEF TriggerReason

LEMMA ControlKeepsType == TypeInv /\ WriteControl => TypeInv'
<1> SUFFICES ASSUME TypeInv, WriteControl  PROVE  TypeInv'
  OBVIOUS
<1>1. todo' \in Seq(Accesses) /\ UNCHANGED op
  BY AccessTaken DEF WriteControl
<1>2. UNCHANGED <<image, errMsg, slots, soft, connected, running, targetError, report, left,
                  wiped, after>>
  BY DEF WriteControl, Quiet, serverVars, historyVars
<1>3. HartTypeOK
  BY DEF TypeInv, TypeOK
<1>4. active' \in BOOLEAN /\ haltReq' \in BOOLEAN
  BY DEF WriteControl, Control, WriteResume, WriteReset
<1>5. CASE UNCHANGED <<hart, stop, registers>>
  BY <1>1, <1>2, <1>3, <1>4, <1>5 DEF TypeInv, TypeOK, HartTypeOK, registers
<1>6. NoStop \in Stop /\ NoSlot \in SlotType
  BY DEF NoStop, Stop, Halted, NoSlot, SlotType
<1>7. CASE WriteResume
  BY <1>1, <1>2, <1>3, <1>4, <1>6, <1>7 DEF TypeInv, TypeOK, HartTypeOK, WriteResume, registers
<1>8. CASE WriteReset
  <2>1. dcsr' \in Dcsr
    BY <1>3, <1>8 DEF WriteReset, HartTypeOK, Dcsr
  <2>2. triggers' \in [Triggers -> SlotType]
    BY <1>3, <1>6, <1>8 DEF WriteReset, HartTypeOK
  <2> QED
    BY <1>1, <1>2, <1>3, <1>4, <1>6, <1>8, <2>1, <2>2 DEF TypeInv, TypeOK, HartTypeOK, WriteReset
<1> QED
  BY <1>5, <1>7, <1>8 DEF WriteControl

LEMMA DcsrKeepsType == TypeInv /\ (ReadDcsr \/ WriteDcsr \/ CheckVersion) => TypeInv'
<1> SUFFICES ASSUME TypeInv, ReadDcsr \/ WriteDcsr \/ CheckVersion  PROVE  TypeInv'
  OBVIOUS
<1>1. todo' \in Seq(Accesses) /\ UNCHANGED op
  BY AccessTaken, TodoHead, EmptyTodo DEF TypeInv, ReadDcsr, WriteDcsr, CheckVersion
<1>2. image' \in Images
  BY ImageType DEF TypeInv, TypeOK, HartTypeOK, ReadDcsr, WriteDcsr, CheckVersion
<1>3. dcsr' \in Dcsr
  BY ImageType DEF TypeInv, TypeOK, HartTypeOK, ReadDcsr, WriteDcsr, CheckVersion, hartVars
<1>4. /\ errMsg' \in BOOLEAN
      /\ targetError' \in {"none", "line", "debug_module", "compat", "protected"}
  BY DEF TypeInv, TypeOK, ReadDcsr, WriteDcsr, CheckVersion, NoteError, Refused, Quiet,
         serverVars
<1>5. UNCHANGED <<hart, active, haltReq, stop, tselect, triggers, mem, slots, soft, connected,
                  running, report, left, wiped, after>>
  BY DEF ReadDcsr, WriteDcsr, CheckVersion, Quiet, serverVars, historyVars, hartVars
<1> QED
  BY <1>1, <1>2, <1>3, <1>4, <1>5 DEF TypeInv, TypeOK, HartTypeOK

LEMMA TriggerKeepsType == TypeInv /\ WriteTrigger => TypeInv'
<1> SUFFICES ASSUME TypeInv, WriteTrigger  PROVE  TypeInv'
  OBVIOUS
<1>1. todo' \in Seq(Accesses) /\ UNCHANGED op
  BY AccessTaken DEF WriteTrigger
<1>2. tselect' \in Triggers
  BY AccessTaken, ArgType DEF TypeInv, TypeOK, HartTypeOK, WriteTrigger
<1>3. triggers' \in [Triggers -> SlotType]
  <2>1. \A k \in HardTypes \cup {"unused"} : Typed(k) \in SlotType
    BY DEF TypeInv, TypeOK, HartTypeOK, Typed, NoSlot, SlotType
  <2>2. CASE Next1("select") /\ UNCHANGED triggers
    BY <2>2 DEF TypeInv, TypeOK, HartTypeOK
  <2>3. CASE /\ Next1("type")
             /\ triggers' = IF Refused THEN triggers ELSE [triggers EXCEPT ![tselect] = Typed(Arg)]
    <3>1. Arg \in HardTypes \cup {"unused"}
      BY <2>3, AccessTaken, ArgType
    <3> QED
      BY <2>1, <2>3, <3>1 DEF TypeInv, TypeOK, HartTypeOK
  <2>4. CASE /\ Next1("addr")
             /\ triggers' = IF Refused THEN triggers ELSE [triggers EXCEPT ![tselect].addr = Arg]
    <3>1. Arg \in Addrs
      BY <2>4, AccessTaken, ArgType
    <3> QED
      BY <2>4, <3>1 DEF TypeInv, TypeOK, HartTypeOK, SlotType
  <2> QED
    BY <2>2, <2>3, <2>4 DEF WriteTrigger
<1>4. errMsg' \in BOOLEAN
  BY DEF TypeInv, TypeOK, WriteTrigger, NoteError, Refused
<1>5. UNCHANGED <<hart, active, haltReq, dcsr, stop, mem, image, slots, soft, connected,
                  running, targetError, report, left, wiped, after>>
  BY DEF WriteTrigger, Quiet, serverVars, historyVars
<1> QED
  BY <1>1, <1>2, <1>3, <1>4, <1>5 DEF TypeInv, TypeOK, HartTypeOK

(***************************************************************************)
(* What the next access of a call is, by what is left.                     *)
(***************************************************************************)
LEMMA ConnectHead ==
  ASSUME TypeInv, ListInv, todo # <<>>, op = "connect"
  PROVE  /\ targetError = "none" /\ Left \in 1 .. 2 * HardwareNum + 7
         /\ Rest(Tail(todo), ConnectList)
         /\ Head(todo).do \in {"off", "on", "halt", "read_dcsr", "check", "write_dcsr",
                               "select", "type", "protection"}
         /\ Head(todo).do \in {"off", "on"} => Left >= 2 * HardwareNum + 6
         /\ Head(todo).do = "halt" => Left = 2 * HardwareNum + 5
         /\ Head(todo).do = "read_dcsr" => Left = 2 * HardwareNum + 4
         /\ Head(todo).do = "check" => Left = 2 * HardwareNum + 3
         /\ Head(todo).do = "write_dcsr" => Left = 2 * HardwareNum + 2 /\ Arg = "ebreak_on"
         /\ Head(todo).do = "select" => Arg \in Triggers /\ Left = 2 * HardwareNum + 3 - 2 * Arg
         /\ Head(todo).do = "type" =>
              Arg = "unused" /\ \E t \in Triggers : Left = 2 * HardwareNum + 2 - 2 * t
         /\ Head(todo).do = "protection" => Left = 1
<1> DEFINE N == HardwareNum
           j == 2 * N + 8 - Left
<1>1. N \in Nat /\ N > 0
  BY HartAssumption
<1>2. targetError = "none" /\ Rest(todo, ConnectList) /\ todo \in Seq(Accesses)
  BY DEF ListInv, TypeInv
<1>3. ConnectList \in Seq(Accesses) /\ Len(ConnectList) = 2 * N + 7
  BY ConnectType
<1>4. /\ Head(todo) = ConnectList[(2 * N + 7) - Left + 1]
      /\ Left \in 1 .. 2 * N + 7 /\ Rest(Tail(todo), ConnectList)
  BY <1>2, <1>3, RestNext
<1>5. j \in 1 .. 2 * N + 7 /\ (2 * N + 7) - Left + 1 = j /\ Left = 2 * N + 8 - j
  BY <1>1, <1>4
<1>6. Head(todo) = ConnectList[j]
  BY <1>4, <1>5
<1> HIDE DEF N, j
<1>7. CASE j \in 1 .. 6
  <2>1. /\ j = 1 => Head(todo).do = "off"
        /\ j = 2 => Head(todo).do = "on"
        /\ j = 3 => Head(todo).do = "halt"
        /\ j = 4 => Head(todo).do = "read_dcsr"
        /\ j = 5 => Head(todo).do = "check"
        /\ j = 6 => Head(todo).do = "write_dcsr" /\ Head(todo).arg = "ebreak_on"
    BY <1>6, ConnectType DEF Do
  <2>2. Left = 2 * N + 8 - j /\ targetError = "none"
    BY <1>2, <1>5
  <2>3. CASE j = 1
    <3>1. Left = 2 * N + 7 /\ Head(todo).do = "off"
      BY <1>1, <2>1, <2>2, <2>3
    <3> QED
      BY <1>1, <1>4, <2>1, <2>2, <2>3, <3>1 DEF Arg, N
  <2>4. CASE j = 2
    <3>1. Left = 2 * N + 6 /\ Head(todo).do = "on"
      BY <1>1, <2>1, <2>2, <2>4
    <3> QED
      BY <1>1, <1>4, <2>1, <2>2, <2>4, <3>1 DEF Arg, N
  <2>5. CASE j = 3
    <3>1. Left = 2 * N + 5 /\ Head(todo).do = "halt"
      BY <1>1, <2>1, <2>2, <2>5
    <3> QED
      BY <1>1, <1>4, <2>1, <2>2, <2>5, <3>1 DEF Arg, N
  <2>6. CASE j = 4
    <3>1. Left = 2 * N + 4 /\ Head(todo).do = "read_dcsr"
      BY <1>1, <2>1, <2>2, <2>6
    <3> QED
      BY <1>1, <1>4, <2>1, <2>2, <2>6, <3>1 DEF Arg, N
  <2>7. CASE j = 5
    <3>1. Left = 2 * N + 3 /\ Head(todo).do = "check"
      BY <1>1, <2>1, <2>2, <2>7
    <3> QED
      BY <1>1, <1>4, <2>1, <2>2, <2>7, <3>1 DEF Arg, N
  <2>8. CASE j = 6
    <3>1. Left = 2 * N + 2 /\ Head(todo).do = "write_dcsr"
      BY <1>1, <2>1, <2>2, <2>8
    <3> QED
      BY <1>1, <1>4, <2>1, <2>2, <2>8, <3>1 DEF Arg, N
  <2> QED
    BY <1>7, <2>3, <2>4, <2>5, <2>6, <2>7, <2>8
<1>8. CASE j = 2 * N + 7
  <2>1. Head(todo).do = "protection"
    BY <1>6, <1>8, ConnectType DEF Do, N
  <2>2. Left = 1
    BY <1>1, <1>5, <1>8
  <2> QED
    BY <1>1, <1>2, <1>4, <2>1, <2>2 DEF N
<1>9. CASE j \in 7 .. 2 * N + 6
  <2>1. PICK t \in Triggers : j = 2 * t + 5 \/ j = 2 * t + 6
    <3>1. CASE j % 2 = 1
      <4>1. (j - 5) \div 2 \in Triggers /\ j = 2 * ((j - 5) \div 2) + 5
        BY <1>1, <1>9, <3>1 DEF Triggers, N
      <4> QED
        BY <4>1
    <3>2. CASE j % 2 # 1
      <4>1. (j - 6) \div 2 \in Triggers /\ j = 2 * ((j - 6) \div 2) + 6
        BY <1>1, <1>9, <3>2 DEF Triggers, N
      <4> QED
        BY <4>1
    <3> QED
      BY <3>1, <3>2
  <2>2. t \in Int
    BY <1>1 DEF Triggers, N
  <2>3. CASE j = 2 * t + 5
    <3>1. Head(todo) = Do("select", t)
      BY <1>6, <2>3, ConnectType DEF Do
    <3>2. Head(todo).do = "select" /\ Arg = t
      BY <3>1 DEF Do, Arg
    <3>3. Left = 2 * N + 3 - 2 * t
      BY <1>1, <1>5, <2>2, <2>3
    <3> QED
      BY <1>2, <1>4, <3>2, <3>3 DEF N
  <2>4. CASE j = 2 * t + 6
    <3>1. Head(todo) = Do("type", "unused")
      BY <1>6, <2>4, ConnectType DEF Do
    <3>2. Head(todo).do = "type" /\ Arg = "unused"
      BY <3>1 DEF Do, Arg
    <3>3. Left = 2 * N + 2 - 2 * t
      BY <1>1, <1>5, <2>2, <2>4
    <3> QED
      BY <1>2, <1>4, <3>2, <3>3 DEF N
  <2> QED
    BY <2>1, <2>3, <2>4
<1>10. j \in 1 .. 6 \/ j = 2 * N + 7 \/ j \in 7 .. 2 * N + 6
  BY <1>1, <1>5
<1> QED
  BY <1>7, <1>8, <1>9, <1>10

LEMMA RunHead ==
  ASSUME TypeInv, ListInv, todo # <<>>, op \in {"continue", "step"}
  PROVE  /\ Head(todo).do \in {"read_dcsr", "write_dcsr", "resume"}
         /\ Head(todo).do = "read_dcsr" => Left = 3
         /\ Head(todo).do = "write_dcsr" => Left = 2 /\ Arg \in {"run", "step"}
         /\ Head(todo).do = "resume" => Left = 1
         /\ Left \in 1 .. 3
<1>1. todo \in Seq(Accesses)
  BY DEF TypeInv
<1>2. CASE op = "continue"
  <2>1. Head(todo) = Resume[3 - Left + 1] /\ Left \in 1 .. 3
    BY <1>1, <1>2, RestNext, ResumeType DEF ListInv
  <2> QED
    BY <2>1, ResumeType DEF Do, Arg
<1>3. CASE op = "step"
  <2>1. Head(todo) = Step[3 - Left + 1] /\ Left \in 1 .. 3
    BY <1>1, <1>3, RestNext, StepType DEF ListInv
  <2> QED
    BY <2>1, StepType DEF Do, Arg
<1> QED
  BY <1>2, <1>3

LEMMA DisconnectHead ==
  ASSUME TypeInv, ListInv, todo # <<>>, op = "disconnect"
  PROVE  Head(todo).do \in {"read_dcsr", "write_dcsr", "resume", "off"}
<1> DEFINE list == Resume \o FiniPre
<1>1. /\ list \in Seq(Accesses) /\ Len(list) = 6
      /\ \A i \in 1 .. 6 : list[i].do \in {"read_dcsr", "write_dcsr", "resume", "off"}
  BY FiniType
<1>2. Rest(todo, list) /\ todo \in Seq(Accesses)
  BY DEF TypeInv, ListInv
<1> HIDE DEF list
<1>3. Head(todo) = list[6 - Left + 1] /\ Left \in 1 .. 6
  BY <1>1, <1>2, RestNext
<1>4. 6 - Left + 1 \in 1 .. 6
  BY <1>3
<1> QED
  BY <1>1, <1>3, <1>4

LEMMA AccessHead ==
  ASSUME TypeInv, ListInv, todo # <<>>, op = "access"
  PROVE  /\ Head(todo).do \in {"register", "memory", "read_dcsr", "write_dcsr"}
         /\ Head(todo).do = "read_dcsr" => Left = 2
         /\ Head(todo).do = "write_dcsr" => Left = 1 /\ Arg = "prv"
         /\ Head(todo).do \in {"register", "memory"} => Left = 1
<1>1. todo \in Seq(Accesses)
  BY DEF TypeInv
<1>3. ASSUME NEW do \in {"register", "memory"}, Rest(todo, <<Do(do, "none")>>)
      PROVE  Head(todo).do = do /\ Left = 1
  <2> DEFINE one == <<Do(do, "none")>>
  <2>1. one \in Seq(Accesses) /\ Len(one) = 1 /\ one[1] = Do(do, "none")
    BY DEF Do, Accesses
  <2>2. Rest(todo, one)
    BY <1>3
  <2> HIDE DEF one
  <2>3. Head(todo) = one[1 - Left + 1] /\ Left \in 1 .. 1
    BY <1>1, <2>1, <2>2, RestNext DEF Do
  <2> QED
    BY <2>1, <2>3 DEF Do
<1>4. CASE Rest(todo, EditDcsr("prv"))
  <2>1. /\ EditDcsr("prv") \in Seq(Accesses) /\ Len(EditDcsr("prv")) = 2
        /\ EditDcsr("prv")[1] = Do("read_dcsr", "none")
        /\ EditDcsr("prv")[2] = Do("write_dcsr", "prv")
    BY EditType
  <2>2. Head(todo) = EditDcsr("prv")[2 - Left + 1] /\ Left \in 1 .. 2
    BY <1>1, <1>4, <2>1, RestNext DEF Do
  <2> QED
    BY <2>1, <2>2 DEF Do, Arg
<1> QED
  BY <1>3, <1>4 DEF ListInv

LEMMA ResetHead ==
  ASSUME TypeInv, ListInv, todo # <<>>, op = "reset"
  PROVE  Head(todo).do \in {"reset", "halt", "await"}
<1>1. Head(todo) = Reset[4 - Left + 1] /\ Left \in 1 .. 4
  BY RestNext, ResetType DEF TypeInv, ListInv
<1> QED
  BY <1>1, ResetType DEF Do

LEMMA CtrlCHead ==
  ASSUME TypeInv, ListInv, todo # <<>>, op = "ctrl_c"
  PROVE  Head(todo).do = "halt" /\ Left = 1
<1>1. Head(todo) = Halt[1 - Left + 1] /\ Left \in 1 .. 1
  BY RestNext, HaltType DEF TypeInv, ListInv
<1> QED
  BY <1>1, HaltType DEF Do

LEMMA HaltCheckHead ==
  ASSUME TypeInv, ListInv, todo # <<>>, op = "halt_check"
  PROVE  /\ Head(todo).do \in {"status", "read_dcsr", "cause"}
         /\ Head(todo).do = "read_dcsr" => Left = 2
         /\ Head(todo).do \in {"status", "cause"} => Left = 1
<1> DEFINE one == <<Do("status", "none")>>
           two == <<Do("read_dcsr", "none"), Do("cause", "none")>>
<1>1. todo \in Seq(Accesses)
  BY DEF TypeInv
<1>2. /\ one \in Seq(Accesses) /\ Len(one) = 1 /\ one[1] = Do("status", "none")
      /\ two \in Seq(Accesses) /\ Len(two) = 2 /\ two[1] = Do("read_dcsr", "none")
      /\ two[2] = Do("cause", "none")
  BY DEF Do, Accesses
<1>3. Rest(todo, one) \/ Rest(todo, two)
  BY Zenon DEF ListInv
<1> HIDE DEF one, two
<1>4. CASE Rest(todo, one)
  <2>1. Head(todo) = one[1 - Left + 1] /\ Left \in 1 .. 1
    BY <1>1, <1>2, <1>4, RestNext DEF Do
  <2> QED
    BY <2>1, <1>2 DEF Do
<1>5. CASE Rest(todo, two)
  <2>1. Head(todo) = two[2 - Left + 1] /\ Left \in 1 .. 2
    BY <1>1, <1>2, <1>5, RestNext DEF Do
  <2> QED
    BY <2>1, <1>2 DEF Do
<1> QED
  BY <1>3, <1>4, <1>5

LEMMA SoftInsertHead ==
  ASSUME TypeInv, SoftInv, todo # <<>>, NEW s \in SoftSlots, SoftInserting(s)
  PROVE  /\ soft[s].addr \in CodeAddrs /\ Left \in 1 .. 2
         /\ Left = 2 => Head(todo).do = "read_mem" /\ Arg = s
         /\ Left = 1 => /\ Head(todo).do = "write_mem"
                        /\ Arg = [addr |-> soft[s].addr, inst |-> "ebreak"]
         /\ Rest(Tail(todo), InsertSoft(s, soft[s].addr))
<1> DEFINE list == InsertSoft(s, soft[s].addr)
<1>1. soft[s].addr \in CodeAddrs
  BY DEF SoftInv, SoftInserting
<1>2. /\ list \in Seq(Accesses) /\ Len(list) = 2 /\ list[1] = Do("read_mem", s)
      /\ list[2] = Do("write_mem", [addr |-> soft[s].addr, inst |-> "ebreak"])
  BY <1>1, SoftTypes
<1>3. todo \in Seq(Accesses) /\ Rest(todo, list)
  BY DEF TypeInv, SoftInserting
<1> HIDE DEF list
<1>4. Head(todo) = list[2 - Left + 1] /\ Left \in 1 .. 2 /\ Rest(Tail(todo), list)
  BY <1>2, <1>3, RestNext DEF Do
<1> QED
  BY <1>1, <1>2, <1>4 DEF Do, Arg, list

LEMMA HardInsertHead ==
  ASSUME TypeInv, todo # <<>>, NEW t \in Triggers, HardInserting(t)
  PROVE  /\ Left \in 1 .. 3
         /\ Left = 3 => Head(todo).do = "select" /\ Arg = t
         /\ Left = 2 => Head(todo).do = "type" /\ Arg = slots[t].type
         /\ Left = 1 => Head(todo).do = "addr" /\ Arg = slots[t].addr
         /\ Rest(Tail(todo), InsertHard(t, <<slots[t].type, slots[t].addr>>))
<1> DEFINE k == slots[t].type
           a == slots[t].addr
           list == InsertHard(t, <<k, a>>)
<1>1. k \in HardTypes /\ a \in Addrs
  BY DEF TypeInv, TypeOK, SlotType, HardInserting
<1>2. /\ list \in Seq(Accesses) /\ Len(list) = 3 /\ list[1] = Do("select", t)
      /\ list[2] = Do("type", k) /\ list[3] = Do("addr", a)
  <2> HIDE DEF k, a
  <2> QED
    BY <1>1, HardTypeLists
<1>3. todo \in Seq(Accesses) /\ Rest(todo, list)
  BY DEF TypeInv, HardInserting
<1> HIDE DEF list
<1>4. Head(todo) = list[3 - Left + 1] /\ Left \in 1 .. 3 /\ Rest(Tail(todo), list)
  BY <1>2, <1>3, RestNext DEF Do
<1> QED
  BY <1>2, <1>4 DEF Do, Arg, list

LEMMA HardRemoveHead ==
  ASSUME TypeInv, todo # <<>>, NEW t \in Triggers, HardRemoving(t)
  PROVE  /\ Left \in 1 .. 2
         /\ Left = 2 => Head(todo).do = "select" /\ Arg = t
         /\ Left = 1 => Head(todo).do = "type" /\ Arg = "unused"
         /\ Rest(Tail(todo), RemoveHard(t))
<1> DEFINE list == RemoveHard(t)
<1>1. /\ list \in Seq(Accesses) /\ Len(list) = 2 /\ list[1] = Do("select", t)
      /\ list[2] = Do("type", "unused")
  BY RemoveHardType
<1>2. todo \in Seq(Accesses) /\ Rest(todo, list)
  BY DEF TypeInv, HardRemoving
<1> HIDE DEF list
<1>3. Head(todo) = list[2 - Left + 1] /\ Left \in 1 .. 2 /\ Rest(Tail(todo), list)
  BY <1>1, <1>2, RestNext DEF Do
<1> QED
  BY <1>1, <1>3 DEF Do, Arg, list

LEMMA SoftRemoveHead ==
  ASSUME TypeInv, todo # <<>>, NEW a \in CodeAddrs, NEW i \in Inst, SoftRemoving(a, i)
  PROVE  /\ Left = 1 /\ Head(todo).do = "write_mem" /\ Arg = [addr |-> a, inst |-> i]
         /\ Rest(Tail(todo), <<Do("write_mem", [addr |-> a, inst |-> i])>>)
<1> DEFINE list == <<Do("write_mem", [addr |-> a, inst |-> i])>>
<1>1. /\ list \in Seq(Accesses) /\ Len(list) = 1
      /\ list[1] = Do("write_mem", [addr |-> a, inst |-> i])
  BY WriteType
<1>2. todo \in Seq(Accesses) /\ Rest(todo, list)
  BY DEF TypeInv, SoftRemoving
<1> HIDE DEF list
<1>3. Head(todo) = list[1 - Left + 1] /\ Left \in 1 .. 1 /\ Rest(Tail(todo), list)
  BY <1>1, <1>2, RestNext DEF Do
<1> QED
  BY <1>1, <1>3 DEF Do, Arg, list

\* What an access can be while a breakpoint is being inserted or removed.
LEMMA PointHead ==
  ASSUME TypeInv, SoftInv, PointInv, todo # <<>>, op \in {"insert", "remove"}
  PROVE  Head(todo).do \in {"read_mem", "write_mem", "select", "type", "addr"}
<1>1. ASSUME NEW s \in SoftSlots, SoftInserting(s)
      PROVE  Head(todo).do \in {"read_mem", "write_mem"}
  BY <1>1, SoftInsertHead
<1>2. ASSUME NEW t \in Triggers, HardInserting(t)
      PROVE  Head(todo).do \in {"select", "type", "addr"}
  <2>1. /\ Left \in 1 .. 3
        /\ Left = 3 => Head(todo).do = "select"
        /\ Left = 2 => Head(todo).do = "type"
        /\ Left = 1 => Head(todo).do = "addr"
    BY <1>2, HardInsertHead, Zenon
  <2> QED
    BY <2>1
<1>3. ASSUME NEW a \in CodeAddrs, NEW i \in Inst, SoftRemoving(a, i)
      PROVE  Head(todo).do = "write_mem"
  BY <1>3, SoftRemoveHead
<1>4. ASSUME NEW t \in Triggers, HardRemoving(t)
      PROVE  Head(todo).do \in {"select", "type"}
  BY <1>4, HardRemoveHead
<1> QED
  BY <1>1, <1>2, <1>3, <1>4 DEF PointInv

LEMMA RemoveHead ==
  ASSUME TypeInv, PointInv, todo # <<>>, op = "remove"
  PROVE  Head(todo).do \in {"write_mem", "select", "type"}
<1>1. ASSUME NEW a \in CodeAddrs, NEW i \in Inst, SoftRemoving(a, i)
      PROVE  Head(todo).do = "write_mem"
  BY <1>1, SoftRemoveHead, Zenon
<1>2. ASSUME NEW t \in Triggers, HardRemoving(t)
      PROVE  Head(todo).do \in {"select", "type"}
  BY <1>2, HardRemoveHead
<1> QED
  BY <1>1, <1>2 DEF PointInv

(***************************************************************************)
(* An access that is made takes one from the list.                         *)
(***************************************************************************)
LEMMA ListStep ==
  ASSUME TypeInv, ListInv, todo # <<>>, todo' = Tail(todo), UNCHANGED <<op, targetError>>
  PROVE  ListInv'
<1>1. /\ todo \in Seq(Accesses)
      /\ \A list \in Seq(Accesses) : Rest(todo, list) => Rest(todo', list)
  BY RestNext DEF TypeInv
<1>2. /\ EditDcsr("prv") \in Seq(Accesses) /\ Resume \o FiniPre \in Seq(Accesses)
      /\ Resume \in Seq(Accesses) /\ Step \in Seq(Accesses) /\ Reset \in Seq(Accesses)
      /\ Halt \in Seq(Accesses) /\ ConnectList \in Seq(Accesses)
  BY EditType, FiniType, ResumeType, StepType, ResetType, HaltType, ConnectType
<1>3. /\ <<Do("register", "none")>> \in Seq(Accesses) /\ <<Do("memory", "none")>> \in Seq(Accesses)
      /\ <<Do("status", "none")>> \in Seq(Accesses)
      /\ <<Do("read_dcsr", "none"), Do("cause", "none")>> \in Seq(Accesses)
  BY DEF Do, Accesses
<1>4. op = "connect" => targetError = "none"
  BY DEF ListInv
<1> QED
  BY <1>1, <1>2, <1>3, <1>4, Zenon DEF ListInv

\* What the accesses that note a refusal have in common.
LEMMA NotRefused ==
  ASSUME TypeInv, NoteError, ~errMsg'
  PROVE  ~errMsg /\ hart = "halted"
BY DEF TypeInv, TypeOK, HartTypeOK, NoteError, Refused

LEMMA LeftStep ==
  ASSUME TypeInv, todo # <<>>, todo' = Tail(todo)
  PROVE  Left \in Nat /\ Left > 0 /\ Left' = Left - 1
BY TodoHead DEF TypeInv, Left

\* Which call makes which access.
LEMMA HeadOp ==
  ASSUME IInv, todo # <<>>
  PROVE  /\ op # "none"
         /\ Head(todo).do = "off" => op \in {"connect", "disconnect"}
         /\ Head(todo).do = "on" => op = "connect"
         /\ Head(todo).do = "halt" => op \in {"connect", "reset", "ctrl_c"}
         /\ Head(todo).do = "resume" => op \in {"continue", "step", "disconnect"}
         /\ Head(todo).do \in {"reset", "await"} => op = "reset"
         /\ Head(todo).do = "read_dcsr" =>
              op \in {"connect", "continue", "step", "disconnect", "access", "halt_check"}
         /\ Head(todo).do = "write_dcsr" =>
              op \in {"connect", "continue", "step", "disconnect", "access"}
         /\ Head(todo).do \in {"check", "protection"} => op = "connect"
         /\ Head(todo).do \in {"select", "type"} => op \in {"connect", "insert", "remove"}
         /\ Head(todo).do = "addr" => op = "insert"
         /\ Head(todo).do = "read_mem" => op = "insert"
         /\ Head(todo).do = "write_mem" => op \in {"insert", "remove"}
         /\ Head(todo).do \in {"register", "memory"} => op = "access"
         /\ Head(todo).do \in {"status", "cause"} => op = "halt_check"
<1> USE DEF IInv
<1>1. op # "none"
  BY DEF CallInv
<1>2. CASE op = "connect"
  <2>1. Head(todo).do \in {"off", "on", "halt", "read_dcsr", "check", "write_dcsr",
                           "select", "type", "protection"}
    BY <1>2, ConnectHead, Zenon
  <2> QED
    BY <1>2, <2>1
<1>3. CASE op \in {"continue", "step"}
  <2>1. Head(todo).do \in {"read_dcsr", "write_dcsr", "resume"}
    BY <1>3, RunHead, Zenon
  <2> QED
    BY <1>3, <2>1
<1>4. CASE op = "disconnect"
  BY <1>4, DisconnectHead
<1>5. CASE op = "access"
  <2>1. Head(todo).do \in {"register", "memory", "read_dcsr", "write_dcsr"}
    BY <1>5, AccessHead, Zenon
  <2> QED
    BY <1>5, <2>1
<1>6. CASE op = "reset"
  BY <1>6, ResetHead
<1>7. CASE op = "ctrl_c"
  <2>1. Head(todo).do = "halt"
    BY <1>7, CtrlCHead, Zenon
  <2> QED
    BY <1>7, <2>1
<1>8. CASE op = "halt_check"
  <2>1. Head(todo).do \in {"status", "read_dcsr", "cause"}
    BY <1>8, HaltCheckHead, Zenon
  <2> QED
    BY <1>8, <2>1
<1>9. CASE op = "insert"
  <2>1. Head(todo).do \in {"read_mem", "write_mem", "select", "type", "addr"}
    BY <1>9, PointHead
  <2> QED
    BY <1>9, <2>1
<1>10. CASE op = "remove"
  <2>1. Head(todo).do \in {"write_mem", "select", "type"}
    BY <1>10, RemoveHead
  <2> QED
    BY <1>10, <2>1
<1> QED
  BY <1>1, <1>2, <1>3, <1>4, <1>5, <1>6, <1>7, <1>8, <1>9, <1>10 DEF TypeInv, TypeOK

\* Whose access to memory it is.
LEMMA ReadsMemory ==
  ASSUME IInv, todo # <<>>, Head(todo).do = "read_mem"
  PROVE  /\ op = "insert" /\ Left = 2
         /\ \E s \in SoftSlots : SoftInserting(s) /\ Arg = s /\ soft[s].addr \in CodeAddrs
         /\ ~errMsg => Applied
<1>1. TypeInv /\ SoftInv /\ PointInv /\ op = "insert"
  BY HeadOp DEF IInv
<1>2. ASSUME NEW t \in Triggers, HardInserting(t)  PROVE FALSE
  <2>1. /\ Left \in 1 .. 3
        /\ Left = 3 => Head(todo).do = "select"
        /\ Left = 2 => Head(todo).do = "type"
        /\ Left = 1 => Head(todo).do = "addr"
    BY <1>1, <1>2, HardInsertHead, Zenon
  <2> QED
    BY <2>1
<1>3. (\E s \in SoftSlots : SoftInserting(s)) /\ (~errMsg => Applied)
  BY <1>1, <1>2 DEF PointInv
<1>4. PICK s \in SoftSlots : SoftInserting(s)
  BY <1>3
<1>5. /\ soft[s].addr \in CodeAddrs /\ Left \in 1 .. 2
      /\ Left = 2 => Arg = s
      /\ Left = 1 => Head(todo).do = "write_mem"
  BY <1>1, <1>4, SoftInsertHead, Zenon
<1>6. Left = 2
  BY <1>5
<1> QED
  BY <1>1, <1>3, <1>4, <1>5, <1>6

LEMMA WritesMemory ==
  ASSUME IInv, todo # <<>>, Head(todo).do = "write_mem"
  PROVE  /\ Left = 1
         /\ ~errMsg => Applied
         /\ \/ op = "insert" /\ \E s \in SoftSlots :
                 /\ SoftInserting(s) /\ soft[s].addr \in CodeAddrs
                 /\ Arg = [addr |-> soft[s].addr, inst |-> "ebreak"]
            \/ op = "remove" /\ \E a \in CodeAddrs, i \in Inst :
                 SoftRemoving(a, i) /\ Arg = [addr |-> a, inst |-> i]
<1>1. TypeInv /\ SoftInv /\ PointInv /\ op \in {"insert", "remove"}
  BY HeadOp DEF IInv
<1>2. CASE op = "insert"
  <2>1. ASSUME NEW t \in Triggers, HardInserting(t)  PROVE FALSE
    <3>1. /\ Left \in 1 .. 3
          /\ Left = 3 => Head(todo).do = "select"
          /\ Left = 2 => Head(todo).do = "type"
          /\ Left = 1 => Head(todo).do = "addr"
      BY <1>1, <2>1, HardInsertHead, Zenon
    <3> QED
      BY <3>1
  <2>2. (\E s \in SoftSlots : SoftInserting(s)) /\ (~errMsg => Applied)
    BY <1>1, <1>2, <2>1 DEF PointInv
  <2>3. PICK s \in SoftSlots : SoftInserting(s)
    BY <2>2
  <2>4. /\ soft[s].addr \in CodeAddrs /\ Left \in 1 .. 2
        /\ Left = 2 => Head(todo).do = "read_mem"
        /\ Left = 1 => Arg = [addr |-> soft[s].addr, inst |-> "ebreak"]
    BY <1>1, <2>3, SoftInsertHead, Zenon
  <2>5. Left = 1
    BY <2>4
  <2> QED
    BY <1>2, <2>2, <2>3, <2>4, <2>5
<1>3. CASE op = "remove"
  <2>1. ASSUME NEW t \in Triggers, HardRemoving(t)  PROVE FALSE
    <3>1. /\ Left \in 1 .. 2
          /\ Left = 2 => Head(todo).do = "select"
          /\ Left = 1 => Head(todo).do = "type"
      BY <1>1, <2>1, HardRemoveHead, Zenon
    <3> QED
      BY <3>1
  <2>2. /\ \E a \in CodeAddrs, i \in Inst : SoftRemoving(a, i)
        /\ ~errMsg => Applied
    BY <1>1, <1>3, <2>1 DEF PointInv
  <2>3. PICK a \in CodeAddrs, i \in Inst : SoftRemoving(a, i)
    BY <2>2
  <2>4. Left = 1 /\ Arg = [addr |-> a, inst |-> i]
    BY <1>1, <2>3, SoftRemoveHead, Zenon
  <2> QED
    BY <1>3, <2>2, <2>3, <2>4
<1> QED
  BY <1>1, <1>2, <1>3

\* Whose access to the triggers it is, but for a connection.
LEMMA WritesTrigger ==
  ASSUME IInv, todo # <<>>, Head(todo).do \in {"select", "type", "addr"}, op # "connect"
  PROVE  /\ ~errMsg => MemoryOK
         /\ \/ op = "insert" /\ \E t \in Triggers :
                 /\ HardInserting(t) /\ Left \in 1 .. 3
                 /\ Left = 3 => Head(todo).do = "select" /\ Arg = t
                 /\ Left = 2 => Head(todo).do = "type" /\ Arg = slots[t].type
                 /\ Left = 1 => Head(todo).do = "addr" /\ Arg = slots[t].addr
            \/ op = "remove" /\ \E t \in Triggers :
                 /\ HardRemoving(t) /\ Left \in 1 .. 2
                 /\ Left = 2 => Head(todo).do = "select" /\ Arg = t
                 /\ Left = 1 => Head(todo).do = "type" /\ Arg = "unused"
<1>1. TypeInv /\ SoftInv /\ PointInv /\ op \in {"insert", "remove"}
  BY HeadOp DEF IInv
<1>2. CASE op = "insert"
  <2>1. ASSUME NEW s \in SoftSlots, SoftInserting(s)
        PROVE  Head(todo).do \in {"read_mem", "write_mem"}
    BY <1>1, <2>1, SoftInsertHead
  <2>2. (\E t \in Triggers : HardInserting(t)) /\ (~errMsg => MemoryOK)
    BY <1>1, <1>2, <2>1 DEF PointInv
  <2>3. PICK t \in Triggers : HardInserting(t)
    BY <2>2
  <2>4. /\ Left \in 1 .. 3
        /\ Left = 3 => Head(todo).do = "select" /\ Arg = t
        /\ Left = 2 => Head(todo).do = "type" /\ Arg = slots[t].type
        /\ Left = 1 => Head(todo).do = "addr" /\ Arg = slots[t].addr
    BY <1>1, <2>3, HardInsertHead, Zenon
  <2> QED
    BY <1>2, <2>2, <2>3, <2>4
<1>3. CASE op = "remove"
  <2>1. ASSUME NEW a \in CodeAddrs, NEW i \in Inst, SoftRemoving(a, i)
        PROVE  Head(todo).do = "write_mem"
    BY <1>1, <2>1, SoftRemoveHead, Zenon
  <2>2. (\E t \in Triggers : HardRemoving(t)) /\ (~errMsg => MemoryOK)
    BY <1>1, <1>3, <2>1 DEF PointInv
  <2>3. PICK t \in Triggers : HardRemoving(t)
    BY <2>2
  <2>4. /\ Left \in 1 .. 2
        /\ Left = 2 => Head(todo).do = "select" /\ Arg = t
        /\ Left = 1 => Head(todo).do = "type" /\ Arg = "unused"
    BY <1>1, <2>3, HardRemoveHead
  <2> QED
    BY <1>3, <2>2, <2>3, <2>4
<1> QED
  BY <1>1, <1>2, <1>3

(***************************************************************************)
(* What an access leaves of each part of the invariant, if it does not     *)
(* write what the part is about.                                           *)
(***************************************************************************)
LEMMA CallStep ==
  ASSUME CallInv, todo # <<>>, UNCHANGED <<op, connected, running, wiped>>,
         op = "connect" \/ UNCHANGED targetError
  PROVE  CallInv'
BY DEF CallInv, Stopped

LEMMA HeldStep ==
  ASSUME TypeInv, HeldInv, todo # <<>>, todo' = Tail(todo),
         UNCHANGED <<op, hart, haltReq, connected, running, targetError>>,
         op \notin {"none", "ctrl_c"},
         op = "connect" => Left # 2 * HardwareNum + 5,
         op = "halt_check" => hart = "halted"
  PROVE  HeldInv'
<1>1. Left \in Nat /\ Left > 0 /\ Left' = Left - 1
  BY LeftStep
<1>2. HardwareNum \in Nat
  BY HartAssumption
<1> HIDE DEF Left
<1> QED
  BY <1>1, <1>2 DEF HeldInv, Held, Stopped

LEMMA SoftStep ==
  ASSUME SoftInv, UNCHANGED <<soft, mem, left, op, connected>>,
         errMsg => errMsg', targetError' = "none" => targetError = "none"
  PROVE  SoftInv'
BY DEF SoftInv, Sane, Calm, MemoryOK, Saved, InMemory, Used

\* A call that neither connects nor sets a breakpoint.
LEMMA HardStep ==
  ASSUME HardInv, op \in Calm, UNCHANGED <<op, slots, triggers, dcsr, wiped, targetError, connected>>,
         errMsg => errMsg',
         \/ op \in {"continue", "step"} /\ Left' = 2
         \/ op = "access" /\ Left' = 1 /\ todo'[1].do = "write_dcsr"
         => (~errMsg' /\ ~wiped' => image'.ebreak)
  PROVE  HardInv'
BY DEF HardInv, Sane, Calm, Applied, Ebreaks, Fits, Lost, Agrees

LEMMA NoPoint == op' \notin {"insert", "remove"} => PointInv'
BY DEF PointInv

(***************************************************************************)
(* The rest of the type invariant.                                         *)
(***************************************************************************)
\* The access to memory is to code, for the breakpoint is at code.
LEMMA MemoryKeepsType == IInv /\ (ReadMem \/ WriteMem) => TypeInv'
<1> SUFFICES ASSUME IInv, ReadMem \/ WriteMem  PROVE  TypeInv'
  OBVIOUS
<1>1. TypeInv
  BY DEF IInv
<1>2. todo' \in Seq(Accesses) /\ UNCHANGED op /\ todo # <<>> /\ Head(todo) \in Accesses
  BY <1>1, AccessTaken DEF ReadMem, WriteMem
<1>3. CASE ReadMem
  <2>1. Head(todo).do = "read_mem" /\ op = "insert"
    BY <1>2, <1>3, HeadOp DEF ReadMem, Next1
  <2>2. PICK s \in SoftSlots : Arg = s /\ soft[s].addr \in CodeAddrs
    BY <1>2, <2>1, ReadsMemory, Zenon
  <2>3. Arg = s /\ soft[s].addr \in CodeAddrs
    BY <2>2
  <2>4. \A i \in Inst : [soft EXCEPT ![s].orig = i] \in [SoftSlots -> SoftType]
    BY <1>1 DEF TypeInv, TypeOK, SoftType
  <2>5. mem[soft[s].addr] \in Inst /\ "garbage" \in Inst
    BY <1>1, <2>3 DEF TypeInv, TypeOK, HartTypeOK, Inst
  <2>6. soft' \in [SoftSlots -> SoftType]
    BY <1>3, <2>3, <2>4, <2>5 DEF ReadMem
  <2>7. errMsg' \in BOOLEAN
    BY <1>1, <1>3 DEF ReadMem, TypeInv, TypeOK, Refused
  <2>8. UNCHANGED <<hartVars, image, slots, serverVars, historyVars>>
    BY <1>3 DEF ReadMem
  <2> QED
    BY <1>1, <1>2, <2>6, <2>7, <2>8
       DEF TypeInv, TypeOK, HartTypeOK, hartVars, serverVars, historyVars
<1>4. CASE WriteMem
  <2>1. Arg.addr \in CodeAddrs /\ Arg.inst \in Inst
    BY <1>2, <1>4, ArgType DEF WriteMem, Next1
  <2>2. mem' \in [CodeAddrs -> Inst]
    BY <1>1, <1>4, <2>1 DEF WriteMem, TypeInv, TypeOK, HartTypeOK
  <2>3. errMsg' \in BOOLEAN
    BY <1>1, <1>4 DEF WriteMem, TypeInv, TypeOK, Refused
  <2>4. UNCHANGED <<hart, active, haltReq, dcsr, stop, tselect, triggers, image, slots, soft,
                    serverVars, historyVars>>
    BY <1>4 DEF WriteMem, Quiet
  <2> QED
    BY <1>1, <1>2, <2>2, <2>3, <2>4 DEF TypeInv, TypeOK, HartTypeOK, serverVars, historyVars
<1> QED
  BY <1>3, <1>4

LEMMA OtherKeepsType ==
  TypeInv /\ (AccessRegister \/ AccessMemory \/ CheckProtection \/ AwaitHalt \/ ReadStatus
               \/ ReadCause)
    => TypeInv'
<1> SUFFICES ASSUME TypeInv,
                    AccessRegister \/ AccessMemory \/ CheckProtection \/ AwaitHalt
                      \/ ReadStatus \/ ReadCause
             PROVE  TypeInv'
  OBVIOUS
<1>1. todo' \in Seq(Accesses) /\ UNCHANGED op
  <2>1. <<Do("read_dcsr", "none"), Do("cause", "none")>> \in Seq(Accesses)
    BY DEF Do, Accesses
  <2> QED
    BY <2>1, AccessTaken, EmptyTodo
       DEF AccessRegister, AccessMemory, CheckProtection, AwaitHalt, ReadStatus, ReadCause
<1>2. errMsg' \in BOOLEAN
  BY DEF TypeInv, TypeOK, NoteError, Refused,
         AccessRegister, AccessMemory, CheckProtection, AwaitHalt, ReadStatus, ReadCause
<1>3. targetError' \in {"none", "line", "debug_module", "compat", "protected"}
  BY DEF TypeInv, TypeOK, Quiet, serverVars,
         AccessRegister, AccessMemory, CheckProtection, AwaitHalt, ReadStatus, ReadCause
<1>4. /\ report'.reason \in HardTypes \cup {"none", "running", "software", "other"}
      /\ report'.addr \in DataAddrs \cup {Nowhere, Zero}
  <2>1. CASE UNCHANGED report
    BY <2>1 DEF TypeInv, TypeOK
  <2>2. CASE ReadStatus
    BY <2>2 DEF TypeInv, TypeOK, ReadStatus
  <2>3. CASE ReadCause
    BY <2>3, ReportType DEF ReadCause
  <2> QED
    BY <2>1, <2>2, <2>3 DEF AccessRegister, AccessMemory, CheckProtection, AwaitHalt, Quiet,
                            serverVars
<1>5. UNCHANGED <<hartVars, image, slots, soft, connected, running, historyVars>>
  BY DEF Quiet, serverVars, AccessRegister, AccessMemory, CheckProtection, AwaitHalt,
         ReadStatus, ReadCause
<1> QED
  BY <1>1, <1>2, <1>3, <1>4, <1>5 DEF TypeInv, TypeOK, HartTypeOK, hartVars, historyVars

LEMMA ReturnKeepsType == TypeInv /\ Return => TypeInv'
<1> SUFFICES ASSUME TypeInv, Return  PROVE  TypeInv'
  OBVIOUS
<1>1. connected' \in BOOLEAN /\ running' \in BOOLEAN
  BY DEF TypeInv, TypeOK, Return
<1>2. image' \in Images
  BY DEF Return, NoImage, Images, Dcsr
<1>3. /\ report'.reason \in HardTypes \cup {"none", "running", "software", "other"}
      /\ report'.addr \in DataAddrs \cup {Nowhere, Zero}
  BY DEF Return, NoReport
<1>4. op' = "none" /\ UNCHANGED <<hartVars, todo, slots, soft, errMsg, targetError, historyVars>>
  BY DEF Return
<1> QED
  BY <1>1, <1>2, <1>3, <1>4 DEF TypeInv, TypeOK, HartTypeOK, hartVars, historyVars

LEMMA HartKeepsType == TypeInv /\ HartStep => TypeInv'
<1> SUFFICES ASSUME TypeInv, HartStep  PROVE  TypeInv'
  OBVIOUS
<1>1. PICK why \in Stop : Stops(why)
  <2>1. CASE StopRequested \/ StopStep
    BY <2>1 DEF StopRequested, StopStep, NoStop, Stop, Halted
  <2>2. CASE StopEbreak
    BY <2>2 DEF StopEbreak, Stop, Halted
  <2>3. CASE StopTrigger
    <3>1. \A c \in CodeAddrs : Halted("trigger", c, Nowhere, TRUE) \in Stop
      BY DEF Stop, Halted
    <3>2. \A d \in DataAddrs, b \in BOOLEAN : Halted("trigger", Nowhere, d, b) \in Stop
      BY DEF Stop, Halted
    <3> QED
      BY <2>3, <3>1, <3>2 DEF StopTrigger
  <2> QED
    BY <2>1, <2>2, <2>3 DEF HartStep, HartStops
<1>2. UNCHANGED <<op, todo, image, slots, soft, errMsg, serverVars, historyVars>>
  BY DEF HartStep
<1> QED
  BY <1>1, <1>2 DEF TypeInv, TypeOK, HartTypeOK, Stops, registers, serverVars, historyVars

(***************************************************************************)
(* The commands keep the invariant.                                        *)
(***************************************************************************)
LEMMA InitKeeps == Init => IInv
<1> SUFFICES ASSUME Init  PROVE  IInv
  OBVIOUS
<1>1. TypeInv
  BY InitType
<1>2. op = "none" /\ todo = <<>> /\ connected = FALSE /\ targetError = "none"
      /\ slots = [t \in Triggers |-> NoSlot] /\ soft = [s \in SoftSlots |-> NoSoft]
  BY DEF Init
<1>3. CallInv /\ HeldInv /\ HardInv /\ SoftInv
  BY <1>2 DEF CallInv, Stopped, HeldInv, HardInv, Sane, SoftInv, NoSoft
<1>4. ListInv /\ PointInv
  BY <1>2 DEF ListInv, PointInv
<1> QED
  BY <1>1, <1>3, <1>4 DEF IInv

LEMMA ConnectKeeps == IInv /\ Connect => IInv'
<1> SUFFICES ASSUME IInv, Connect  PROVE  IInv'
  OBVIOUS
<1>1. TypeInv'
  BY ConnectKeepsType DEF IInv
<1>2. /\ op' = "connect" /\ wiped' = FALSE
      /\ todo' = IF targetError' = "none" THEN ConnectList ELSE <<>>
      /\ slots' = [t \in Triggers |-> [slots[t] EXCEPT !.type = "unused"]]
      /\ soft' = [s \in SoftSlots |-> NoSoft]
      /\ left' = {a \in CodeAddrs : mem[a] # "program"}
      /\ UNCHANGED <<connected, running, mem>>
  BY DEF Connect, Call, ConnectList, hartVars
<1>3. targetError' = "none" => Left' = 2 * HardwareNum + 7
  BY <1>2, ConnectType DEF Left
<1>4. CallInv'
  BY <1>2 DEF CallInv, Stopped
<1>5. ListInv'
  <2>1. Rest(ConnectList, ConnectList)
    BY ConnectType, RestAll, Zenon
  <2> QED
    BY <1>2, <2>1, Zenon DEF ListInv
<1>6. HeldInv'
  <2>1. targetError' = "none" => ~ (Left' <= 2 * HardwareNum + 4)
    BY <1>3, HartAssumption
  <2> HIDE DEF Left
  <2> QED
    BY <1>2, <2>1 DEF HeldInv, Stopped
<1>7. HardInv'
  <2>1. targetError' = "none" => ~ (Left' <= 2 * HardwareNum + 1)
    BY <1>3, HartAssumption
  <2>2. \A t \in Triggers : slots'[t].type = "unused"
    BY <1>2 DEF IInv, TypeInv, TypeOK, SlotType
  <2> HIDE DEF Left
  <2> QED
    BY <1>2, <2>1, <2>2 DEF HardInv, Calm
<1>8. SoftInv'
  BY <1>2 DEF SoftInv, MemoryOK, Saved, InMemory, Used, NoSoft
<1>9. PointInv'
  BY <1>2, NoPoint
<1> QED
  BY <1>1, <1>4, <1>5, <1>6, <1>7, <1>8, <1>9 DEF IInv

\* The calls that change no table.
LEMMA CallKeeps ==
  IInv /\ (Disconnect \/ Continue \/ SingleStep \/ Access \/ MonitorReset
             \/ CtrlC \/ HaltCheck)
    => IInv'
<1> SUFFICES ASSUME IInv,
                    Disconnect \/ Continue \/ SingleStep \/ Access \/ MonitorReset
                      \/ CtrlC \/ HaltCheck
             PROVE  IInv'
  OBVIOUS
<1>1. TypeInv'
  BY CallKeepsType DEF IInv
<1>2. /\ op = "none" /\ connected
      /\ UNCHANGED <<hartVars, image, connected, running, slots, soft, errMsg, targetError,
                     report, left>>
  BY DEF Disconnect, Continue, SingleStep, Access, MonitorReset, CtrlC, HaltCheck, Call,
         historyVars, Command, AtRest
<1>3. UNCHANGED <<hart, haltReq, dcsr, triggers, mem>>
  BY <1>2 DEF hartVars
<1>4. \/ op' = "disconnect"
      \/ op' \in {"continue", "step", "access", "reset"} /\ ~running /\ targetError = "none"
      \/ op' \in {"ctrl_c", "halt_check"} /\ running
  BY DEF Disconnect, Continue, SingleStep, Access, MonitorReset, CtrlC, HaltCheck, Call, Command
<1>5. op' = "reset" => wiped'
  BY DEF Disconnect, Continue, SingleStep, Access, MonitorReset, CtrlC, HaltCheck, Call
<1>6. op' # "reset" => UNCHANGED wiped
  BY DEF Disconnect, Continue, SingleStep, Access, MonitorReset, CtrlC, HaltCheck, Call,
         historyVars
<1>7. CallInv'
  BY <1>2, <1>4, <1>5 DEF CallInv, Stopped
<1>8. /\ op' = "disconnect" => todo' = <<>> \/ todo' = Resume \o FiniPre
      /\ op' = "continue" => todo' = Resume
      /\ op' = "step" => todo' = Step
      /\ op' = "access" => \/ todo' = <<Do("register", "none")>>
                           \/ todo' = <<Do("memory", "none")>>
                           \/ todo' = EditDcsr("prv")
      /\ op' = "reset" => todo' = Reset
      /\ op' = "ctrl_c" => todo' = Halt
      /\ op' = "halt_check" => todo' = <<Do("status", "none")>>
  BY Zenon DEF Disconnect, Continue, SingleStep, Access, MonitorReset, CtrlC, HaltCheck, Call
<1>9. ListInv'
  <2>1. /\ Resume \o FiniPre \in Seq(Accesses) /\ EditDcsr("prv") \in Seq(Accesses)
        /\ Resume \in Seq(Accesses) /\ Step \in Seq(Accesses) /\ Reset \in Seq(Accesses)
        /\ Halt \in Seq(Accesses)
    BY EditType, FiniType, ResumeType, StepType, ResetType, HaltType
  <2>2. /\ <<Do("register", "none")>> \in Seq(Accesses)
        /\ <<Do("memory", "none")>> \in Seq(Accesses)
        /\ <<Do("status", "none")>> \in Seq(Accesses)
    BY DEF Do, Accesses
  <2>3. op' \notin {"connect", "none"}
    BY <1>4
  <2> QED
    BY <1>8, <2>1, <2>2, <2>3, RestAll, RestNone, Zenon DEF ListInv
<1>10. /\ op' \in {"continue", "step"} => Left' = 3
       /\ op' = "access" => (Left' = 1 /\ todo'[1].do # "write_dcsr") \/ Left' = 2
       /\ op' = "ctrl_c" => Left' = 1
       /\ op' = "halt_check" => Left' = 1 /\ todo'[1] = Do("status", "none")
  <2>1. Len(Resume) = 3 /\ Len(Step) = 3 /\ Len(Halt) = 1 /\ Len(EditDcsr("prv")) = 2
    BY ResumeType, StepType, HaltType, EditType
  <2>2. /\ op' \in {"continue", "step"} => Left' = 3
        /\ op' = "ctrl_c" => Left' = 1
    BY <1>8, <2>1 DEF Left, Do
  <2>3. op' = "access" => (Left' = 1 /\ todo'[1].do # "write_dcsr") \/ Left' = 2
    BY <1>8, <2>1 DEF Left, Do
  <2>4. op' = "halt_check" => Left' = 1 /\ todo'[1] = Do("status", "none")
    BY <1>8 DEF Left, Do
  <2> QED
    BY <2>2, <2>3, <2>4
<1>11. HeldInv'
  <2>1. ~running /\ targetError = "none" => Held
    BY <1>2 DEF IInv, HeldInv
  <2> HIDE DEF Left
  <2> QED
    BY <1>2, <1>3, <1>4, <1>10, <2>1 DEF HeldInv, Held, Stopped, Do
<1>12. HardInv'
  <2>1. ~errMsg /\ targetError = "none" => Applied
    BY <1>2 DEF IInv, HardInv, Sane, Calm
  <2> HIDE DEF Left
  <2> QED
    BY <1>2, <1>3, <1>4, <1>5, <1>6, <1>10, <2>1
       DEF HardInv, Sane, Calm, Applied, Ebreaks, Fits, Lost, Agrees
<1>13. SoftInv'
  <2>1. SoftInv /\ op \in Calm
    BY <1>2 DEF IInv, Calm
  <2>2. targetError = "none" => Sane
    BY <1>2 DEF Sane
  <2> QED
    BY <1>2, <1>3, <2>1, <2>2 DEF SoftInv, Sane, MemoryOK, Saved, InMemory, Used
<1>14. PointInv'
  BY <1>4, NoPoint
<1> QED
  BY <1>1, <1>7, <1>9, <1>11, <1>12, <1>13, <1>14 DEF IInv

LEMMA InsertKeeps == ASSUME NEW p \in Points, IInv, Insert(p)  PROVE  IInv'
<1>1. TypeInv'
  BY InsertKeepsType DEF IInv
<1>2. /\ op = "none" /\ connected /\ ~running /\ targetError = "none" /\ op' = "insert"
      /\ UNCHANGED <<hartVars, image, connected, running, errMsg, targetError, left, wiped>>
  BY DEF Insert, Command, AtRest, Call
<1>3. UNCHANGED <<hart, haltReq, dcsr, tselect, triggers, mem>>
  BY <1>2 DEF hartVars
<1>4. CallInv' /\ ListInv' /\ HardInv'
  BY <1>2 DEF CallInv, Stopped, ListInv, HardInv, Calm
<1>5. HeldInv'
  BY <1>2, <1>3 DEF IInv, HeldInv, Held, Stopped
<1>6. /\ ~errMsg => Applied
      /\ ~errMsg => MemoryOK
      /\ SoftInv
  BY <1>2 DEF IInv, HardInv, SoftInv, Sane, Calm
<1> DEFINE Refusal == todo' = <<>> /\ UNCHANGED <<slots, soft>>
<1>9. CASE Refusal
  <2>1. SoftInv'
    BY <1>2, <1>6, <1>9 DEF SoftInv, Calm
  <2>2. ~errMsg' => MemoryOK' /\ Applied'
    BY <1>2, <1>3, <1>6, <1>9
       DEF MemoryOK, Saved, InMemory, Used, Applied, Ebreaks, Fits, Lost, Agrees
  <2>3. PointInv'
    BY <1>2, <1>9, <2>2 DEF PointInv
  <2> QED
    BY <1>1, <1>4, <1>5, <2>1, <2>3 DEF IInv
<1>7. CASE p[1] = "software" /\ ~Refusal
  <2>1. PICK s \in SoftSlots :
          /\ ~ soft[s].used
          /\ soft' = [soft EXCEPT ![s].used = TRUE, ![s].addr = p[2]]
          /\ todo' = InsertSoft(s, p[2])
    BY <1>7 DEF Insert, First, Call
  <2>2. p[2] \in CodeAddrs /\ p = <<"software", p[2]>> /\ UNCHANGED slots
    BY <1>7, PointType DEF Insert
  <2>3. \A r \in SoftSlots : ~ (soft[r].used /\ soft[r].addr = p[2])
    BY <2>2 DEF Insert, Placed
  <2>4. /\ soft \in [SoftSlots -> SoftType]
        /\ soft'[s].used /\ soft'[s].addr = p[2]
        /\ \A r \in SoftSlots \ {s} : soft'[r] = soft[r]
    BY <2>1 DEF IInv, TypeInv, TypeOK, SoftType
  <2>5. SoftInv'
    BY <1>2, <1>6, <2>2, <2>3, <2>4 DEF SoftInv, Calm
  <2>6. Rest(todo', todo') /\ Left' = 2
    <3>1. InsertSoft(s, p[2]) \in Seq(Accesses) /\ Len(InsertSoft(s, p[2])) = 2
      BY <2>2, SoftTypes, Zenon
    <3> QED
      BY <2>1, <3>1, RestAll DEF Left
  <2>7. todo' = InsertSoft(s, soft'[s].addr)
    BY <2>1, <2>4
  <2> HIDE DEF Left
  <2>8. ~errMsg' => \A r \in SoftSlots \ {s} : Saved(r)'
    BY <1>2, <1>6, <2>4 DEF MemoryOK, Saved
  <2>9. ~errMsg' => \A b \in CodeAddrs \ (left' \cup {p[2]}) : InMemory(b)'
    BY <1>2, <1>3, <1>6, <2>1, <2>4 DEF MemoryOK, InMemory, Used
  <2>10. ~errMsg' /\ p[2] \notin left => mem'[p[2]] = "program"
    BY <1>2, <1>3, <1>6, <2>2, <2>3 DEF MemoryOK, InMemory, Used
  <2>11. SoftInserting(s)'
    <3>1. Rest(todo', InsertSoft(s, soft'[s].addr))
      BY <2>6, <2>7
    <3>2. ~errMsg' =>
            /\ \A r \in SoftSlots \ {s} : Saved(r)'
            /\ \A b \in CodeAddrs \ (left' \cup {soft'[s].addr}) : InMemory(b)'
            /\ Left' <= 1 => Saved(s)'
            /\ soft'[s].addr \notin left' =>
                 mem'[soft'[s].addr] = IF Left' = 0 THEN "ebreak" ELSE "program"
      <4>1. ~ (Left' <= 1) /\ Left' # 0 /\ left' = left
        BY <1>2, <2>6
      <4> QED
        BY <2>4, <2>8, <2>9, <2>10, <4>1
    <3> QED
      BY <2>4, <3>1, <3>2, Zenon DEF SoftInserting
  <2>12. ~errMsg' => Applied'
    BY <1>2, <1>3, <1>6, <2>2 DEF Applied, Ebreaks, Fits, Lost, Agrees
  <2>13. PointInv'
    BY <1>2, <2>11, <2>12 DEF PointInv
  <2> QED
    BY <1>1, <1>4, <1>5, <2>5, <2>13 DEF IInv
<1>8. CASE p[1] # "software" /\ ~Refusal
  <2>1. PICK t \in Triggers :
          /\ slots' = [slots EXCEPT ![t] = [type |-> p[1], addr |-> p[2]]]
          /\ todo' = InsertHard(t, p)
    BY <1>8 DEF Insert, Call
  <2>2. p[1] \in HardTypes /\ p[2] \in Addrs /\ p = <<p[1], p[2]>> /\ UNCHANGED soft
    BY <1>8, PointType DEF Insert
  <2>3. /\ slots'[t].type = p[1] /\ slots'[t].addr = p[2]
        /\ \A u \in Triggers \ {t} : slots'[u] = slots[u]
    BY <2>1 DEF IInv, TypeInv, TypeOK
  <2>4. SoftInv'
    BY <1>2, <1>6, <2>2 DEF SoftInv, Calm
  <2>5. ~errMsg' => MemoryOK'
    BY <1>2, <1>3, <1>6, <2>2 DEF MemoryOK, Saved, InMemory, Used
  <2>6. Rest(todo', todo') /\ Left' = 3
    <3>1. InsertHard(t, <<p[1], p[2]>>) \in Seq(Accesses)
          /\ Len(InsertHard(t, <<p[1], p[2]>>)) = 3
      BY <2>2, HardTypeLists, Zenon
    <3> QED
      BY <2>1, <2>2, <3>1, RestAll DEF Left
  <2>7. todo' = InsertHard(t, <<slots'[t].type, slots'[t].addr>>)
    BY <2>1, <2>2, <2>3, Zenon
  <2> HIDE DEF Left
  <2>8. HardInserting(t)'
    <3>1. Rest(todo', InsertHard(t, <<slots'[t].type, slots'[t].addr>>))
      BY <2>6, <2>7
    <3>2. slots'[t].type # "unused" /\ slots'[t].addr \in Addrs
      BY <2>2, <2>3 DEF HardTypes, WatchTypes
    <3>3. ~errMsg' => Ebreaks' /\ \A u \in Triggers \ {t} : Fits(u)'
      BY <1>2, <1>3, <1>6, <2>3 DEF Applied, Ebreaks, Fits, Lost, Agrees
    <3>4. ~ (Left' <= 2) /\ ~ (Left' <= 1) /\ Left' # 0
      BY <2>6
    <3> QED
      BY <3>1, <3>2, <3>3, <3>4, Zenon DEF HardInserting
  <2>9. PointInv'
    BY <1>2, <2>5, <2>8 DEF PointInv
  <2> QED
    BY <1>1, <1>4, <1>5, <2>4, <2>9 DEF IInv
<1> QED
  BY <1>7, <1>8, <1>9

LEMMA RemoveKeeps == ASSUME NEW p \in Points, IInv, Remove(p)  PROVE  IInv'
<1>1. TypeInv'
  BY RemoveKeepsType DEF IInv
<1>2. /\ op = "none" /\ connected /\ ~running /\ targetError = "none" /\ op' = "remove"
      /\ UNCHANGED <<hartVars, image, connected, running, errMsg, targetError, left, wiped>>
  BY DEF Remove, Command, AtRest, Call
<1>3. UNCHANGED <<hart, haltReq, dcsr, tselect, triggers, mem>>
  BY <1>2 DEF hartVars
<1>4. CallInv' /\ ListInv' /\ HardInv'
  BY <1>2 DEF CallInv, Stopped, ListInv, HardInv, Calm
<1>5. HeldInv'
  BY <1>2, <1>3 DEF IInv, HeldInv, Held, Stopped
<1>6. /\ ~errMsg => Applied
      /\ ~errMsg => MemoryOK
      /\ SoftInv
  BY <1>2 DEF IInv, HardInv, SoftInv, Sane, Calm
<1>7. CASE p[1] = "software"
  <2>1. PICK s \in SoftSlots :
          /\ soft[s].used /\ soft[s].addr = p[2]
          /\ soft' = [soft EXCEPT ![s] = NoSoft]
          /\ todo' = RemoveSoft(s)
    BY <1>7 DEF Remove, First, Call
  <2>2. PICK a \in CodeAddrs : a = p[2]
    BY <1>7, PointType
  <2>3. PICK i \in Inst : i = soft[s].orig
    BY DEF IInv, TypeInv, TypeOK, SoftType
  <2>4. /\ soft \in [SoftSlots -> SoftType] /\ UNCHANGED slots
        /\ ~ soft'[s].used
        /\ \A r \in SoftSlots \ {s} : soft'[r] = soft[r]
    BY <1>7, <2>1 DEF IInv, TypeInv, TypeOK, SoftType, NoSoft, Remove
  <2>5. SoftInv'
    BY <1>2, <1>6, <2>4 DEF SoftInv, Calm
  <2>6. todo' = <<Do("write_mem", [addr |-> a, inst |-> i])>>
    BY <2>1, <2>2, <2>3 DEF RemoveSoft
  <2>7. Rest(todo', todo') /\ Left' = 1
    <3>1. <<Do("write_mem", [addr |-> a, inst |-> i])>> \in Seq(Accesses)
      BY <2>2, <2>4, WriteType, Zenon
    <3> QED
      BY <2>6, <3>1, RestAll DEF Left, Do
  <2>8. ~ Used(a)'
    BY <1>6, <2>1, <2>2, <2>4 DEF Used, SoftInv
  <2>9. ~errMsg' => \A r \in SoftSlots : Saved(r)'
    BY <1>2, <1>6, <2>4 DEF MemoryOK, Saved
  <2>10. ~errMsg' /\ a \notin left => i = "program"
    BY <1>2, <1>6, <2>1, <2>2, <2>3 DEF MemoryOK, Saved
  <2>11. ~errMsg' => \A b \in CodeAddrs \ (left' \cup {a}) : InMemory(b)'
    BY <1>2, <1>3, <1>6, <2>1, <2>2, <2>4 DEF MemoryOK, InMemory, Used
  <2> HIDE DEF Left
  <2>12. SoftRemoving(a, i)'
    <3>1. Rest(todo', <<Do("write_mem", [addr |-> a, inst |-> i])>>)
      BY <2>6, <2>7, Zenon
    <3>2. Left' # 0 /\ left' = left
      BY <1>2, <2>7
    <3> QED
      BY <2>8, <2>9, <2>10, <2>11, <3>1, <3>2, Zenon DEF SoftRemoving
  <2>13. ~errMsg' => Applied'
    BY <1>2, <1>3, <1>6, <2>4 DEF Applied, Ebreaks, Fits, Lost, Agrees
  <2>14. PointInv'
    BY <1>2, <2>12, <2>13 DEF PointInv
  <2> QED
    BY <1>1, <1>4, <1>5, <2>5, <2>14 DEF IInv
<1>8. CASE p[1] # "software"
  <2>1. PICK t \in Triggers :
          slots' = [slots EXCEPT ![t].type = "unused"] /\ todo' = RemoveHard(t)
    BY <1>8 DEF Remove, Call
  <2>2. UNCHANGED soft
    BY <1>8 DEF Remove
  <2>3. slots'[t].type = "unused" /\ \A u \in Triggers \ {t} : slots'[u] = slots[u]
    BY <2>1 DEF IInv, TypeInv, TypeOK, SlotType
  <2>4. SoftInv'
    BY <1>2, <1>6, <2>2 DEF SoftInv, Calm
  <2>5. ~errMsg' => MemoryOK'
    BY <1>2, <1>3, <1>6, <2>2 DEF MemoryOK, Saved, InMemory, Used
  <2>6. Rest(todo', RemoveHard(t)) /\ Left' = 2
    <3>1. RemoveHard(t) \in Seq(Accesses) /\ Len(RemoveHard(t)) = 2
      BY RemoveHardType, Zenon
    <3> QED
      BY <2>1, <3>1, RestAll DEF Left
  <2> HIDE DEF Left
  <2>7. HardRemoving(t)'
    <3>1. ~errMsg' => Ebreaks' /\ \A u \in Triggers \ {t} : Fits(u)'
      BY <1>2, <1>3, <1>6, <2>3 DEF Applied, Ebreaks, Fits, Lost, Agrees
    <3>2. ~ (Left' <= 1) /\ Left' # 0
      BY <2>6
    <3> QED
      BY <2>3, <2>6, <3>1, <3>2, Zenon DEF HardRemoving
  <2>8. PointInv'
    BY <1>2, <2>5, <2>7 DEF PointInv
  <2> QED
    BY <1>1, <1>4, <1>5, <2>4, <2>8 DEF IInv
<1> QED
  BY <1>7, <1>8

(***************************************************************************)
(* The accesses keep the invariant.                                        *)
(***************************************************************************)
LEMMA ControlKeeps == IInv /\ WriteControl => IInv'
<1> SUFFICES ASSUME IInv, WriteControl  PROVE  IInv'
  OBVIOUS
<1>1. TypeInv' /\ TypeInv
  BY ControlKeepsType DEF IInv
<1>2. /\ todo # <<>> /\ todo' = Tail(todo)
      /\ UNCHANGED <<op, image, errMsg, slots, soft, connected, running, targetError, report,
                     left, wiped>>
  BY DEF WriteControl, Next1, Quiet, serverVars, historyVars
<1>3. mem' = mem
  BY DEF WriteControl, WriteResume, WriteReset, registers
<1>4. Left \in Nat /\ Left > 0 /\ Left' = Left - 1 /\ HardwareNum \in Nat
  BY <1>1, <1>2, LeftStep, HartAssumption
<1>5. /\ op \in {"connect", "disconnect", "reset", "ctrl_c", "continue", "step"}
      /\ op = "connect" => Head(todo).do \in {"off", "on", "halt"}
      /\ op = "reset" => Head(todo).do \in {"halt", "reset"}
      /\ op = "ctrl_c" => Head(todo).do = "halt"
      /\ op \in {"continue", "step"} => Head(todo).do = "resume"
  <2>1. Head(todo).do \in {"off", "on", "halt", "resume", "reset"}
    BY DEF WriteControl, Next1
  <2> QED
    BY <1>2, <2>1, HeadOp
<1>6. op = "connect" => /\ Head(todo).do \in {"off", "on"} => Left >= 2 * HardwareNum + 6
                        /\ Head(todo).do = "halt" => Left = 2 * HardwareNum + 5
  BY <1>1, <1>2, ConnectHead, Zenon DEF IInv
<1>7. op \in {"continue", "step"} => Left = 1
  <2>1. op \in {"continue", "step"} => (Head(todo).do = "resume" => Left = 1)
    BY <1>1, <1>2, RunHead, Zenon DEF IInv
  <2> QED
    BY <1>5, <2>1
<1>8. Head(todo).do \in {"halt", "reset"} => haltReq'
  BY DEF WriteControl, Next1, Control, WriteReset
<1>9. Head(todo).do # "reset" => UNCHANGED <<dcsr, triggers, tselect>>
  BY DEF WriteControl, Next1, WriteResume, registers
<1>10. CallInv'
  BY <1>2, CallStep DEF IInv
<1>11. ListInv'
  BY <1>1, <1>2, ListStep DEF IInv
<1> HIDE DEF Left
<1>12. HeldInv'
  <2>1. CASE op = "connect"
    BY <1>2, <1>4, <1>5, <1>6, <1>8, <2>1 DEF HeldInv, Held, Stopped
  <2>2. CASE op = "reset"
    BY <1>2, <1>5, <1>8, <2>2 DEF HeldInv, Held, Stopped
  <2>3. CASE op = "ctrl_c"
    BY <1>2, <1>5, <1>8, <2>3 DEF HeldInv, Held, Stopped
  <2>4. CASE op \in {"continue", "step"}
    BY <1>2, <1>4, <1>7, <2>4 DEF HeldInv, Held, Stopped
  <2>5. CASE op = "disconnect"
    BY <1>2, <2>5 DEF HeldInv, Held, Stopped
  <2> QED
    BY <1>5, <2>1, <2>2, <2>3, <2>4, <2>5
<1>13. HardInv'
  <2>1. CASE op = "connect"
    <3>1. ~ (Left' <= 2 * HardwareNum + 1)
      BY <1>4, <1>5, <1>6, <2>1
    <3> QED
      BY <1>2, <2>1, <3>1 DEF IInv, HardInv, Calm, CallInv
  <2>2. CASE op = "reset"
    <3>1. wiped
      BY <2>2 DEF IInv, CallInv
    <3>2. \/ UNCHANGED triggers
          \/ \A t \in Triggers : triggers'[t].type = "unused"
      <4>1. CASE Head(todo).do = "reset"
        <5>1. WriteReset
          BY <4>1 DEF WriteControl, Next1
        <5> QED
          BY <5>1 DEF WriteReset, NoSlot
      <4> QED
        BY <1>9, <4>1
    <3>3. Sane /\ ~errMsg => Applied
      BY <2>2 DEF IInv, HardInv, Calm
    <3>4. Sane' /\ ~errMsg' => Applied'
      BY <1>2, <3>1, <3>2, <3>3 DEF Sane, Applied, Ebreaks, Fits, Lost, Agrees
    <3> QED
      BY <1>2, <2>2, <3>4 DEF HardInv, Sane
  <2>3. CASE op \in {"ctrl_c", "continue", "step"}
    <3>1. UNCHANGED <<dcsr, triggers>>
      BY <1>5, <1>9, <2>3
    <3>2. ~ (op \in {"continue", "step"} /\ Left' = 2) /\ op # "access" /\ op \in Calm
      BY <1>4, <1>7, <2>3 DEF Calm
    <3> QED
      BY <1>2, <3>1, <3>2, HardStep DEF IInv
  <2>4. CASE op = "disconnect"
    BY <1>2, <2>4 DEF HardInv, Calm
  <2> QED
    BY <1>5, <2>1, <2>2, <2>3, <2>4
<1>14. SoftInv'
  BY <1>2, <1>3, SoftStep DEF IInv
<1>15. PointInv'
  BY <1>2, <1>5, NoPoint
<1> QED
  BY <1>1, <1>10, <1>11, <1>12, <1>13, <1>14, <1>15 DEF IInv

LEMMA ReadDcsrKeeps == IInv /\ ReadDcsr => IInv'
<1> SUFFICES ASSUME IInv, ReadDcsr  PROVE  IInv'
  OBVIOUS
<1>1. TypeInv' /\ TypeInv
  BY DcsrKeepsType DEF IInv
<1>2. /\ todo # <<>> /\ todo' = Tail(todo) /\ Head(todo).do = "read_dcsr" /\ NoteError
      /\ UNCHANGED <<hartVars, op, slots, soft, connected, running, targetError, report,
                     left, wiped>>
  BY DEF ReadDcsr, Next1, Quiet, serverVars, historyVars
<1>3. UNCHANGED <<hart, haltReq, dcsr, triggers, tselect, mem>> /\ (errMsg => errMsg')
  BY <1>2 DEF hartVars, NoteError
<1>4. Left \in Nat /\ Left > 0 /\ Left' = Left - 1 /\ HardwareNum \in Nat
  BY <1>1, <1>2, LeftStep, HartAssumption
<1>5. op \in {"connect", "continue", "step", "disconnect", "access", "halt_check"}
  BY <1>2, HeadOp
<1>6. op = "connect" => Left = 2 * HardwareNum + 4
  BY <1>1, <1>2, ConnectHead, Zenon DEF IInv
<1>7. op = "halt_check" => hart = "halted"
  <2>1. op = "halt_check" => Left = 2
    BY <1>1, <1>2, HaltCheckHead, Zenon DEF IInv
  <2> QED
    BY <2>1 DEF IInv, HeldInv
<1>8. CallInv' /\ ListInv'
  BY <1>1, <1>2, CallStep, ListStep DEF IInv
<1> HIDE DEF Left
<1>9. HeldInv'
  <2>1. op = "connect" => Left # 2 * HardwareNum + 5
    BY <1>4, <1>6
  <2>2. op \notin {"none", "ctrl_c"}
    BY <1>5
  <2> QED
    BY <1>1, <1>2, <1>3, <1>7, <2>1, <2>2, HeldStep DEF IInv
<1>10. HardInv'
  <2>1. CASE op = "connect"
    <3>1. ~ (Left' <= 2 * HardwareNum + 1)
      BY <1>4, <1>6, <2>1
    <3> QED
      BY <1>2, <2>1, <3>1 DEF IInv, HardInv, Calm
  <2>2. CASE op \in {"continue", "step", "access", "halt_check"}
    <3>1. op \in Calm
      BY <2>2 DEF Calm
    <3>2. ASSUME op \in {"continue", "step", "access"}, ~errMsg', ~wiped'
          PROVE  image'.ebreak
      <4>1. ~errMsg /\ hart = "halted"
        BY <1>1, <1>2, <3>2, NotRefused
      <4>2. Sane
        BY <3>2 DEF IInv, CallInv, Stopped, Sane
      <4>3. dcsr.ebreak
        BY <1>2, <3>1, <3>2, <4>1, <4>2 DEF IInv, HardInv, Applied, Ebreaks
      <4> QED
        BY <4>1, <4>3 DEF ReadDcsr, Refused
    <3> QED
      BY <1>2, <1>3, <3>1, <3>2, HardStep DEF IInv
  <2>3. CASE op = "disconnect"
    BY <1>2, <2>3 DEF HardInv, Calm
  <2> QED
    BY <1>5, <2>1, <2>2, <2>3
<1>11. SoftInv'
  BY <1>2, <1>3, SoftStep DEF IInv
<1>12. PointInv'
  BY <1>2, <1>5, NoPoint
<1> QED
  BY <1>1, <1>8, <1>9, <1>10, <1>11, <1>12 DEF IInv

LEMMA WriteDcsrKeeps == IInv /\ WriteDcsr => IInv'
<1> SUFFICES ASSUME IInv, WriteDcsr  PROVE  IInv'
  OBVIOUS
<1>1. TypeInv' /\ TypeInv
  BY DcsrKeepsType DEF IInv
<1>2. /\ todo # <<>> /\ todo' = Tail(todo) /\ Head(todo).do = "write_dcsr" /\ NoteError
      /\ UNCHANGED <<hart, haltReq, mem, triggers, tselect, op, slots, soft, connected, running,
                     targetError, report, left, wiped>>
  BY DEF WriteDcsr, Next1, Quiet, serverVars, historyVars
<1>3. errMsg => errMsg'
  BY <1>2 DEF NoteError
<1>4. Left \in Nat /\ Left > 0 /\ Left' = Left - 1 /\ HardwareNum \in Nat
  BY <1>1, <1>2, LeftStep, HartAssumption
<1>5. op \in {"connect", "continue", "step", "disconnect", "access"}
  BY <1>2, HeadOp
<1>6. op = "connect" => Left = 2 * HardwareNum + 2 /\ Arg = "ebreak_on" /\ targetError = "none"
  BY <1>1, <1>2, ConnectHead, Zenon DEF IInv
<1>7. op \in {"continue", "step"} => Left = 2 /\ Arg \in {"run", "step"}
  BY <1>1, <1>2, RunHead, Zenon DEF IInv
<1>8. op = "access" => Left = 1 /\ Arg = "prv" /\ todo[1].do = "write_dcsr"
  <2>1. op = "access" => Left = 1 /\ Arg = "prv"
    BY <1>1, <1>2, AccessHead, Zenon DEF IInv
  <2>2. todo[1] = Head(todo)
    BY <1>1, <1>2, TodoHead DEF TypeInv
  <2> QED
    BY <1>2, <2>1, <2>2
\* What is written to DCSR keeps ebreak, unless a session ends.
<1>9. ASSUME ~errMsg', Arg \in {"ebreak_on", "run", "step", "prv"}
      PROVE  dcsr'.ebreak = IF Arg = "ebreak_on" THEN TRUE ELSE image.ebreak
  <2>1. hart = "halted"
    BY <1>1, <1>2, <1>9, NotRefused
  <2>2. dcsr' = Written(Edited(Arg))
    BY <2>1 DEF WriteDcsr, Refused
  <2>3. Edited(Arg) \in Images /\ image \in Images
    BY <1>1, ImageType DEF TypeInv, TypeOK
  <2>4. Edited(Arg).ebreak = IF Arg = "ebreak_on" THEN TRUE ELSE image.ebreak
    BY <1>9, <2>3 DEF Edited, Images, Dcsr
  <2>5. \A i \in Images : Written(i).ebreak = i.ebreak
    BY DEF Images, Dcsr, Written
  <2> QED
    BY <2>2, <2>3, <2>4, <2>5
<1>10. CallInv' /\ ListInv'
  BY <1>1, <1>2, CallStep, ListStep DEF IInv
<1> HIDE DEF Left
<1>11. HeldInv'
  <2>1. op = "connect" => Left # 2 * HardwareNum + 5
    BY <1>4, <1>6
  <2>2. op \notin {"none", "ctrl_c"} /\ op # "halt_check"
    BY <1>5
  <2> QED
    BY <1>1, <1>2, <2>1, <2>2, HeldStep DEF IInv
<1>12. HardInv'
  <2>1. CASE op = "connect"
    <3>1. ~errMsg' => dcsr'.ebreak
      BY <1>6, <1>9, <2>1
    <3>2. \A t \in Triggers : ~ (2 * t <= Cleared') /\ 2 * t # Cleared' + 1
      BY <1>4, <1>6, <2>1 DEF Triggers, Cleared
    <3>3. ~wiped /\ \A t \in Triggers : slots[t].type = "unused"
      BY <1>6, <2>1 DEF IInv, HardInv
    <3> HIDE DEF Cleared
    <3> QED
      BY <1>2, <2>1, <3>1, <3>2, <3>3 DEF HardInv, Calm
  <2>2. CASE op \in {"continue", "step", "access"}
    <3>1. ASSUME ~errMsg'  PROVE  Applied'
      <4>1. ~errMsg
        BY <1>1, <1>2, <3>1, NotRefused
      <4>2. ~wiped => image.ebreak
        BY <1>7, <1>8, <2>2, <3>1, <4>1 DEF IInv, HardInv
      <4>3. ~wiped => dcsr'.ebreak
        BY <1>7, <1>8, <1>9, <2>2, <3>1, <4>2
      <4>4. Applied
        BY <2>2, <3>1, <4>1 DEF IInv, HardInv, CallInv, Stopped, Sane, Calm
      <4> QED
        BY <1>2, <4>3, <4>4 DEF Applied, Ebreaks, Fits, Lost, Agrees
    <3>2. /\ ~ (op \in {"continue", "step"} /\ Left' = 2)
          /\ ~ (op = "access" /\ Left' = 1)
      BY <1>4, <1>7, <1>8
    <3> QED
      BY <1>2, <2>2, <3>1, <3>2 DEF HardInv
  <2>3. CASE op = "disconnect"
    BY <1>2, <2>3 DEF HardInv, Calm
  <2> QED
    BY <1>5, <2>1, <2>2, <2>3
<1>13. SoftInv'
  BY <1>2, <1>3, SoftStep DEF IInv
<1>14. PointInv'
  BY <1>2, <1>5, NoPoint
<1> QED
  BY <1>1, <1>10, <1>11, <1>12, <1>13, <1>14 DEF IInv

LEMMA CheckVersionKeeps == IInv /\ CheckVersion => IInv'
<1> SUFFICES ASSUME IInv, CheckVersion  PROVE  IInv'
  OBVIOUS
<1>1. TypeInv' /\ TypeInv
  BY DcsrKeepsType DEF IInv
<1>2. /\ todo # <<>> /\ Head(todo).do = "check"
      /\ UNCHANGED <<hartVars, op, errMsg, slots, soft, connected, running, report, left, wiped>>
  BY DEF CheckVersion, historyVars
<1>3. UNCHANGED <<hart, haltReq, dcsr, triggers, tselect, mem>>
  BY <1>2 DEF hartVars
<1>4. op = "connect"
  BY <1>2, HeadOp
<1>5. targetError = "none" /\ Left = 2 * HardwareNum + 3 /\ Rest(Tail(todo), ConnectList)
  BY <1>1, <1>2, <1>4, ConnectHead, Zenon DEF IInv
<1>6. \/ targetError' = "compat" /\ todo' = <<>>
      \/ targetError' = "none" /\ todo' = Tail(todo)
  BY <1>5 DEF CheckVersion
<1>7. targetError' = "none" => Left' = Left - 1 /\ HardwareNum \in Nat
  BY <1>1, <1>2, <1>6, LeftStep, HartAssumption
<1>8. CallInv'
  BY <1>2, <1>4, CallStep DEF IInv
<1>9. ListInv'
  BY <1>2, <1>4, <1>5, <1>6 DEF ListInv
<1> HIDE DEF Left
<1>10. HeldInv'
  <2>1. haltReq
    BY <1>4, <1>5, HartAssumption DEF IInv, HeldInv
  <2> QED
    BY <1>2, <1>3, <1>4, <2>1 DEF HeldInv, Stopped
<1>11. HardInv'
  <2>1. ~wiped /\ \A t \in Triggers : slots[t].type = "unused"
    BY <1>4, <1>5 DEF IInv, HardInv
  <2>2. targetError' = "none" => ~ (Left' <= 2 * HardwareNum + 1)
    BY <1>5, <1>7
  <2> QED
    BY <1>2, <1>4, <2>1, <2>2 DEF HardInv, Calm
<1>12. SoftInv'
  BY <1>2, <1>3, <1>5, SoftStep DEF IInv
<1>13. PointInv'
  BY <1>2, <1>4, NoPoint
<1> QED
  BY <1>1, <1>8, <1>9, <1>10, <1>11, <1>12, <1>13 DEF IInv

LEMMA TriggerKeeps == IInv /\ WriteTrigger => IInv'
<1> SUFFICES ASSUME IInv, WriteTrigger  PROVE  IInv'
  OBVIOUS
<1>1. TypeInv' /\ TypeInv
  BY TriggerKeepsType DEF IInv
<1>2. /\ todo # <<>> /\ todo' = Tail(todo) /\ Head(todo).do \in {"select", "type", "addr"}
      /\ NoteError
      /\ UNCHANGED <<hart, haltReq, dcsr, mem, op, slots, soft, connected, running,
                     targetError, report, left, wiped>>
  BY DEF WriteTrigger, Next1, Quiet, serverVars, historyVars
<1>3. errMsg => errMsg'
  BY <1>2 DEF NoteError
<1>4. Left \in Nat /\ Left > 0 /\ Left' = Left - 1 /\ HardwareNum \in Nat
  BY <1>1, <1>2, LeftStep, HartAssumption
<1>5. op \in {"connect", "insert", "remove"}
  BY <1>2, HeadOp
\* What a write that is not refused does.
<1>6. ASSUME ~errMsg'
      PROVE  /\ ~errMsg
             /\ Head(todo).do = "select" => tselect' = Arg /\ triggers' = triggers
             /\ Head(todo).do = "type" => /\ triggers'[tselect] = Typed(Arg)
                                          /\ \A u \in Triggers \ {tselect} : triggers'[u] = triggers[u]
                                          /\ tselect' = tselect
             /\ Head(todo).do = "addr" => /\ triggers'[tselect] = [triggers[tselect] EXCEPT !.addr = Arg]
                                          /\ \A u \in Triggers \ {tselect} : triggers'[u] = triggers[u]
                                          /\ tselect' = tselect
  <2>1. ~errMsg /\ hart = "halted"
    BY <1>1, <1>2, <1>6, NotRefused
  <2>2. triggers \in [Triggers -> SlotType] /\ tselect \in Triggers
    BY <1>1 DEF TypeInv, TypeOK, HartTypeOK
  <2> QED
    BY <2>1, <2>2 DEF WriteTrigger, Next1, Refused
<1>7. CallInv' /\ ListInv'
  BY <1>1, <1>2, CallStep, ListStep DEF IInv
<1>8. op = "connect" =>
        /\ targetError = "none"
        /\ Head(todo).do = "select" => Arg \in Triggers /\ Left = 2 * HardwareNum + 3 - 2 * Arg
        /\ Head(todo).do = "type" =>
             Arg = "unused" /\ \E t \in Triggers : Left = 2 * HardwareNum + 2 - 2 * t
        /\ Head(todo).do \in {"off", "on", "halt", "read_dcsr", "check", "write_dcsr",
                               "select", "type", "protection"}
  BY <1>1, <1>2, ConnectHead, Zenon DEF IInv
<1> HIDE DEF Left
<1>9. op = "connect" => Left # 2 * HardwareNum + 5
  BY <1>2, <1>4, <1>8 DEF Triggers
<1>10. HeldInv'
  BY <1>1, <1>2, <1>5, <1>9, HeldStep DEF IInv
<1>11. SoftInv'
  BY <1>2, <1>3, SoftStep DEF IInv
<1>12. CASE op = "connect"
  <2>1. HardInv'
    <3>1. ~wiped /\ \A t \in Triggers : slots[t].type = "unused"
      BY <1>8, <1>12 DEF IInv, HardInv
    <3>2. ASSUME ~errMsg', Left' <= 2 * HardwareNum + 1
          PROVE  /\ dcsr'.ebreak
                 /\ \A t \in Triggers : 2 * t <= Cleared' => triggers'[t].type = "unused"
                 /\ \A t \in Triggers : 2 * t = Cleared' + 1 => tselect' = t
      <4>1. /\ Left <= 2 * HardwareNum + 1
            /\ Cleared' = Cleared + 1 /\ Cleared \in Int
        BY <1>2, <1>4, <1>8, <1>12 DEF Cleared, Triggers
      <4>2. /\ dcsr.ebreak
            /\ \A t \in Triggers : 2 * t <= Cleared => triggers[t].type = "unused"
            /\ \A t \in Triggers : 2 * t = Cleared + 1 => tselect = t
        BY <1>6, <1>8, <1>12, <3>2, <4>1 DEF IInv, HardInv
      <4>3. CASE Head(todo).do = "select"
        <5>1. Arg \in Triggers /\ Cleared = 2 * Arg - 2
          BY <1>4, <1>8, <1>12, <4>3 DEF Cleared, Triggers
        <5>2. tselect' = Arg /\ triggers' = triggers
          BY <1>6, <3>2, <4>3
        <5>3. ASSUME NEW t \in Triggers
              PROVE  /\ 2 * t <= Cleared' => triggers'[t].type = "unused"
                     /\ 2 * t = Cleared' + 1 => tselect' = t
          BY <4>1, <4>2, <5>1, <5>2 DEF Triggers
        <5> QED
          BY <1>2, <4>2, <5>3
      <4>4. CASE Head(todo).do = "type"
        <5>1. PICK s \in Triggers : Left = 2 * HardwareNum + 2 - 2 * s
          BY <1>8, <1>12, <4>4
        <5>2. Cleared = 2 * s - 1 /\ tselect = s
          BY <1>4, <4>2, <5>1 DEF Cleared, Triggers
        <5>3. triggers'[s].type = "unused"
          BY <1>6, <1>8, <1>12, <3>2, <4>4, <5>2 DEF Typed, NoSlot
        <5>4. ASSUME NEW t \in Triggers
              PROVE  /\ 2 * t <= Cleared' => triggers'[t].type = "unused"
                     /\ 2 * t = Cleared' + 1 => tselect' = t
          <6>1. 2 * t # Cleared' + 1
            BY <4>1, <5>1, <5>2 DEF Triggers
          <6>2. t # s /\ 2 * t <= Cleared' => 2 * t <= Cleared
            BY <4>1, <5>1, <5>2 DEF Triggers
          <6>3. t # s => triggers'[t] = triggers[t]
            BY <1>6, <3>2, <4>4, <5>2
          <6> QED
            BY <4>2, <5>3, <6>1, <6>2, <6>3
        <5> QED
          BY <1>2, <4>2, <5>4
      <4>5. Head(todo).do # "addr"
        BY <1>8, <1>12
      <4> QED
        BY <1>2, <4>3, <4>4, <4>5
    <3> HIDE DEF Cleared
    <3> QED
      BY <1>2, <1>12, <3>1, <3>2 DEF HardInv, Calm
  <2>2. PointInv'
    BY <1>2, <1>12, NoPoint
  <2> QED
    BY <1>1, <1>7, <1>10, <1>11, <2>1, <2>2 DEF IInv
<1>13. CASE op # "connect"
  <2>1. HardInv'
    BY <1>2, <1>5, <1>13 DEF HardInv, Calm
  <2>2. ~errMsg' => MemoryOK'
    <3>1. ~errMsg => MemoryOK
      BY <1>2, <1>13, WritesTrigger
    <3> QED
      BY <1>2, <1>3, <3>1 DEF MemoryOK, Saved, InMemory, Used
  <2>3. CASE op = "insert"
    <3>1. PICK t \in Triggers :
            /\ HardInserting(t) /\ Left \in 1 .. 3
            /\ Left = 3 => Head(todo).do = "select" /\ Arg = t
            /\ Left = 2 => Head(todo).do = "type" /\ Arg = slots[t].type
            /\ Left = 1 => Head(todo).do = "addr" /\ Arg = slots[t].addr
      BY <1>2, <1>13, <2>3, WritesTrigger
    <3>2. slots[t].type # "unused" /\ slots[t].addr \in Addrs
      BY <3>1 DEF HardInserting
    <3>3. Rest(todo', InsertHard(t, <<slots[t].type, slots[t].addr>>))
      BY <1>1, <1>2, <3>1, HardInsertHead, Zenon
    <3>4. ASSUME ~errMsg'
          PROVE  /\ Ebreaks'
                 /\ \A u \in Triggers \ {t} : Fits(u)'
                 /\ Left' <= 2 => tselect' = t
                 /\ Left' <= 1 => triggers'[t].type = slots'[t].type
                 /\ Left' = 0 => triggers'[t] = slots'[t]
      <4>1. /\ Ebreaks /\ ~errMsg
            /\ \A u \in Triggers \ {t} : Fits(u)
            /\ Left <= 2 => tselect = t
            /\ Left <= 1 => triggers[t].type = slots[t].type
        BY <1>2, <1>6, <3>1, <3>4 DEF HardInserting
      <4>2. slots[t] \in SlotType /\ triggers[t] \in SlotType
        BY <1>1 DEF TypeInv, TypeOK, HartTypeOK
      <4>3. CASE Left = 3
        BY <1>2, <1>4, <1>6, <3>1, <3>4, <4>1, <4>3 DEF Ebreaks, Fits, Lost, Agrees
      <4>4. CASE Left = 2
        <5>1. tselect = t /\ Head(todo).do = "type" /\ Arg = slots[t].type
          BY <3>1, <4>1, <4>4
        <5>2. triggers'[t].type = slots[t].type
          BY <1>6, <3>2, <3>4, <4>2, <5>1 DEF Typed, SlotType
        <5>3. \A u \in Triggers \ {t} : triggers'[u] = triggers[u]
          BY <1>6, <3>4, <5>1
        <5>4. tselect' = t
          BY <1>6, <3>4, <5>1
        <5> QED
          BY <1>2, <1>4, <4>1, <4>4, <5>2, <5>3, <5>4 DEF Ebreaks, Fits, Lost, Agrees
      <4>5. CASE Left = 1
        <5>1. tselect = t /\ Head(todo).do = "addr" /\ Arg = slots[t].addr
          BY <3>1, <4>1, <4>5
        <5>2. triggers'[t] = [triggers[t] EXCEPT !.addr = slots[t].addr]
          BY <1>6, <3>4, <5>1
        <5>3. triggers'[t] = slots[t]
          BY <4>1, <4>2, <4>5, <5>2 DEF SlotType
        <5>4. \A u \in Triggers \ {t} : triggers'[u] = triggers[u]
          BY <1>6, <3>4, <5>1
        <5>5. tselect' = t
          BY <1>6, <3>4, <5>1
        <5> QED
          BY <1>2, <1>4, <4>1, <4>5, <5>3, <5>4, <5>5 DEF Ebreaks, Fits, Lost, Agrees
      <4> QED
        BY <3>1, <4>3, <4>4, <4>5
    <3>5. HardInserting(t)'
      BY <1>2, <3>2, <3>3, <3>4, Zenon DEF HardInserting
    <3> QED
      BY <1>2, <1>1, <1>7, <1>10, <1>11, <2>1, <2>2, <2>3, <3>5 DEF IInv, PointInv
  <2>4. CASE op = "remove"
    <3>1. PICK t \in Triggers :
            /\ HardRemoving(t) /\ Left \in 1 .. 2
            /\ Left = 2 => Head(todo).do = "select" /\ Arg = t
            /\ Left = 1 => Head(todo).do = "type" /\ Arg = "unused"
      BY <1>2, <1>13, <2>4, WritesTrigger
    <3>2. slots[t].type = "unused"
      BY <3>1 DEF HardRemoving
    <3>3. Rest(todo', RemoveHard(t))
      BY <1>1, <1>2, <3>1, HardRemoveHead
    <3>4. ASSUME ~errMsg'
          PROVE  /\ Ebreaks'
                 /\ \A u \in Triggers \ {t} : Fits(u)'
                 /\ Left' <= 1 => tselect' = t
                 /\ Left' = 0 => triggers'[t].type = "unused"
      <4>1. /\ Ebreaks /\ ~errMsg
            /\ \A u \in Triggers \ {t} : Fits(u)
            /\ Left <= 1 => tselect = t
        BY <1>2, <1>6, <3>1, <3>4 DEF HardRemoving
      <4>2. CASE Left = 2
        BY <1>2, <1>4, <1>6, <3>1, <3>4, <4>1, <4>2 DEF Ebreaks, Fits, Lost, Agrees
      <4>3. CASE Left = 1
        <5>1. tselect = t /\ Head(todo).do = "type" /\ Arg = "unused"
          BY <3>1, <4>1, <4>3
        <5>2. triggers'[t].type = "unused"
          BY <1>6, <3>4, <5>1 DEF Typed, NoSlot
        <5>3. tselect' = t /\ \A u \in Triggers \ {t} : triggers'[u] = triggers[u]
          BY <1>6, <3>4, <5>1
        <5> QED
          BY <1>2, <1>4, <4>1, <4>3, <5>2, <5>3 DEF Ebreaks, Fits, Lost, Agrees
      <4> QED
        BY <3>1, <4>2, <4>3
    <3>5. HardRemoving(t)'
      BY <1>2, <3>2, <3>3, <3>4, Zenon DEF HardRemoving
    <3> QED
      BY <1>2, <1>1, <1>7, <1>10, <1>11, <2>1, <2>2, <2>4, <3>5 DEF IInv, PointInv
  <2> QED
    BY <1>5, <1>13, <2>3, <2>4
<1> QED
  BY <1>12, <1>13

LEMMA RegisterKeeps == IInv /\ (AccessRegister \/ AccessMemory) => IInv'
<1> SUFFICES ASSUME IInv, AccessRegister \/ AccessMemory  PROVE  IInv'
  OBVIOUS
<1>1. TypeInv' /\ TypeInv
  BY OtherKeepsType DEF IInv
<1>2. /\ todo # <<>> /\ todo' = Tail(todo) /\ Head(todo).do \in {"register", "memory"}
      /\ (errMsg => errMsg')
      /\ UNCHANGED <<hartVars, op, image, slots, soft, connected, running, targetError, report,
                     left, wiped>>
  <2>1. CASE AccessRegister
    BY <2>1 DEF AccessRegister, NoteError, Next1, Quiet, serverVars, historyVars
  <2>2. CASE AccessMemory
    <3>1. errMsg => errMsg'
      BY <2>2 DEF AccessMemory
    <3> QED
      BY <2>2, <3>1 DEF AccessMemory, Next1, Quiet, serverVars, historyVars
  <2> QED
    BY <2>1, <2>2
<1>3. UNCHANGED <<hart, haltReq, dcsr, triggers, tselect, mem>> /\ (errMsg => errMsg')
  BY <1>2 DEF hartVars
<1>4. op = "access"
  BY <1>2, HeadOp
<1>5. Left' = 0
  <2>1. Left = 1
    BY <1>1, <1>2, <1>4, AccessHead, Zenon DEF IInv
  <2> QED
    BY <1>1, <1>2, <2>1, LeftStep
<1>6. CallInv' /\ ListInv'
  BY <1>1, <1>2, CallStep, ListStep DEF IInv
<1>7. HeldInv'
  BY <1>1, <1>2, <1>3, <1>4, HeldStep DEF IInv
<1> HIDE DEF Left
<1>8. HardInv'
  BY <1>2, <1>3, <1>4, <1>5, HardStep DEF IInv, Calm
<1>9. SoftInv'
  BY <1>2, <1>3, SoftStep DEF IInv
<1>10. PointInv'
  BY <1>2, <1>4, NoPoint
<1> QED
  BY <1>1, <1>6, <1>7, <1>8, <1>9, <1>10 DEF IInv

LEMMA ReadMemKeeps == IInv /\ ReadMem => IInv'
<1> SUFFICES ASSUME IInv, ReadMem  PROVE  IInv'
  OBVIOUS
<1>1. TypeInv' /\ TypeInv
  BY MemoryKeepsType DEF IInv
<1>2. /\ todo # <<>> /\ todo' = Tail(todo) /\ Head(todo).do = "read_mem"
      /\ UNCHANGED <<hartVars, op, image, slots, connected, running, targetError, report,
                     left, wiped>>
  BY DEF ReadMem, Next1, serverVars, historyVars
<1>3. UNCHANGED <<hart, haltReq, dcsr, triggers, tselect, mem>>
  BY <1>2 DEF hartVars
<1>4. op = "insert" /\ Left = 2 /\ (~errMsg => Applied)
  BY <1>2, ReadsMemory
<1>5. PICK s \in SoftSlots : SoftInserting(s) /\ Arg = s /\ soft[s].addr \in CodeAddrs
  BY <1>2, ReadsMemory
<1>6. Left' = 1
  BY <1>1, <1>2, <1>4, LeftStep
<1>7. errMsg => errMsg'
  BY DEF ReadMem
<1>8. /\ soft'[s].used = soft[s].used /\ soft'[s].addr = soft[s].addr
      /\ ~errMsg' => soft'[s].orig = mem[soft[s].addr]
      /\ \A r \in SoftSlots \ {s} : soft'[r] = soft[r]
  <2>1. soft \in [SoftSlots -> SoftType]
    BY <1>1 DEF TypeInv, TypeOK
  <2>2. PICK refused \in BOOLEAN :
          /\ soft' = [soft EXCEPT ![s].orig =
                        IF refused THEN "garbage" ELSE mem[soft[s].addr]]
          /\ errMsg' = (errMsg \/ refused)
    BY <1>5 DEF ReadMem
  <2>3. ~errMsg' => ~refused
    BY <2>2
  <2> QED
    BY <2>1, <2>2, <2>3 DEF SoftType
<1>9. CallInv' /\ ListInv'
  BY <1>1, <1>2, CallStep, ListStep DEF IInv
<1> HIDE DEF Left
<1>10. HeldInv'
  BY <1>1, <1>2, <1>3, <1>4, HeldStep DEF IInv
<1>11. HardInv'
  BY <1>2, <1>4 DEF HardInv, Calm
<1>12. SoftInv'
  <2>1. \A r \in SoftSlots : soft'[r].used = soft[r].used /\ soft'[r].addr = soft[r].addr
    BY <1>8
  <2> QED
    BY <1>2, <1>4, <2>1 DEF IInv, SoftInv, Calm
<1>13. SoftInserting(s)'
  <2>1. Rest(todo', InsertSoft(s, soft'[s].addr))
    <3>1. Rest(Tail(todo), InsertSoft(s, soft[s].addr))
      BY <1>1, <1>2, <1>5, SoftInsertHead, Zenon DEF IInv
    <3>2. soft'[s].addr = soft[s].addr /\ todo' = Tail(todo)
      BY <1>2, <1>8
    <3> QED
      BY <3>1, <3>2, Zenon
  <2>2. soft'[s].used
    BY <1>5, <1>8 DEF SoftInserting
  <2>3. ASSUME ~errMsg'
        PROVE  /\ \A r \in SoftSlots \ {s} : Saved(r)'
               /\ \A b \in CodeAddrs \ (left' \cup {soft'[s].addr}) : InMemory(b)'
               /\ Left' <= 1 => Saved(s)'
               /\ soft'[s].addr \notin left' =>
                    mem'[soft'[s].addr] = IF Left' = 0 THEN "ebreak" ELSE "program"
    <3>1. /\ \A r \in SoftSlots \ {s} : Saved(r)
          /\ \A b \in CodeAddrs \ (left \cup {soft[s].addr}) : InMemory(b)
          /\ soft[s].addr \notin left => mem[soft[s].addr] = "program"
      BY <1>4, <1>5, <1>7, <2>3 DEF SoftInserting
    <3>2. \A r \in SoftSlots \ {s} : Saved(r)'
      BY <1>2, <1>8, <3>1 DEF Saved
    <3>3. \A a : Used(a)' = Used(a)
      BY <1>8 DEF Used
    <3>4. \A b \in CodeAddrs \ (left' \cup {soft'[s].addr}) : InMemory(b)'
      BY <1>2, <1>3, <1>8, <3>1, <3>3 DEF InMemory
    <3>5. Saved(s)'
      BY <1>2, <1>8, <2>3, <3>1 DEF Saved
    <3> QED
      BY <1>2, <1>3, <1>6, <1>8, <3>1, <3>2, <3>4, <3>5
  <2> QED
    BY <2>1, <2>2, <2>3, Zenon DEF SoftInserting
<1>14. PointInv'
  <2>1. ~errMsg' => Applied'
    BY <1>2, <1>3, <1>4, <1>7 DEF Applied, Ebreaks, Fits, Lost, Agrees
  <2> QED
    BY <1>2, <1>4, <1>13, <2>1 DEF PointInv
<1> QED
  BY <1>1, <1>9, <1>10, <1>11, <1>12, <1>14 DEF IInv

LEMMA WriteMemKeeps == IInv /\ WriteMem => IInv'
<1> SUFFICES ASSUME IInv, WriteMem  PROVE  IInv'
  OBVIOUS
<1>1. TypeInv' /\ TypeInv
  BY MemoryKeepsType DEF IInv
<1>2. /\ todo # <<>> /\ todo' = Tail(todo) /\ Head(todo).do = "write_mem"
      /\ UNCHANGED <<hart, haltReq, dcsr, triggers, tselect, op, image, slots, soft, connected,
                     running, targetError, report, left, wiped>>
  BY DEF WriteMem, Next1, Quiet, serverVars, historyVars
<1>3. Left = 1 /\ op \in {"insert", "remove"} /\ (~errMsg => Applied)
  BY <1>2, WritesMemory
<1>4. Left' = 0
  BY <1>1, <1>2, <1>3, LeftStep
<1>5. /\ errMsg => errMsg'
      /\ ~errMsg' => mem' = [mem EXCEPT ![Arg.addr] = Arg.inst]
      /\ mem \in [CodeAddrs -> Inst]
  BY <1>1 DEF WriteMem, TypeInv, TypeOK, HartTypeOK
<1>6. CallInv' /\ ListInv'
  BY <1>1, <1>2, CallStep, ListStep DEF IInv
<1> HIDE DEF Left
<1>7. HeldInv'
  BY <1>1, <1>2, <1>3, HeldStep DEF IInv
<1>8. HardInv'
  BY <1>2, <1>3 DEF HardInv, Calm
<1>9. SoftInv'
  BY <1>2, <1>3 DEF IInv, SoftInv, Calm
<1>10. ~errMsg' => Applied'
  BY <1>2, <1>3, <1>5 DEF Applied, Ebreaks, Fits, Lost, Agrees
<1>11. \A r \in SoftSlots : Saved(r)' = Saved(r)
  BY <1>2 DEF Saved
<1>12. \A b : Used(b)' = Used(b)
  BY <1>2 DEF Used
<1>13. CASE op = "insert"
  <2>1. PICK s \in SoftSlots :
          /\ SoftInserting(s) /\ soft[s].addr \in CodeAddrs
          /\ Arg = [addr |-> soft[s].addr, inst |-> "ebreak"]
    BY <1>2, <1>13, WritesMemory
  <2>2. Rest(todo', InsertSoft(s, soft'[s].addr))
    <3>1. Rest(Tail(todo), InsertSoft(s, soft[s].addr))
      BY <1>1, <1>2, <2>1, SoftInsertHead, Zenon DEF IInv
    <3>2. soft' = soft /\ todo' = Tail(todo)
      BY <1>2
    <3> QED
      BY <3>1, <3>2, Zenon
  <2>3. ASSUME ~errMsg'
        PROVE  /\ \A r \in SoftSlots \ {s} : Saved(r)'
               /\ \A b \in CodeAddrs \ (left' \cup {soft'[s].addr}) : InMemory(b)'
               /\ Left' <= 1 => Saved(s)'
               /\ soft'[s].addr \notin left' =>
                    mem'[soft'[s].addr] = IF Left' = 0 THEN "ebreak" ELSE "program"
    <3>1. /\ \A r \in SoftSlots \ {s} : Saved(r)
          /\ \A b \in CodeAddrs \ (left \cup {soft[s].addr}) : InMemory(b)
          /\ Saved(s)
      BY <1>3, <1>5, <2>1, <2>3 DEF SoftInserting
    <3>2. /\ mem'[soft[s].addr] = "ebreak"
          /\ \A b \in CodeAddrs \ {soft[s].addr} : mem'[b] = mem[b]
      BY <1>5, <2>1, <2>3
    <3>3. \A b \in CodeAddrs \ (left' \cup {soft'[s].addr}) : InMemory(b)'
      BY <1>2, <1>12, <3>1, <3>2 DEF InMemory
    <3> QED
      BY <1>2, <1>4, <1>11, <3>1, <3>2, <3>3
  <2>4. soft'[s].used
    BY <1>2, <2>1 DEF SoftInserting
  <2>5. SoftInserting(s)'
    BY <2>2, <2>3, <2>4, Zenon DEF SoftInserting
  <2> QED
    BY <1>1, <1>2, <1>6, <1>7, <1>8, <1>9, <1>10, <1>13, <2>5 DEF IInv, PointInv
<1>14. CASE op = "remove"
  <2>1. PICK a \in CodeAddrs, i \in Inst :
          SoftRemoving(a, i) /\ Arg = [addr |-> a, inst |-> i]
    BY <1>2, <1>14, WritesMemory
  <2>2. Rest(todo', <<Do("write_mem", [addr |-> a, inst |-> i])>>)
    BY <1>1, <1>2, <2>1, SoftRemoveHead, Zenon
  <2>3. ~ Used(a)'
    BY <1>12, <2>1 DEF SoftRemoving
  <2>4. ASSUME ~errMsg'
        PROVE  /\ \A r \in SoftSlots : Saved(r)'
               /\ a \notin left' => i = "program"
               /\ \A b \in CodeAddrs \ (left' \cup {a}) : InMemory(b)'
               /\ Left' = 0 /\ a \notin left' => InMemory(a)'
    <3>1. /\ \A r \in SoftSlots : Saved(r)
          /\ a \notin left => i = "program"
          /\ \A b \in CodeAddrs \ (left \cup {a}) : InMemory(b)
      BY <1>5, <2>1, <2>4 DEF SoftRemoving
    <3>2. mem'[a] = i /\ \A b \in CodeAddrs \ {a} : mem'[b] = mem[b]
      BY <1>5, <2>1, <2>4
    <3>3. \A b \in CodeAddrs \ (left' \cup {a}) : InMemory(b)'
      BY <1>2, <1>12, <3>1, <3>2 DEF InMemory
    <3>4. a \notin left' => InMemory(a)'
      BY <1>2, <2>3, <3>1, <3>2 DEF InMemory
    <3> QED
      BY <1>2, <1>11, <3>1, <3>3, <3>4
  <2>5. SoftRemoving(a, i)'
    BY <2>2, <2>3, <2>4, Zenon DEF SoftRemoving
  <2> QED
    BY <1>1, <1>2, <1>6, <1>7, <1>8, <1>9, <1>10, <1>14, <2>5 DEF IInv, PointInv
<1> QED
  BY <1>3, <1>13, <1>14

LEMMA ProtectionKeeps == IInv /\ CheckProtection => IInv'
<1> SUFFICES ASSUME IInv, CheckProtection  PROVE  IInv'
  OBVIOUS
<1>1. TypeInv' /\ TypeInv
  BY OtherKeepsType DEF IInv
<1>2. /\ todo # <<>> /\ todo' = Tail(todo) /\ Head(todo).do = "protection" /\ NoteError
      /\ UNCHANGED <<hartVars, op, image, slots, soft, connected, running, report, left, wiped>>
  BY DEF CheckProtection, Next1, historyVars
<1>3. UNCHANGED <<hart, haltReq, dcsr, triggers, tselect, mem>> /\ (errMsg => errMsg')
  BY <1>2 DEF hartVars, NoteError
<1>4. op = "connect"
  BY <1>2, HeadOp
<1>5. targetError = "none" /\ Left = 1 /\ Rest(Tail(todo), ConnectList)
  BY <1>1, <1>2, <1>4, ConnectHead, Zenon DEF IInv
<1>6. Left' = 0 /\ todo' = <<>> /\ HardwareNum \in Nat /\ HardwareNum > 0
  <2>1. Left' = 0 /\ HardwareNum \in Nat /\ HardwareNum > 0
    BY <1>1, <1>2, <1>5, LeftStep, HartAssumption
  <2> QED
    BY <1>1, <2>1, EmptySeq DEF Left, TypeInv
<1>7. CallInv'
  BY <1>2, <1>4, CallStep DEF IInv
<1>8. ListInv'
  BY <1>2, <1>4, <1>5, <1>6 DEF ListInv
<1> HIDE DEF Left
<1>9. HeldInv'
  <2>1. haltReq
    BY <1>4, <1>5, <1>6 DEF IInv, HeldInv
  <2> QED
    BY <1>2, <1>3, <1>4, <2>1 DEF HeldInv, Stopped
<1>10. HardInv'
  <2>1. /\ ~wiped /\ \A t \in Triggers : slots[t].type = "unused"
        /\ ~errMsg => /\ dcsr.ebreak
                      /\ \A t \in Triggers : 2 * t <= Cleared => triggers[t].type = "unused"
    BY <1>4, <1>5, <1>6 DEF IInv, HardInv
  <2>2. \A t \in Triggers : 2 * t <= Cleared /\ 2 * t # Cleared' + 1
    BY <1>5, <1>6 DEF Cleared, Triggers
  <2> HIDE DEF Cleared
  <2> QED
    BY <1>2, <1>3, <1>4, <2>1, <2>2 DEF HardInv, Calm
<1>11. SoftInv'
  BY <1>2, <1>3, <1>5, SoftStep DEF IInv
<1>12. PointInv'
  BY <1>2, <1>4, NoPoint
<1> QED
  BY <1>1, <1>7, <1>8, <1>9, <1>10, <1>11, <1>12 DEF IInv

LEMMA AwaitKeeps == IInv /\ AwaitHalt => IInv'
<1> SUFFICES ASSUME IInv, AwaitHalt  PROVE  IInv'
  OBVIOUS
<1>1. TypeInv' /\ TypeInv
  BY OtherKeepsType DEF IInv
<1>2. /\ todo # <<>> /\ todo' = Tail(todo) /\ Head(todo).do = "await"
      /\ UNCHANGED <<hartVars, op, image, errMsg, slots, soft, connected, running, targetError,
                     report, left, wiped>>
  BY DEF AwaitHalt, Next1, Quiet, serverVars, historyVars
<1>3. UNCHANGED <<hart, haltReq, dcsr, triggers, tselect, mem>>
  BY <1>2 DEF hartVars
<1>4. op = "reset"
  BY <1>2, HeadOp
<1>5. CallInv' /\ ListInv'
  BY <1>1, <1>2, CallStep, ListStep DEF IInv
<1>6. HeldInv'
  BY <1>1, <1>2, <1>3, <1>4, HeldStep DEF IInv
<1> HIDE DEF Left
<1>7. HardInv'
  BY <1>2, <1>3, <1>4, HardStep DEF IInv, Calm
<1>8. SoftInv'
  BY <1>2, <1>3, SoftStep DEF IInv
<1>9. PointInv'
  BY <1>2, <1>4, NoPoint
<1> QED
  BY <1>1, <1>5, <1>6, <1>7, <1>8, <1>9 DEF IInv

LEMMA StatusKeeps == IInv /\ ReadStatus => IInv'
<1> SUFFICES ASSUME IInv, ReadStatus  PROVE  IInv'
  OBVIOUS
<1>1. TypeInv' /\ TypeInv
  BY OtherKeepsType DEF IInv
<1>2. /\ todo # <<>> /\ Head(todo).do = "status"
      /\ UNCHANGED <<hartVars, op, image, errMsg, slots, soft, connected, running, targetError,
                     left, wiped>>
  BY DEF ReadStatus, historyVars
<1>3. UNCHANGED <<hart, haltReq, dcsr, triggers, tselect, mem>>
  BY <1>2 DEF hartVars
<1>4. op = "halt_check"
  BY <1>2, HeadOp
<1>5. \/ hart = "halted" /\ todo' = <<Do("read_dcsr", "none"), Do("cause", "none")>>
      \/ todo' = <<>> /\ report'.reason = "running"
  BY DEF ReadStatus
<1>6. CallInv'
  BY <1>2, CallStep DEF IInv
<1>7. ListInv'
  <2> DEFINE two == <<Do("read_dcsr", "none"), Do("cause", "none")>>
  <2>1. two \in Seq(Accesses)
    BY DEF Do, Accesses
  <2> HIDE DEF two
  <2>2. Rest(two, two) /\ Rest(<<>>, two)
    BY <2>1, RestAll, RestNone, Zenon
  <2>3. todo' = two \/ todo' = <<>>
    BY <1>5 DEF two
  <2>4. Rest(todo', two) /\ op' = "halt_check"
    BY <1>2, <1>4, <2>2, <2>3, Zenon
  <2> QED
    BY <2>4, Zenon DEF ListInv, two
<1>8. HeldInv'
  <2>1. todo' = <<>> => Left' = 0
    BY DEF Left
  <2> HIDE DEF Left
  <2> QED
    BY <1>2, <1>3, <1>4, <1>5, <2>1 DEF HeldInv, Stopped
<1> HIDE DEF Left
<1>9. HardInv'
  BY <1>2, <1>3, <1>4, HardStep DEF IInv, Calm
<1>10. SoftInv'
  BY <1>2, <1>3, SoftStep DEF IInv
<1>11. PointInv'
  BY <1>2, <1>4, NoPoint
<1> QED
  BY <1>1, <1>6, <1>7, <1>8, <1>9, <1>10, <1>11 DEF IInv

LEMMA CauseKeeps == IInv /\ ReadCause => IInv'
<1> SUFFICES ASSUME IInv, ReadCause  PROVE  IInv'
  OBVIOUS
<1>1. TypeInv' /\ TypeInv
  BY OtherKeepsType DEF IInv
<1>2. /\ todo # <<>> /\ todo' = Tail(todo) /\ Head(todo).do = "cause" /\ NoteError
      /\ UNCHANGED <<hartVars, op, image, slots, soft, connected, running, targetError,
                     left, wiped>>
  BY DEF ReadCause, Next1, historyVars
<1>3. UNCHANGED <<hart, haltReq, dcsr, triggers, tselect, mem>> /\ (errMsg => errMsg')
  BY <1>2 DEF hartVars, NoteError
<1>4. op = "halt_check"
  BY <1>2, HeadOp
<1>5. CallInv' /\ ListInv'
  BY <1>1, <1>2, CallStep, ListStep DEF IInv
<1>6. hart = "halted"
  <2>1. Left = 1
    BY <1>1, <1>2, <1>4, HaltCheckHead, Zenon DEF IInv
  <2>2. todo[1] # Do("status", "none")
    BY <1>1, <1>2, TodoHead DEF TypeInv, Do
  <2> HIDE DEF Left
  <2> QED
    BY <1>4, <2>1, <2>2 DEF IInv, HeldInv, Do
<1>7. HeldInv'
  BY <1>1, <1>2, <1>3, <1>4, <1>6, HeldStep DEF IInv
<1> HIDE DEF Left
<1>8. HardInv'
  BY <1>2, <1>3, <1>4, HardStep DEF IInv, Calm
<1>9. SoftInv'
  BY <1>2, <1>3, SoftStep DEF IInv
<1>10. PointInv'
  BY <1>2, <1>4, NoPoint
<1> QED
  BY <1>1, <1>5, <1>7, <1>8, <1>9, <1>10 DEF IInv

(***************************************************************************)
(* The end of a call, and a step of the hart.                              *)
(***************************************************************************)
LEMMA ReturnKeeps == IInv /\ Return => IInv'
<1> SUFFICES ASSUME IInv, Return  PROVE  IInv'
  OBVIOUS
<1>1. TypeInv' /\ TypeInv
  BY ReturnKeepsType DEF IInv
<1>2. /\ op # "none" /\ todo = <<>> /\ op' = "none" /\ todo' = <<>>
      /\ UNCHANGED <<hartVars, slots, soft, errMsg, targetError, left, wiped>>
  BY DEF Return, historyVars
<1>3. UNCHANGED <<hart, haltReq, dcsr, triggers, tselect, mem>>
  BY <1>2 DEF hartVars
<1>4. Left = 0 /\ Left' = 0 /\ HardwareNum \in Nat /\ HardwareNum > 0
  BY <1>2, HartAssumption DEF Left
<1>5. CallInv' /\ ListInv' /\ PointInv'
  BY <1>2 DEF CallInv, Stopped, ListInv, PointInv
<1> HIDE DEF Left
<1>6. HeldInv'
  <2>1. ASSUME connected', targetError = "none", ~running'  PROVE  Held
    <3>1. CASE op = "connect"
      BY <1>4, <2>1, <3>1 DEF IInv, HeldInv, Held
    <3>2. CASE op = "ctrl_c"
      BY <1>4, <2>1, <3>2 DEF IInv, HeldInv, Held
    <3>3. CASE op = "halt_check"
      <4>1. report.reason # "running"
        BY <2>1, <3>3 DEF Return
      <4> QED
        BY <1>4, <3>3, <4>1 DEF IInv, HeldInv, Held
    <3>4. CASE op \in Stopped
      <4>1. connected' = connected /\ running' = running
        BY <3>4 DEF Return, Stopped
      <4> QED
        BY <2>1, <3>4, <4>1 DEF IInv, HeldInv
    <3>5. CASE op = "disconnect"
      BY <2>1, <3>5 DEF Return
    <3>6. CASE op \in {"continue", "step"}
      BY <2>1, <3>6 DEF Return
    <3> QED
      BY <1>1, <1>2, <3>1, <3>2, <3>3, <3>4, <3>5, <3>6 DEF TypeInv, TypeOK, Stopped
  <2> QED
    BY <1>2, <1>3, <2>1 DEF HeldInv, Held, Stopped
\* All that the call had to do has been done.
<1>7. ASSUME targetError = "none", connected', ~errMsg
      PROVE  Applied /\ MemoryOK
  <2>1. CASE op = "connect"
    <3>1. Cleared = 2 * HardwareNum + 1
      BY <1>4 DEF Cleared
    <3>2. Applied
      <4>1. /\ dcsr.ebreak
            /\ \A t \in Triggers : slots[t].type = "unused"
            /\ \A t \in Triggers : 2 * t <= Cleared => triggers[t].type = "unused"
        BY <1>4, <1>7, <2>1 DEF IInv, HardInv
      <4>2. \A t \in Triggers : 2 * t <= Cleared
        BY <1>4, <3>1 DEF Triggers
      <4> QED
        BY <4>1, <4>2 DEF Applied, Ebreaks, Fits, Lost, Agrees
    <3>3. MemoryOK
      BY <1>7, <2>1 DEF IInv, SoftInv, Sane
    <3> QED
      BY <3>2, <3>3
  <2>2. CASE op \in Calm
    <3>1. connected
      BY <1>7, <2>2 DEF Return, Calm
    <3> QED
      BY <1>7, <2>2, <3>1 DEF IInv, HardInv, SoftInv, Sane
  <2>3. CASE op = "insert"
    <3>1. ASSUME NEW s \in SoftSlots, SoftInserting(s)  PROVE MemoryOK
      <4>1. /\ soft[s].used
            /\ \A r \in SoftSlots \ {s} : Saved(r)
            /\ \A b \in CodeAddrs \ (left \cup {soft[s].addr}) : InMemory(b)
            /\ Saved(s)
            /\ soft[s].addr \notin left => mem[soft[s].addr] = "ebreak"
        BY <1>4, <1>7, <3>1 DEF SoftInserting
      <4>2. soft[s].addr \notin left => InMemory(soft[s].addr)
        BY <4>1 DEF InMemory, Used
      <4> QED
        BY <4>1, <4>2 DEF MemoryOK
    <3>2. ASSUME NEW t \in Triggers, HardInserting(t)  PROVE Applied
      <4>1. /\ Ebreaks
            /\ \A u \in Triggers \ {t} : Fits(u)
            /\ triggers[t] = slots[t]
        BY <1>4, <1>7, <3>2 DEF HardInserting
      <4> QED
        BY <4>1 DEF Applied, Ebreaks, Fits, Lost, Agrees
    <3> QED
      BY <1>7, <2>3, <3>1, <3>2 DEF IInv, PointInv
  <2>4. CASE op = "remove"
    <3>1. ASSUME NEW a \in CodeAddrs, NEW i \in Inst, SoftRemoving(a, i)  PROVE MemoryOK
      <4>1. /\ \A r \in SoftSlots : Saved(r)
            /\ \A b \in CodeAddrs \ (left \cup {a}) : InMemory(b)
            /\ a \notin left => InMemory(a)
        BY <1>4, <1>7, <3>1 DEF SoftRemoving
      <4> QED
        BY <4>1 DEF MemoryOK
    <3>2. ASSUME NEW t \in Triggers, HardRemoving(t)  PROVE Applied
      <4>1. /\ Ebreaks /\ slots[t].type = "unused"
            /\ \A u \in Triggers \ {t} : Fits(u)
            /\ triggers[t].type = "unused"
        BY <1>4, <1>7, <3>2 DEF HardRemoving
      <4> QED
        BY <4>1 DEF Applied, Ebreaks, Fits, Lost, Agrees
    <3> QED
      BY <1>7, <2>4, <3>1, <3>2 DEF IInv, PointInv
  <2>5. CASE op = "disconnect"
    BY <1>7, <2>5 DEF Return
  <2> QED
    BY <1>1, <2>1, <2>2, <2>3, <2>4, <2>5 DEF TypeInv, TypeOK, Calm
<1>8. HardInv'
  BY <1>2, <1>3, <1>7 DEF HardInv, Sane, Applied, Ebreaks, Fits, Lost, Agrees
<1>9. SoftInv'
  <2>1. Sane' /\ ~errMsg' => MemoryOK'
    BY <1>2, <1>3, <1>7 DEF Sane, MemoryOK, Saved, InMemory, Used
  <2> QED
    BY <1>2, <2>1 DEF IInv, SoftInv
<1> QED
  BY <1>1, <1>5, <1>6, <1>8, <1>9 DEF IInv

\* Of the hart the invariant says only whether it has halted: what is refused
\* until then is noted when it is refused.
LEMMA HartMayHalt ==
  ASSUME IInv, TypeInv', hart' \in {hart, "halted"},
         UNCHANGED <<haltReq, dcsr, tselect, triggers, mem, op, todo, image, slots, soft, errMsg,
                     connected, running, targetError, report, left, wiped>>
  PROVE  IInv'
<1>1. CallInv'
  BY DEF IInv, CallInv
<1>2. ListInv'
  <2>1. op' = op /\ todo' = todo /\ targetError' = targetError /\ ListInv
    BY DEF IInv
  <2> QED
    BY <2>1, Zenon DEF ListInv
<1>3. HeldInv'
  BY DEF IInv, HeldInv, Held, Left, Do
<1>4. HardInv'
  BY DEF IInv, HardInv, Sane, Applied, Ebreaks, Fits, Lost, Agrees, Cleared, Left
<1>5. SoftInv'
  BY SoftStep DEF IInv
<1>6. PointInv'
  <2>1. Applied' = Applied /\ MemoryOK' = MemoryOK
    BY DEF Applied, Ebreaks, Fits, Lost, Agrees, MemoryOK, Saved, InMemory, Used
  <2>2. ASSUME NEW s \in SoftSlots, SoftInserting(s)  PROVE  SoftInserting(s)'
    <3>1. /\ \A r \in SoftSlots : Saved(r)' = Saved(r)
          /\ \A b \in CodeAddrs : InMemory(b)' = InMemory(b)
      BY DEF Saved, InMemory, Used
    <3>2. soft'[s] = soft[s] /\ todo' = todo /\ Left' = Left
      BY DEF Left
    <3>3. Rest(todo', InsertSoft(s, soft'[s].addr))
      BY <2>2, <3>2, Zenon DEF SoftInserting
    <3>4. soft'[s].used
      BY <2>2, <3>2 DEF SoftInserting
    <3>5. ASSUME ~errMsg'
          PROVE  /\ \A r \in SoftSlots \ {s} : Saved(r)'
                 /\ \A b \in CodeAddrs \ (left' \cup {soft'[s].addr}) : InMemory(b)'
                 /\ Left' <= 1 => Saved(s)'
                 /\ soft'[s].addr \notin left' =>
                      mem'[soft'[s].addr] = IF Left' = 0 THEN "ebreak" ELSE "program"
      <4> HIDE DEF Left
      <4> QED
        BY <2>2, <3>1, <3>2, <3>5 DEF SoftInserting
    <3> QED
      BY <3>3, <3>4, <3>5, Zenon DEF SoftInserting
  <2>3. ASSUME NEW t \in Triggers, HardInserting(t)  PROVE  HardInserting(t)'
    BY <2>3, Zenon DEF HardInserting, Ebreaks, Fits, Lost, Agrees, Rest, Left
  <2>4. ASSUME NEW a \in CodeAddrs, NEW i \in Inst, SoftRemoving(a, i)
        PROVE  SoftRemoving(a, i)'
    <3>1. /\ \A r \in SoftSlots : Saved(r)' = Saved(r)
          /\ \A b \in CodeAddrs : InMemory(b)' = InMemory(b) /\ Used(b)' = Used(b)
      BY DEF Saved, InMemory, Used
    <3>2. todo' = todo /\ Left' = Left /\ left' = left /\ errMsg' = errMsg
      BY DEF Left
    <3>3. Rest(todo', <<Do("write_mem", [addr |-> a, inst |-> i])>>)
      BY <2>4, <3>2, Zenon DEF SoftRemoving
    <3>4. ~ Used(a)'
      BY <2>4, <3>1 DEF SoftRemoving
    <3>5. ASSUME ~errMsg'
          PROVE  /\ \A r \in SoftSlots : Saved(r)'
                 /\ a \notin left' => i = "program"
                 /\ \A b \in CodeAddrs \ (left' \cup {a}) : InMemory(b)'
                 /\ Left' = 0 /\ a \notin left' => InMemory(a)'
      <4> HIDE DEF Left
      <4> QED
        BY <2>4, <3>1, <3>2, <3>5 DEF SoftRemoving
    <3> QED
      BY <3>3, <3>4, <3>5, Zenon DEF SoftRemoving
  <2>5. ASSUME NEW t \in Triggers, HardRemoving(t)  PROVE  HardRemoving(t)'
    BY <2>5, Zenon DEF HardRemoving, Ebreaks, Fits, Lost, Agrees, Rest, Left
  <2> QED
    BY <2>1, <2>2, <2>3, <2>4, <2>5, Zenon DEF IInv, PointInv
<1> QED
  BY <1>1, <1>2, <1>3, <1>4, <1>5, <1>6 DEF IInv

LEMMA HartKeeps == IInv /\ HartStep => IInv'
<1> SUFFICES ASSUME IInv, HartStep  PROVE  IInv'
  OBVIOUS
<1>1. TypeInv'
  BY HartKeepsType DEF IInv
<1>2. hart' = "halted" /\ UNCHANGED <<active, haltReq, registers>>
  BY DEF HartStep, HartStops, StopRequested, StopStep, StopEbreak, StopTrigger, Stops
<1>3. UNCHANGED <<haltReq, dcsr, tselect, triggers, mem, op, todo, image, slots, soft, errMsg,
                  connected, running, targetError, report, left, wiped>>
  BY <1>2 DEF HartStep, registers, serverVars, historyVars
<1> QED
  BY <1>1, <1>2, <1>3, HartMayHalt

(***************************************************************************)
(* The theorems.                                                           *)
(***************************************************************************)
LEMMA StepKeeps == IInv /\ [Next]_vars => IInv'
<1> SUFFICES ASSUME IInv, [Next]_vars  PROVE  IInv'
  OBVIOUS
<1>1. CASE Connect
  BY <1>1, ConnectKeeps
<1>2. CASE Disconnect \/ Continue \/ SingleStep \/ Access \/ MonitorReset \/ CtrlC \/ HaltCheck
  BY <1>2, CallKeeps
<1>3. CASE \E p \in Points : Insert(p) \/ Remove(p)
  BY <1>3, InsertKeeps, RemoveKeeps
<1>4. CASE WriteControl
  BY <1>4, ControlKeeps
<1>5. CASE ReadDcsr
  BY <1>5, ReadDcsrKeeps
<1>6. CASE CheckVersion
  BY <1>6, CheckVersionKeeps
<1>7. CASE WriteDcsr
  BY <1>7, WriteDcsrKeeps
<1>8. CASE WriteTrigger
  BY <1>8, TriggerKeeps
<1>9. CASE AccessRegister \/ AccessMemory
  BY <1>9, RegisterKeeps
<1>10. CASE ReadMem
  BY <1>10, ReadMemKeeps
<1>11. CASE WriteMem
  BY <1>11, WriteMemKeeps
<1>12. CASE CheckProtection
  BY <1>12, ProtectionKeeps
<1>13. CASE AwaitHalt
  BY <1>13, AwaitKeeps
<1>14. CASE ReadStatus
  BY <1>14, StatusKeeps
<1>15. CASE ReadCause
  BY <1>15, CauseKeeps
<1>16. CASE Return
  BY <1>16, ReturnKeeps
<1>17. CASE HartStep
  BY <1>17, HartKeeps
<1>18. CASE UNCHANGED vars
  <2>1. TypeInv'
    BY <1>18 DEF vars, hartVars, serverVars, historyVars, IInv, TypeInv, TypeOK, HartTypeOK
  <2>2. UNCHANGED <<hart, haltReq, dcsr, tselect, triggers, mem, op, todo, image, slots, soft,
                    errMsg, connected, running, targetError, report, left, wiped>>
    BY <1>18 DEF vars, hartVars, serverVars, historyVars
  <2> QED
    BY <2>1, <2>2, HartMayHalt
<1> QED
  BY <1>1, <1>2, <1>3, <1>4, <1>5, <1>6, <1>7, <1>8, <1>9, <1>10, <1>11, <1>12, <1>13, <1>14,
     <1>15, <1>16, <1>17, <1>18 DEF Next, Probe

\* At every moment of every call, what is left of its accesses and what those
\* made have done: the invariant above, for every number of slots and triggers.
THEOREM TargetInvariant == Spec => []IInv
<1>1. Init => IInv
  BY InitKeeps
<1>2. IInv /\ [Next]_vars => IInv'
  BY StepKeeps
<1> QED
  BY <1>1, <1>2, PTL DEF Spec

\* The tables, the image of DCSR, the hart and the fields of the server have
\* their types, whatever GDB asks for and whenever the hart stops.
THEOREM TargetTypeCorrect == Spec => []TypeOK
<1>1. IInv => TypeOK
  BY DEF IInv, TypeInv
<1> QED
  BY <1>1, TargetInvariant, PTL

\* rvl_target_halt does not wait: but a target that gdb-server.c takes for
\* stopped has halted, or its halt is requested and nothing takes that back.
THEOREM TargetStopsOrIsStopping == Spec => []StoppedOrStopping
<1>1. IInv => StoppedOrStopping
  BY DEF IInv, HeldInv, Held, StoppedOrStopping, InSession, AtRest
<1> QED
  BY <1>1, TargetInvariant, PTL

\* While err_msg is "no error", the triggers of the hart are those of the table
\* hardware_breakpoints and ebreak halts it, for every number of triggers.  Once a
\* "monitor reset" has cleared them, which err_msg does not say, each trigger is still
\* either that of its slot or off, and ebreak may not halt the hart any more.
THEOREM NoErrorIsApplied == Spec => []NoErrorMeansApplied
<1>1. IInv => NoErrorMeansApplied
  BY DEF IInv, HardInv, Applied, Ebreaks, Fits, Lost, Agrees, Sane, Calm, NoErrorMeansApplied,
         InSession, AtRest
<1> QED
  BY <1>1, TargetInvariant, PTL

\* While err_msg is "no error", ebreak is in memory exactly where the table
\* software_breakpoints has a breakpoint, and the program is everywhere else,
\* but for the addresses that an earlier session has left changed.
THEOREM ProgramIsKept == Spec => []MemoryIsProgram
<1>1. ASSUME IInv  PROVE  MemoryIsProgram
  <2>1. \A a \in CodeAddrs : <<"software", a>> \in Placed <=> Used(a)
    <3>1. \A t \in Triggers : slots[t].type # "software"
      BY <1>1 DEF IInv, TypeInv, TypeOK, SlotType, HardTypes, WatchTypes
    <3> QED
      BY <3>1 DEF Placed, Used
  <2>2. InSession /\ ~errMsg => MemoryOK
    BY <1>1 DEF IInv, SoftInv, Sane, Calm, InSession, AtRest
  <2>3. ASSUME NEW a \in CodeAddrs, InMemory(a)
        PROVE  mem[a] = IF <<"software", a>> \in Placed THEN "ebreak" ELSE "program"
    BY <2>1, <2>3 DEF InMemory
  <2>4. InSession /\ ~errMsg => \A a \in CodeAddrs \ left : InMemory(a)
    BY <2>2, Zenon DEF MemoryOK
  <2> QED
    BY <2>3, <2>4, Zenon DEF MemoryIsProgram
<1> QED
  BY <1>1, TargetInvariant, PTL

\* No access to a register of the hart is refused, but while a halt that was requested
\* is still to come, and at the end of a session.
THEOREM RefusalsAreExplained == Spec => RefusedOnlyWhileHalting
<1> DEFINE A == errMsg' /\ ~errMsg =>
                  haltReq \/ op = "disconnect" \/ targetError # "none" \/ OfMemory
<1>1. IInv /\ [Next]_vars => [A]_vars
  <2> SUFFICES ASSUME IInv, Next, errMsg', ~errMsg, op # "disconnect", targetError = "none",
                      ~OfMemory
               PROVE  haltReq
    OBVIOUS
  <2>1. \/ ReadDcsr \/ WriteDcsr \/ WriteTrigger \/ AccessRegister \/ CheckProtection
        \/ ReadCause
    BY DEF OfMemory, AccessMemory, ReadMem, WriteMem, Next1, Next, Probe, Connect, Disconnect,
           Continue, SingleStep, Access, MonitorReset, Insert, Remove, CtrlC, HaltCheck,
           WriteControl, CheckVersion, AwaitHalt, ReadStatus, Return, HartStep
  <2>2. hart = "running"
    BY <2>1 DEF ReadDcsr, WriteDcsr, WriteTrigger, AccessRegister, CheckProtection, ReadCause,
                NoteError, Refused
  <2>3. /\ todo # <<>>
        /\ Head(todo).do \in {"read_dcsr", "write_dcsr", "select", "type", "addr", "register",
                               "protection", "cause"}
    BY <2>1 DEF ReadDcsr, WriteDcsr, WriteTrigger, AccessRegister, CheckProtection, ReadCause,
                Next1
  <2>4. TypeInv /\ ListInv /\ CallInv /\ HeldInv
    BY DEF IInv
  <2>5. Left \in Nat /\ Left > 0 /\ HardwareNum \in Nat
    BY <2>3, <2>4, TodoHead, HartAssumption DEF TypeInv
  <2> HIDE DEF Left
  <2>6. CASE op = "connect"
    <3>1. /\ Head(todo).do = "read_dcsr" => Left = 2 * HardwareNum + 4
          /\ Head(todo).do = "write_dcsr" => Left = 2 * HardwareNum + 2
          /\ Head(todo).do = "select" =>
               Arg \in Triggers /\ Left = 2 * HardwareNum + 3 - 2 * Arg
          /\ Head(todo).do = "type" => \E t \in Triggers : Left = 2 * HardwareNum + 2 - 2 * t
          /\ Head(todo).do = "protection" => Left = 1
          /\ Head(todo).do \in {"off", "on", "halt", "read_dcsr", "check", "write_dcsr",
                                 "select", "type", "protection"}
      BY <2>3, <2>4, <2>6, ConnectHead, Zenon
    <3>2. Left <= 2 * HardwareNum + 4
      BY <2>3, <2>5, <3>1 DEF Triggers
    <3> QED
      BY <2>4, <2>6, <3>2 DEF HeldInv
  <2>7. CASE op \in {"continue", "step"} \cup Stopped
    <3>1. ~running /\ connected
      BY <2>4, <2>7 DEF CallInv, Stopped
    <3> QED
      BY <2>2, <2>4, <2>5, <2>7, <3>1 DEF HeldInv, Held
  <2>8. CASE op = "ctrl_c"
    <3>1. Head(todo).do = "halt"
      BY <2>3, <2>4, <2>8, CtrlCHead, Zenon
    <3> QED
      BY <2>3, <3>1
  <2>9. CASE op = "halt_check"
    <3>1. Head(todo) = todo[1]
      BY <2>3, <2>4, TodoHead DEF TypeInv
    <3> QED
      BY <2>2, <2>3, <2>4, <2>5, <2>9, <3>1 DEF HeldInv, Do
  <2>10. op # "none"
    BY <2>3, <2>4 DEF CallInv
  <2> QED
    BY <2>4, <2>6, <2>7, <2>8, <2>9, <2>10 DEF TypeInv, TypeOK, Stopped
<1> QED
  BY <1>1, TargetInvariant, PTL DEF Spec, RefusedOnlyWhileHalting

(***************************************************************************)
(* The reports of a stop.                                                  *)
(***************************************************************************)
\* GDB sets one kind of watchpoint at an address.  Of two, one that is removed
\* leaves its address in a slot that hides the other.
OneWatchEach ==
  \A p, q \in Points : p[1] \in WatchTypes /\ q[1] \in WatchTypes /\ p[2] = q[2] => p = q

\* No slot before that of a watchpoint has its address, in use or not.
SlotInv ==
  /\ \A t \in Triggers : slots[t].type # "unused" => <<slots[t].type, slots[t].addr>> \in Points
  /\ \A t, u \in Triggers : u < t /\ slots[t].type \in WatchTypes => slots[u].addr # slots[t].addr

RunInv ==
  /\ connected /\ running => targetError = "none" /\ op \in {"none", "ctrl_c", "halt_check"}
  /\ op \in {"ctrl_c", "halt_check"} => running

\* The slot whose trigger has stopped the hart.
Explains(t) ==
  \/ /\ slots[t] = [type |-> "hardware", addr |-> stop.pc] /\ stop.touch = Nowhere
  \/ /\ slots[t].type \in WatchTypes /\ slots[t].addr = stop.touch /\ stop.pc = Nowhere

\* The hart was resumed by the call that is about to end, or by an earlier one.
Gone == connected /\ (running \/ (op \in {"continue", "step"} /\ Left = 0))

StopInv ==
  Gone /\ hart = "halted" /\ ~errMsg /\ ~wiped /\ stop.cause = "trigger" =>
    \E t \in Triggers : Explains(t)

\* What ReadCause makes of the stop.
Cause ==
  CASE stop.cause = "ebreak"  -> [reason |-> "software", addr |-> Nowhere]
    [] stop.cause = "trigger" -> TriggerReason
    [] OTHER                  -> [reason |-> "other", addr |-> Nowhere]

ReportInv == op = "halt_check" /\ todo = <<>> => (report.reason = "running" \/ report = Cause)

StopsInv == SlotInv /\ RunInv /\ StopInv /\ ReportInv

LEMMA SlotAt ==
  ASSUME TypeInv, NEW t \in Triggers
  PROVE  slots[t].type \in HardTypes \cup {"unused"} /\ slots[t].addr \in Addrs \cup {Nowhere}
BY DEF TypeInv, TypeOK, SlotType

\* Connecting and removing only free slots; a breakpoint takes the first free one,
\* and those before it are in use, for other addresses.
LEMMA SlotsKeep ==
  ASSUME OneWatchEach, TypeInv, SlotInv, [Next]_vars
  PROVE  SlotInv'
<1>1. ASSUME UNCHANGED slots  PROVE  SlotInv'
  BY <1>1 DEF SlotInv
<1>2. ASSUME slots' \in [Triggers -> SlotType],
             \A t \in Triggers : slots'[t].addr = slots[t].addr,
             \A t \in Triggers : slots'[t].type \in {slots[t].type, "unused"}
      PROVE  SlotInv'
  BY <1>2 DEF SlotInv, WatchTypes
<1>3. CASE Connect
  <2>1. slots' = [t \in Triggers |-> [slots[t] EXCEPT !.type = "unused"]]
    BY <1>3 DEF Connect
  <2>2. ASSUME NEW t \in Triggers
        PROVE  /\ slots'[t].addr = slots[t].addr /\ slots'[t].type = "unused"
               /\ slots'[t] \in SlotType
    BY <2>1 DEF TypeInv, TypeOK, SlotType
  <2> QED
    BY <1>2, <2>1, <2>2
<1>4. ASSUME NEW p \in Points, Insert(p)  PROVE  SlotInv'
  <2>1. CASE UNCHANGED slots
    BY <1>1, <2>1
  <2>2. ASSUME NEW t \in Triggers, p[1] # "software",
               First(t, {r \in Triggers : slots[r].type = "unused"}),
               slots' = [slots EXCEPT ![t] = [type |-> p[1], addr |-> p[2]]]
        PROVE  SlotInv'
    <3>1. p = <<p[1], p[2]>> /\ p[1] \in HardTypes /\ p[2] \in Addrs
      BY <2>2, PointType
    <3>2. slots'[t].type = p[1] /\ slots'[t].addr = p[2]
          /\ \A u \in Triggers \ {t} : slots'[u] = slots[u]
      BY <2>2 DEF TypeInv, TypeOK
    \* A watchpoint that is in use has another address than the new one.
    <3>3. ASSUME NEW u \in Triggers, slots[u].type # "unused", p[1] \in WatchTypes
          PROVE  slots[u].addr # p[2]
      <4>1. <<slots[u].type, slots[u].addr>> \in Points
        BY <3>3 DEF SlotInv
      <4>2. <<slots[u].type, slots[u].addr>> \in Placed
        BY <3>3 DEF Placed
      <4>3. p \notin Placed
        BY <1>4 DEF Insert
      <4>4. slots[u].type \in WatchTypes => slots[u].addr # p[2]
        BY <3>1, <3>3, <4>1, <4>2, <4>3 DEF OneWatchEach
      <4>5. p[2] \in DataAddrs
        BY <3>3, TargetAssumption DEF WatchTypes
      <4>6. slots[u].type \notin WatchTypes => slots[u].addr \in CodeAddrs
        BY <4>1, <3>3, TargetAssumption
      <4> QED
        BY <4>4, <4>5, <4>6, HartAssumption
    <3>4. \A v \in Triggers : v < t => slots[v].type # "unused"
      BY <2>2, HartAssumption DEF First, Triggers
    <3>5. \A v \in Triggers : slots'[v].type # "unused" =>
            <<slots'[v].type, slots'[v].addr>> \in Points
      BY <3>1, <3>2 DEF SlotInv
    <3>6. ASSUME NEW v \in Triggers, NEW u \in Triggers, u < v, slots'[v].type \in WatchTypes
          PROVE  slots'[u].addr # slots'[v].addr
      <4>1. CASE v = t
        <5>1. u # t /\ slots[u].type # "unused"
          BY <3>4, <3>6, <4>1, HartAssumption DEF Triggers
        <5> QED
          BY <3>2, <3>3, <3>6, <4>1, <5>1
      <4>2. CASE v # t /\ u = t
        <5>1. slots[v].type \in WatchTypes /\ slots[v].type # "unused"
          BY <3>2, <3>6, <4>2 DEF WatchTypes
        <5>2. <<slots[v].type, slots[v].addr>> \in Points
          BY <5>1 DEF SlotInv
        <5>3. slots[v].addr \in DataAddrs
          BY <5>1, <5>2, TargetAssumption DEF WatchTypes
        <5>4. p[1] \notin WatchTypes => p[2] \in CodeAddrs
          BY <2>2, TargetAssumption
        <5>5. p[1] \in WatchTypes => slots[v].addr # p[2]
          BY <3>3, <5>1
        <5> QED
          BY <3>2, <4>2, <5>3, <5>4, <5>5, HartAssumption
      <4>3. CASE v # t /\ u # t
        BY <3>2, <3>6, <4>3 DEF SlotInv
      <4> QED
        BY <4>1, <4>2, <4>3
    <3> QED
      BY <3>5, <3>6 DEF SlotInv
  <2> QED
    BY <1>4, <2>1, <2>2 DEF Insert
<1>5. ASSUME NEW p \in Points, Remove(p)  PROVE  SlotInv'
  <2>1. CASE UNCHANGED slots
    BY <1>1, <2>1
  <2>2. ASSUME NEW t \in Triggers, slots' = [slots EXCEPT ![t].type = "unused"]
        PROVE  SlotInv'
    <3>1. ASSUME NEW u \in Triggers
          PROVE  /\ slots'[u].addr = slots[u].addr
                 /\ slots'[u].type \in {slots[u].type, "unused"}
                 /\ slots'[u] \in SlotType
      BY <2>2 DEF TypeInv, TypeOK, SlotType
    <3>2. slots' \in [Triggers -> SlotType]
      BY <2>2, <3>1 DEF TypeInv, TypeOK
    <3> QED
      BY <1>2, <3>1, <3>2
  <2> QED
    BY <1>5, <2>1, <2>2 DEF Remove
<1>6. CASE \/ Disconnect \/ Continue \/ SingleStep \/ Access \/ MonitorReset \/ CtrlC \/ HaltCheck
           \/ WriteControl \/ ReadDcsr \/ CheckVersion \/ WriteDcsr \/ WriteTrigger
           \/ AccessRegister \/ AccessMemory \/ ReadMem \/ WriteMem \/ CheckProtection \/ AwaitHalt
           \/ ReadStatus \/ ReadCause \/ Return \/ HartStep \/ UNCHANGED vars
  <2>1. UNCHANGED slots
    BY <1>6 DEF Disconnect, Continue, SingleStep, Access, MonitorReset, CtrlC, HaltCheck,
                WriteControl, ReadDcsr, CheckVersion, WriteDcsr, WriteTrigger, AccessRegister,
                AccessMemory, ReadMem, WriteMem, CheckProtection, AwaitHalt, ReadStatus, ReadCause, Return,
                HartStep, Quiet, vars
  <2> QED
    BY <1>1, <2>1
<1> QED
  BY <1>3, <1>4, <1>5, <1>6 DEF Next, Probe

\* What the steps have in common that leave the reason of the stop alone.
LEMMA StopSame ==
  ASSUME StopInv, Gone' => Gone, UNCHANGED <<hart, stop, slots, wiped>>, errMsg => errMsg'
  PROVE  StopInv'
BY DEF StopInv, Explains

LEMMA RunSame ==
  ASSUME CallInv, RunInv, todo # <<>>, UNCHANGED <<op, connected, running>>,
         op = "connect" \/ UNCHANGED targetError
  PROVE  RunInv'
BY DEF RunInv, CallInv

\* The calls.
LEMMA CallStops ==
  ASSUME IInv, StopsInv,
         \/ Connect \/ Disconnect \/ Continue \/ SingleStep \/ Access \/ MonitorReset
         \/ (\E p \in Points : Insert(p) \/ Remove(p)) \/ CtrlC \/ HaltCheck
  PROVE  RunInv' /\ StopInv' /\ ReportInv'
<1>1. op = "none" /\ UNCHANGED <<hart, stop, connected, running>>
  BY DEF Connect, Disconnect, Continue, SingleStep, Access, MonitorReset, Insert, Remove, CtrlC,
         HaltCheck, Call, Command, AtRest, hartVars
<1>2. CASE CtrlC \/ HaltCheck
  <2>1. /\ connected /\ running /\ op' \in {"ctrl_c", "halt_check"} /\ todo' # <<>>
        /\ UNCHANGED <<slots, wiped, errMsg, targetError>>
    BY <1>2 DEF CtrlC, HaltCheck, Call, Halt, historyVars
  <2>2. RunInv'
    BY <1>1, <2>1 DEF StopsInv, RunInv
  <2>3. StopInv'
    BY <1>1, <2>1, StopSame DEF StopsInv, Gone
  <2> QED
    BY <2>1, <2>2, <2>3 DEF ReportInv
<1>3. CASE \/ Connect \/ Disconnect \/ Continue \/ SingleStep \/ Access \/ MonitorReset
           \/ \E p \in Points : Insert(p) \/ Remove(p)
  <2>1. ~ (connected /\ running)
    BY <1>3 DEF Connect, Disconnect, Continue, SingleStep, Access, MonitorReset, Insert, Remove,
                Command
  <2>2. op' \in {"connect", "disconnect", "continue", "step", "access", "reset", "insert", "remove"}
    BY <1>3 DEF Connect, Disconnect, Continue, SingleStep, Access, MonitorReset, Insert, Remove,
                Call
  <2>3. op' \in {"continue", "step"} => Left' # 0
    <3>1. op' \in {"continue", "step"} => todo' = Resume \/ todo' = Step
      BY <1>3 DEF Connect, Disconnect, Continue, SingleStep, Access, MonitorReset, Insert, Remove,
                  Call
    <3> QED
      BY <3>1, ResumeType, StepType DEF Left
  <2> HIDE DEF Left
  <2>4. ~Gone'
    BY <1>1, <2>1, <2>3 DEF Gone
  <2> QED
    BY <1>1, <2>1, <2>2, <2>4 DEF RunInv, StopInv, ReportInv
<1> QED
  BY <1>2, <1>3

\* The accesses that neither resume the hart nor report a stop.
LEMMA AccessStops ==
  ASSUME IInv, StopsInv, todo # <<>>, todo' = Tail(todo) \/ op = "connect",
         UNCHANGED <<op, hart, stop, slots, connected, running, wiped>>,
         errMsg => errMsg', op = "connect" \/ UNCHANGED targetError,
         Head(todo).do \notin {"resume", "status", "cause"}
  PROVE  RunInv' /\ StopInv' /\ ReportInv'
<1>1. TypeInv /\ ListInv /\ CallInv
  BY DEF IInv
<1>2. RunInv'
  BY <1>1, RunSame DEF StopsInv
<1>3. Left \in Nat /\ Left > 0
  BY <1>1, TodoHead DEF TypeInv
<1>4. op # "connect" => Left' = Left - 1
  BY <1>1, LeftStep
<1> HIDE DEF Left
<1>5. op \in {"continue", "step"} => Left' # 0
  <2>1. ASSUME op \in {"continue", "step"}  PROVE  Left > 1
    BY <1>1, <2>1, RunHead
  <2> QED
    BY <1>3, <1>4, <2>1
<1>6. StopInv'
  BY <1>5, StopSame DEF StopsInv, Gone
<1>7. ReportInv'
  <2>1. ASSUME op = "halt_check"  PROVE  todo' # <<>>
    <3>1. Left = 2
      BY <1>1, <2>1, HaltCheckHead
    <3>2. Left' = 1
      BY <1>4, <2>1, <3>1
    <3> QED
      BY <3>2 DEF Left
  <2> QED
    BY <2>1 DEF ReportInv
<1> QED
  BY <1>2, <1>6, <1>7

\* While the hart runs the triggers are those of the table, so that the one that
\* stops it has its slot.
LEMMA HartStopsFor ==
  ASSUME IInv, StopsInv, HartStep
  PROVE  RunInv' /\ StopInv' /\ ReportInv'
<1>1. /\ UNCHANGED <<op, todo, slots, errMsg, connected, running, targetError, report, wiped>>
      /\ hart = "running"
  BY DEF HartStep, serverVars, historyVars, HartStops, StopRequested, StopStep, StopEbreak,
         StopTrigger, Stops
<1>2. RunInv'
  BY <1>1 DEF StopsInv, RunInv
<1>3. ASSUME Gone', ~errMsg', ~wiped', stop'.cause = "trigger"
      PROVE  \E t \in Triggers : Explains(t)'
  <2>1. Gone
    BY <1>1, <1>3 DEF Gone, Left
  <2>2. op \in {"none", "ctrl_c", "halt_check", "continue", "step"} /\ targetError = "none"
    BY <2>1 DEF Gone, StopsInv, RunInv, IInv, CallInv
  <2>3. Applied
    BY <1>1, <1>3, <2>1, <2>2 DEF Gone, IInv, HardInv, Sane, Calm
  <2>4. StopTrigger
    BY <1>3 DEF HartStep, HartStops, StopRequested, StopStep, StopEbreak, Stops, NoStop, Halted
  <2>5. PICK t \in Triggers :
          \/ /\ triggers[t].type = "hardware" /\ triggers[t].addr \in CodeAddrs
             /\ stop' = Halted("trigger", triggers[t].addr, Nowhere, TRUE)
          \/ /\ triggers[t].type \in WatchTypes /\ triggers[t].addr \in DataAddrs
             /\ \E plain \in BOOLEAN : stop' = Halted("trigger", Nowhere, triggers[t].addr, plain)
    BY <2>4 DEF StopTrigger, Stops
  <2>6. triggers[t] = slots[t] /\ slots[t] \in SlotType
    BY <2>3, <2>5 DEF Applied, Ebreaks, Fits, Lost, Agrees, WatchTypes, IInv, TypeInv, TypeOK
  <2>7. Explains(t)'
    BY <1>1, <2>5, <2>6 DEF Explains, Halted, SlotType
  <2> QED
    BY <2>7
<1>4. StopInv'
  BY <1>3 DEF StopInv
<1>5. ReportInv'
  <2>1. ASSUME op = "halt_check", todo = <<>>  PROVE  report.reason = "running"
    BY <1>1, <2>1 DEF IInv, HeldInv, Left
  <2> QED
    BY <1>1, <2>1 DEF ReportInv
<1> QED
  BY <1>2, <1>4, <1>5

LEMMA ControlStops ==
  ASSUME IInv, StopsInv, WriteControl
  PROVE  RunInv' /\ StopInv' /\ ReportInv'
<1>1. /\ todo # <<>> /\ todo' = Tail(todo)
      /\ UNCHANGED <<op, slots, errMsg, connected, running, targetError, wiped>>
  BY DEF WriteControl, Next1, Quiet, serverVars, historyVars
<1>2. CASE Head(todo).do \in {"off", "on", "halt"}
  <2>1. UNCHANGED <<hart, stop>>
    BY <1>2 DEF WriteControl, Next1
  <2> QED
    BY <1>1, <1>2, <2>1, AccessStops
<1>3. CASE Head(todo).do \in {"resume", "reset"}
  <2>1. hart' = "running"
    BY <1>3 DEF WriteControl, Next1, WriteResume, WriteReset
  <2>2. op # "halt_check"
    BY <1>1, <1>3, HeadOp
  <2>3. RunInv'
    BY <1>1, RunSame DEF IInv, StopsInv
  <2> QED
    BY <1>1, <2>1, <2>2, <2>3 DEF StopInv, ReportInv
<1> QED
  BY <1>2, <1>3 DEF WriteControl, Next1

LEMMA OtherStops ==
  ASSUME IInv, StopsInv,
         \/ ReadDcsr \/ CheckVersion \/ WriteDcsr \/ WriteTrigger \/ AccessRegister
         \/ AccessMemory \/ ReadMem \/ WriteMem \/ CheckProtection \/ AwaitHalt
  PROVE  RunInv' /\ StopInv' /\ ReportInv'
<1>1. CASE CheckVersion \/ CheckProtection
  <2>1. /\ todo # <<>> /\ Head(todo).do \in {"check", "protection"}
        /\ UNCHANGED <<op, hart, stop, slots, connected, running, wiped>>
    BY <1>1 DEF CheckVersion, CheckProtection, Next1, hartVars, historyVars
  <2>2. errMsg => errMsg'
    BY <1>1 DEF CheckVersion, CheckProtection, NoteError
  <2>3. op = "connect"
    BY <2>1, HeadOp
  <2> QED
    BY <2>1, <2>2, <2>3, AccessStops
<1>2. CASE \/ ReadDcsr \/ WriteDcsr \/ WriteTrigger \/ AccessRegister \/ AccessMemory
           \/ ReadMem \/ WriteMem \/ AwaitHalt
  <2>1. /\ todo # <<>> /\ todo' = Tail(todo)
        /\ Head(todo).do \in {"read_dcsr", "write_dcsr", "select", "type", "addr", "register",
                               "memory", "read_mem", "write_mem", "await"}
        /\ UNCHANGED op
    BY <1>2 DEF ReadDcsr, WriteDcsr, WriteTrigger, AccessRegister, AccessMemory, ReadMem,
                WriteMem, AwaitHalt, Next1
  <2>2. UNCHANGED <<hart, stop, slots, connected, running, targetError, wiped>>
    BY <1>2 DEF ReadDcsr, WriteDcsr, WriteTrigger, AccessRegister, AccessMemory, ReadMem,
                WriteMem, AwaitHalt, Quiet, hartVars, serverVars, historyVars
  <2>3. errMsg => errMsg'
    BY <1>2 DEF ReadDcsr, WriteDcsr, WriteTrigger, AccessRegister, AccessMemory, ReadMem,
                WriteMem, AwaitHalt, NoteError
  <2> QED
    BY <2>1, <2>2, <2>3, AccessStops
<1> QED
  BY <1>1, <1>2

LEMMA CauseStops ==
  ASSUME IInv, StopsInv, ReadStatus \/ ReadCause
  PROVE  RunInv' /\ StopInv' /\ ReportInv'
<1>1. /\ todo # <<>>
      /\ UNCHANGED <<op, hart, stop, slots, connected, running, targetError, wiped>>
  BY DEF ReadStatus, ReadCause, Next1, hartVars, historyVars
<1>2. errMsg => errMsg'
  BY DEF ReadStatus, ReadCause, NoteError
<1>3. RunInv'
  BY <1>1, RunSame DEF IInv, StopsInv
<1>4. op = "halt_check"
  BY <1>1, HeadOp DEF ReadStatus, ReadCause, Next1
<1>5. StopInv'
  BY <1>1, <1>2, <1>4, StopSame DEF StopsInv, Gone
<1>6. CASE ReadStatus
  <2>1. todo' # <<>> \/ report'.reason = "running"
    BY <1>6 DEF ReadStatus
  <2> QED
    BY <1>3, <1>5, <2>1 DEF ReportInv
<1>7. CASE ReadCause
  <2>1. report' = Cause
    BY <1>7 DEF ReadCause, Cause
  <2>2. Cause' = Cause
    BY <1>1 DEF Cause, TriggerReason, HardAt, WatchAt, Decoded, First
  <2> QED
    BY <1>3, <1>5, <2>1, <2>2 DEF ReportInv
<1> QED
  BY <1>6, <1>7

LEMMA ReturnStops ==
  ASSUME IInv, StopsInv, Return
  PROVE  RunInv' /\ StopInv' /\ ReportInv'
<1>1. /\ op # "none" /\ op' = "none" /\ Left = 0
      /\ UNCHANGED <<hart, stop, slots, errMsg, targetError, wiped>>
  BY DEF Return, Left, hartVars, historyVars
<1>2. ASSUME connected', running'  PROVE  Gone /\ targetError = "none"
  <2>1. CASE op \in {"continue", "step"}
    BY <1>1, <2>1 DEF Gone, IInv, CallInv
  <2>2. CASE op = "halt_check"
    BY <2>2 DEF Gone, StopsInv, RunInv, IInv, CallInv
  <2>3. CASE op \notin {"continue", "step", "halt_check"}
    <3>1. op \notin {"connect", "ctrl_c", "disconnect"}
      BY <1>2 DEF Return
    <3>2. connected /\ running
      BY <1>2, <2>3, <3>1 DEF Return
    <3> QED
      BY <3>2 DEF Gone, StopsInv, RunInv
  <2> QED
    BY <2>1, <2>2, <2>3
<1>3. RunInv'
  BY <1>1, <1>2 DEF RunInv
<1>4. StopInv'
  BY <1>1, <1>2, StopSame DEF StopsInv, Gone
<1> QED
  BY <1>1, <1>3, <1>4 DEF ReportInv

LEMMA StopsKeep ==
  ASSUME OneWatchEach, IInv, StopsInv, [Next]_vars
  PROVE  StopsInv'
<1>1. SlotInv'
  BY SlotsKeep DEF IInv, StopsInv
<1>2. CASE UNCHANGED vars
  <2>1. UNCHANGED <<hart, stop, slots, errMsg, wiped, op, todo, connected, running, targetError,
                    report>>
    BY <1>2 DEF vars, hartVars, serverVars, historyVars
  <2>2. Gone' = Gone /\ Cause' = Cause
    BY <2>1 DEF Gone, Left, Cause, TriggerReason, HardAt, WatchAt, Decoded, First
  <2>3. RunInv' /\ ReportInv'
    BY <2>1, <2>2 DEF StopsInv, RunInv, ReportInv
  <2> QED
    BY <1>1, <2>1, <2>2, <2>3, StopSame DEF StopsInv
<1>3. CASE Next
  <2>1. RunInv' /\ StopInv' /\ ReportInv'
    BY <1>3, CallStops, ControlStops, OtherStops, CauseStops, ReturnStops, HartStopsFor
       DEF Next, Probe
  <2> QED
    BY <1>1, <2>1 DEF StopsInv
<1> QED
  BY <1>2, <1>3

\* The slot that CHOOSE finds is that of the trigger, as no slot before it has the
\* address.
LEMMA WatchFound ==
  ASSUME IInv, StopsInv, stop.plain, stop.touch # Nowhere, stop.cause = "trigger",
         NEW t \in Triggers, Explains(t)
  PROVE  Cause = [reason |-> slots[t].type, addr |-> stop.touch] /\ slots[t].type \in WatchTypes
<1>1. /\ slots[t].type \in WatchTypes /\ slots[t].addr = stop.touch /\ stop.pc = Nowhere
      /\ Decoded = stop.touch
  BY DEF Explains, Decoded
<1>2. \A u \in Triggers : ~ HardAt(u)
  <2>1. ASSUME NEW u \in Triggers, slots[u].type = "hardware"  PROVE  slots[u].addr # Nowhere
    <3>1. <<slots[u].type, slots[u].addr>> \in Points
      BY <2>1 DEF StopsInv, SlotInv
    <3>2. slots[u].addr \in CodeAddrs
      BY <2>1, <3>1, TargetAssumption DEF WatchTypes
    <3> QED
      BY <3>2, AddrAssumption
  <2> QED
    BY <1>1, <2>1 DEF HardAt
<1> DEFINE Found == {u \in Triggers : WatchAt(u)}
<1>3. First(t, Found)
  <2>1. \A u \in Triggers : u < t => slots[u].addr # slots[t].addr
    BY <1>1 DEF StopsInv, SlotInv
  <2> QED
    BY <1>1, <2>1, HartAssumption DEF First, WatchAt, Triggers
<1>4. \A u \in Triggers : First(u, Found) => u = t
  BY <1>3, HartAssumption DEF First, Triggers
<1>5. (CHOOSE u \in Triggers : First(u, Found)) = t
  BY <1>3, <1>4
<1>6. TriggerReason = [reason |-> slots[t].type, addr |-> Decoded]
  BY <1>1, <1>2, <1>5 DEF TriggerReason, WatchAt
<1> QED
  BY <1>1, <1>6 DEF Cause

LEMMA ExplainedStops ==
  ASSUME IInv, StopsInv
  PROVE  StopIsExplained
<1> SUFFICES ASSUME Reported
             PROVE  /\ hart = "halted"
                    /\ report.reason = "software" => stop.cause = "ebreak"
                    /\ report.reason = "hardware" => <<"hardware", stop.pc>> \in Placed
                    /\ report.reason \in WatchTypes =>
                         report.addr = stop.touch /\ <<report.reason, stop.touch>> \in Placed
                    /\ WatchHit => report.reason \in WatchTypes
  BY DEF StopIsExplained
<1>1. /\ op = "halt_check" /\ todo = <<>> /\ report.reason # "running" /\ ~errMsg /\ ~wiped
  BY DEF Reported
<1>2. hart = "halted"
  BY <1>1 DEF IInv, HeldInv, Left
<1>3. report = Cause
  BY <1>1 DEF StopsInv, ReportInv
<1>4. CASE stop.cause = "ebreak"
  BY <1>2, <1>3, <1>4 DEF Cause, WatchTypes, WatchHit
<1>5. CASE stop.cause = "trigger"
  <2>1. Gone
    BY <1>1 DEF Gone, StopsInv, RunInv, IInv, CallInv
  <2>2. PICK t \in Triggers : Explains(t)
    BY <1>1, <1>2, <1>5, <2>1 DEF StopsInv, StopInv
  <2>3. CASE slots[t] = [type |-> "hardware", addr |-> stop.pc] /\ stop.touch = Nowhere
    <3>1. report.reason = "hardware"
      BY <1>3, <1>5, <2>3 DEF Cause, TriggerReason, HardAt
    <3>2. <<"hardware", stop.pc>> \in Placed
      BY <2>3 DEF Placed
    <3> QED
      BY <1>2, <2>3, <3>1, <3>2 DEF WatchTypes, WatchHit
  <2>4. CASE slots[t].type \in WatchTypes /\ slots[t].addr = stop.touch /\ stop.pc = Nowhere
    <3>1. <<slots[t].type, slots[t].addr>> \in Points
      BY <2>4 DEF StopsInv, SlotInv, WatchTypes
    <3>2. stop.touch \in DataAddrs
      BY <2>4, <3>1, TargetAssumption DEF WatchTypes
    <3>3. stop.touch # Nowhere
      BY <3>2, AddrAssumption
    <3>4. <<slots[t].type, stop.touch>> \in Placed
      BY <2>4 DEF Placed, WatchTypes
    <3>5. CASE stop.plain
      <4>1. report = [reason |-> slots[t].type, addr |-> stop.touch]
        BY <1>3, <1>5, <2>2, <3>3, <3>5, WatchFound
      <4> QED
        BY <1>2, <2>4, <3>4, <4>1 DEF WatchTypes
    <3>6. CASE ~ stop.plain
      <4>1. \A u \in Triggers : ~ WatchAt(u)
        BY <3>6, SlotAt, AddrAssumption DEF WatchAt, Decoded, IInv, Addrs, Zero, Nowhere
      <4>2. report.reason = "other" \/ \E u \in Triggers : HardAt(u)
        BY <1>3, <1>5, <4>1 DEF Cause, TriggerReason
      <4>3. ASSUME NEW u \in Triggers, HardAt(u)  PROVE  FALSE
        <5>1. slots[u].type = "hardware" /\ slots[u].addr = Nowhere
          BY <2>4, <4>3 DEF HardAt
        <5>2. <<slots[u].type, slots[u].addr>> \in Points
          BY <5>1 DEF StopsInv, SlotInv
        <5>3. slots[u].addr \in CodeAddrs
          BY <5>1, <5>2, TargetAssumption DEF WatchTypes
        <5> QED
          BY <5>1, <5>3, AddrAssumption
      <4> QED
        BY <1>2, <3>6, <4>2, <4>3 DEF WatchTypes, WatchHit
    <3> QED
      BY <3>5, <3>6
  <2> QED
    BY <2>2, <2>3, <2>4 DEF Explains
<1>6. CASE stop.cause \notin {"ebreak", "trigger"}
  BY <1>2, <1>3, <1>6 DEF Cause, WatchTypes, WatchHit
<1> QED
  BY <1>4, <1>5, <1>6

LEMMA InitStops == Init => StopsInv
BY HartAssumption
   DEF Init, HartInit, StopsInv, SlotInv, RunInv, StopInv, Gone, ReportInv, NoSlot, WatchTypes

\* rvl_target_halt_check tells the truth about a stop, as long as no error was noted
\* and GDB sets one kind of watchpoint at an address: a hart that it reports has
\* halted, the breakpoint that it names is there and stopped the hart, and a
\* watchpoint that a plain load or store has hit is named with its address.
THEOREM StopsAreExplained ==
  ASSUME OneWatchEach
  PROVE  Spec => []StopIsExplained
<1>1. Init => StopsInv
  BY InitStops
<1>2. IInv /\ StopsInv /\ [Next]_vars => StopsInv'
  BY StopsKeep
<1>3. IInv /\ StopsInv => StopIsExplained
  BY ExplainedStops
<1> QED
  BY <1>1, <1>2, <1>3, TargetInvariant, PTL DEF Spec
=============================================================================
